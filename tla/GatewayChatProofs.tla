------------------------- MODULE GatewayChatProofs -------------------------
(***************************************************************************)
(* Proofs about GatewayChat, for every policy, every set of handlers and   *)
(* every kind of request: the handlers implement PoolSpec, try no provider *)
(* twice, keep to their scope, leave no slot behind and answer as it went. *)
(***************************************************************************)
EXTENDS GatewayChat, ProviderPoolProofs

-----------------------------------------------------------------------------
(* The handlers use the pool only through its interface.                   *)

\* From an empty list the pool grants nothing, and nobody waits for it.
LEMMA EmptyList ==
  ASSUME NEW r
  PROVE  ~AcquireGrant(r, <<>>) /\ ~AcquireBlock(r, <<>>)
<1>1. DOMAIN << >> = {}
  OBVIOUS
<1> QED
  BY <1>1 DEF AcquireGrant, Grant, AcquireBlock, Block, AllFull, NoneUsable

\* What Select does to the pool.
LEMMA SelectPool ==
  ASSUME NEW r \in Callers, Select(r)
  PROVE  CallerStep(r) \/ UNCHANGED poolVars
<1>1. PICK specs \in SpecLists \union {<<>>} :
         \/ UNCHANGED poolVars
         \/ AcquireGrant(r, specs)
         \/ specs # <<>> /\ AcquireNoHealthy(r, specs)
         \/ AcquireBlock(r, specs)
  BY DEF Select
<1> QED
  BY <1>1, EmptyList DEF CallerStep

\* Every step of the handlers is a step of the pool, or leaves it alone.
LEMMA ChatStepsPool == [ChatNext]_chatVars => [PoolNext]_poolVars
<1> SUFFICES ASSUME [ChatNext]_chatVars PROVE PoolNext \/ UNCHANGED poolVars
  OBVIOUS
<1>1. ASSUME NEW r \in Callers, Select(r) PROVE PoolNext \/ UNCHANGED poolVars
  BY <1>1, SelectPool DEF PoolNext
<1>2. ASSUME NEW r \in Callers, Admission(r) \/ WaitCancelled(r)
      PROVE  PoolNext
  BY <1>2 DEF Admission, WaitCancelled, PoolNext, CallerStep
<1>3. ASSUME NEW r \in Callers,
             Arrive(r) \/ OpenEnds(r) \/ StreamEnds(r) \/ StreamBreaks(r)
               \/ StreamCancelled(r) \/ Close(r)
      PROVE  PoolNext \/ UNCHANGED poolVars
  BY <1>3 DEF Arrive, OpenEnds, OpenRetryable, OpenOverloaded, OpenRejected, OpenPayload,
     OpenStream, StreamEnds, StreamBreaks, StreamCancelled, Close, PoolNext, CallerStep
<1>4. CASE ChatProbe \/ ChatTick
  BY <1>4 DEF ChatProbe, ChatTick, PoolNext
<1>5. CASE UNCHANGED chatVars
  BY <1>5 DEF chatVars
<1> QED
  BY <1>1, <1>2, <1>3, <1>4, <1>5 DEF ChatNext

\* The handlers use the pool only through its interface, so that whatever holds of
\* the pool holds beneath the route (_handle_local, generate).
THEOREM PoolImplemented == ChatSpec => ImplementsPool
<1>1. ChatInit => PoolInit
  BY DEF ChatInit
<1> QED
  BY <1>1, ChatStepsPool, PTL DEF ChatSpec, PoolSpec, ImplementsPool

-----------------------------------------------------------------------------
(* Types.  A trail is a sequence of entries.                               *)

Entry == [provider : Providers, outcome : Outcomes]

\* A trail that gets one entry more
LEMMA EntryAdded ==
  ASSUME NEW t \in Seq(Entry), NEW p \in Providers, NEW u,
         u = Append(t, [provider |-> p, outcome |-> "pending"])
  PROVE  /\ u \in Seq(Entry)
         /\ Len(u) = Len(t) + 1
         /\ \A i \in 1..Len(t) : u[i] = t[i]
         /\ u[Len(u)].provider = p
         /\ u[Len(u)].outcome = "pending"
<1> DEFINE e == [provider |-> p, outcome |-> "pending"]
<1>1. e \in Entry
  BY DEF Entry, Outcomes
<1>2. e.provider = p /\ e.outcome = "pending"
  OBVIOUS
<1> HIDE DEF e
<1>3. u = Append(t, e)
  BY DEF e
<1> QED
  BY <1>1, <1>2, <1>3

\* The last entry of a trail
LEMMA LastEntry ==
  ASSUME NEW t \in Seq(Entry), t # <<>>
  PROVE  /\ Len(t) \in Nat \ {0} /\ Len(t) \in DOMAIN t
         /\ t[Len(t)] \in Entry
<1>1. Len(t) \in Nat \ {0} /\ Len(t) \in DOMAIN t
  OBVIOUS
<1> QED
  BY <1>1

\* A trail with another last entry
LEMMA LastReplaced ==
  ASSUME NEW t \in Seq(Entry), t # <<>>, NEW e \in Entry, NEW u,
         u = [t EXCEPT ![Len(t)] = e]
  PROVE  /\ u \in Seq(Entry)
         /\ Len(u) = Len(t)
         /\ \A i \in 1..(Len(t) - 1) : u[i] = t[i]
         /\ u[Len(u)] = e
  BY LastEntry

\* A trail whose last outcome becomes known
LEMMA OutcomeSet ==
  ASSUME NEW t \in Seq(Entry), t # <<>>, NEW o \in Outcomes, NEW u,
         u = [t EXCEPT ![Len(t)].outcome = o]
  PROVE  /\ u \in Seq(Entry)
         /\ Len(u) = Len(t)
         /\ \A i \in 1..(Len(t) - 1) : u[i] = t[i]
         /\ u[Len(u)].provider = t[Len(t)].provider
         /\ u[Len(u)].outcome = o
<1> DEFINE e == [t[Len(t)] EXCEPT !.outcome = o]
<1>1. u = [t EXCEPT ![Len(t)] = e]
  OBVIOUS
<1>2. e \in Entry /\ e.provider = t[Len(t)].provider /\ e.outcome = o
  <2>1. t[Len(t)] \in Entry
    BY LastEntry, Zenon
  <2> QED
    BY ONLY <2>1, o \in Outcomes DEF Entry
<1> HIDE DEF e
<1> QED
  BY ONLY <1>1, <1>2, LastReplaced, t \in Seq(Entry), t # <<>>
\* A request is granted one of its candidates, and waits no longer.
LEMMA GrantGives ==
  ASSUME PoolTypeOK, NEW r \in Callers, NEW specs \in SpecLists, Grant(r, specs)
  PROVE  /\ \E i \in DOMAIN specs : lease'[r].provider = specs[i]
         /\ lease'[r].provider \in Providers
         /\ lease'[r] # NoLease
         /\ waiting'[r] = NoWait
<1>1. PICK i \in DOMAIN specs :
         lease' = [lease EXCEPT ![r] = [provider  |-> specs[i],
                                        half_open |-> circuit_open[specs[i]]]]
  BY DEF Grant
<1>2. specs[i] \in Providers
  BY ListedProvider
<1>3. lease'[r] = [provider |-> specs[i], half_open |-> circuit_open[specs[i]]]
  BY <1>1 DEF PoolTypeOK
<1>4. lease'[r] \in Lease
  BY <1>2, <1>3 DEF PoolTypeOK, Lease
<1>5. waiting'[r] = NoWait
  BY DEF PoolTypeOK, Grant
<1> QED
  BY <1>2, <1>3, <1>4, <1>5, PoolAssumption DEF PoolAssumption

\* The ways Select goes
LEMMA SelectCases ==
  ASSUME NEW r \in Callers, Select(r)
  PROVE  \/ NoProvider(r) /\ UNCHANGED poolVars
         \/ \E specs \in SpecLists : NoProvider(r) /\ AcquireNoHealthy(r, specs)
         \/ \E specs \in SpecLists :
               Candidates(r, specs) /\ AcquireGrant(r, specs) /\ Leased(r)
         \/ \E specs \in SpecLists :
               /\ Candidates(r, specs) /\ AcquireBlock(r, specs)
               /\ pc' = [pc EXCEPT ![r] = "admission"]
               /\ UNCHANGED <<request, attempted, use_explicit, saw_overload, after, trail>>
  BY EmptyList DEF Select

\* A granted lease, a request without a provider, and an answer keep the types.
LEMMA LeasedType ==
  ASSUME ChatTypeOK, NEW r \in Callers, lease'[r].provider \in Providers, Leased(r)
  PROVE  ChatTypeOK'
<1>1. trail \in [Callers -> Seq(Entry)]
  BY DEF ChatTypeOK, Entry
<1>2. trail' = [trail EXCEPT ![r] = Append(trail[r], [provider |-> lease'[r].provider,
                                                      outcome  |-> "pending"])]
  BY DEF Leased
<1>3. Append(trail[r], [provider |-> lease'[r].provider, outcome |-> "pending"]) \in Seq(Entry)
  BY <1>1, EntryAdded
<1>4. trail' \in [Callers -> Seq(Entry)]
  BY <1>1, <1>2, <1>3
<1>5. /\ pc' = [pc EXCEPT ![r] = "opening"]
      /\ attempted' = [attempted EXCEPT ![r] = @ \union {lease'[r].provider}]
      /\ UNCHANGED <<request, use_explicit, saw_overload, after>>
  BY DEF Leased
<1>6. attempted' \in [Callers -> SUBSET (Providers \union {Codex})]
  BY <1>5 DEF ChatTypeOK
<1> QED
  BY <1>4, <1>5, <1>6 DEF ChatTypeOK, Entry

\* An answer keeps the types.
LEMMA RespondType ==
  ASSUME ChatTypeOK, NEW r \in Callers, NEW response \in Responses, Respond(r, response)
  PROVE  ChatTypeOK'
  BY DEF ChatTypeOK, Respond

\* Without a provider an explicit request falls back, and any other is answered.
LEMMA NoProviderCases ==
  ASSUME NEW r \in Callers, NoProvider(r)
  PROVE  \/ /\ use_explicit[r]
            /\ attempted' = [attempted EXCEPT ![r] = @ \union {Codex}]
            /\ use_explicit' = [use_explicit EXCEPT ![r] = FALSE]
            /\ pc' = [pc EXCEPT ![r] = "select"]
            /\ UNCHANGED <<request, saw_overload, after, trail>>
         \/ /\ ~use_explicit[r]
            /\ \E response \in {"overloaded", "unavailable"} :
                  /\ response = "unavailable" => ~saw_overload[r]
                  /\ Respond(r, response)
  BY DEF NoProvider

\* Either way the types are kept.
LEMMA NoProviderType ==
  ASSUME ChatTypeOK, NEW r \in Callers, NoProvider(r)
  PROVE  ChatTypeOK'
<1>1. ASSUME NEW response \in {"overloaded", "unavailable"}, Respond(r, response)
      PROVE  ChatTypeOK'
  BY <1>1, RespondType DEF Responses
<1>2. CASE /\ attempted' = [attempted EXCEPT ![r] = @ \union {Codex}]
           /\ use_explicit' = [use_explicit EXCEPT ![r] = FALSE]
           /\ pc' = [pc EXCEPT ![r] = "select"]
           /\ UNCHANGED <<request, saw_overload, after, trail>>
  <2>1. attempted' \in [Callers -> SUBSET (Providers \union {Codex})]
    BY ONLY <1>2, ChatTypeOK DEF ChatTypeOK
  <2> QED
    BY ONLY <1>2, <2>1, ChatTypeOK DEF ChatTypeOK
<1> QED
  BY <1>1, <1>2, NoProviderCases

\* So does the end of an attempt.
LEMMA FinishType ==
  ASSUME ChatTypeOK, NEW r \in Callers, trail[r] # <<>>, NEW o \in Outcomes,
         NEW next \in Responses \union {"select"}, Finish(r, o, next),
         use_explicit' \in [Callers -> BOOLEAN], saw_overload' \in [Callers -> BOOLEAN]
  PROVE  ChatTypeOK'
<1>1. trail \in [Callers -> Seq(Entry)]
  BY DEF ChatTypeOK, Entry
<1> DEFINE t == trail[r]
           u == [t EXCEPT ![Len(t)].outcome = o]
<1>2. trail' = [trail EXCEPT ![r] = u]
  BY DEF Finish
<1>3. u \in Seq(Entry)
  <2>1. t \in Seq(Entry)
    BY ONLY <1>1, r \in Callers
  <2> QED
    BY ONLY <2>1, trail[r] # <<>>, o \in Outcomes, OutcomeSet
<1> HIDE DEF u
<1>4. trail' \in [Callers -> Seq(Entry)]
  BY ONLY <1>1, <1>2, <1>3
<1>5. /\ pc' = [pc EXCEPT ![r] = "closing"]
      /\ after' = [after EXCEPT ![r] = next]
      /\ UNCHANGED <<request, attempted>>
  BY DEF Finish
<1> QED
  BY ONLY <1>4, <1>5, ChatTypeOK, next \in Responses \union {"select"},
     use_explicit' \in [Callers -> BOOLEAN], saw_overload' \in [Callers -> BOOLEAN]
     DEF ChatTypeOK, Entry
-----------------------------------------------------------------------------
(* The invariant: what is true of a handler at each of its steps.          *)

\* A handler holds a slot exactly while it tries the last provider of its trail.
Slot(r) ==
  /\ pc[r] \in {"idle", "select", "done"} => lease[r] = NoLease /\ waiting[r] = NoWait
  /\ pc[r] = "admission" => lease[r] = NoLease /\ waiting[r] # NoWait
  /\ pc[r] \in {"opening", "streaming", "closing"} =>
       /\ lease[r] # NoLease /\ waiting[r] = NoWait
       /\ trail[r] # <<>>
       /\ trail[r][Len(trail[r])].provider = lease[r].provider

\* The provider p is new to the request, and in its scope.
MayTry(r, p) ==
  /\ p \notin attempted[r]
  /\ p \in Remote => IF request[r].explicit THEN use_explicit[r]
                                            ELSE request[r].profile.remote_allowed

\* What is in the trail has been attempted, and what is waited for may be tried.
Tried(r) ==
  /\ \A i \in DOMAIN trail[r] : trail[r][i].provider \in attempted[r]
  /\ \A i, j \in DOMAIN trail[r] : trail[r][i].provider = trail[r][j].provider => i = j
  /\ pc[r] \in {"select", "admission"} /\ use_explicit[r] =>
       attempted[r] = {} /\ trail[r] = <<>> /\ request[r].explicit
  /\ pc[r] = "closing" /\ after[r] = "select" => ~use_explicit[r]
  /\ pc[r] = "admission" => \A i \in DOMAIN waiting[r].specs : MayTry(r, waiting[r].specs[i])

Scoped(r) ==
  \A i \in DOMAIN trail[r] :
    trail[r][i].provider \in Remote =>
      \/ request[r].explicit /\ i = 1
      \/ ~request[r].explicit /\ request[r].profile.remote_allowed

\* The outcomes so far, and what will follow from them
Explained(r) ==
  /\ \A i \in 1..(Len(trail[r]) - 1) : trail[r][i].outcome \in {"retryable", "overloaded"}
  /\ \A i \in DOMAIN trail[r] : trail[r][i].outcome = "overloaded" => saw_overload[r]
  /\ pc[r] \in {"select", "admission"} =>
       \A i \in DOMAIN trail[r] : trail[r][i].outcome \in {"retryable", "overloaded"}
  /\ pc[r] \in {"opening", "streaming"} => trail[r][Len(trail[r])].outcome = "pending"
  /\ pc[r] = "closing" =>
       \/ /\ after[r] = "select"
          /\ trail[r][Len(trail[r])].outcome \in {"retryable", "overloaded"}
       \/ /\ after[r] \in {"ok", "broken", "invalid_request", "cancelled"}
          /\ trail[r][Len(trail[r])].outcome = after[r]
  /\ pc[r] = "done" =>
       /\ after[r] = "unavailable" => ~saw_overload[r]
       /\ after[r] \in {"unavailable", "overloaded"} =>
            \A i \in DOMAIN trail[r] : trail[r][i].outcome \in {"retryable", "overloaded"}
       /\ after[r] \in {"ok", "broken", "invalid_request"} =>
            trail[r] # <<>> /\ trail[r][Len(trail[r])].outcome = after[r]
       /\ after[r] = "cancelled" =>
            \A i \in DOMAIN trail[r] :
              trail[r][i].outcome \in {"retryable", "overloaded", "cancelled"}

HandlerInv(r) == Slot(r) /\ Tried(r) /\ Scoped(r) /\ Explained(r)

ChatInv == PoolTypeOK /\ ChatTypeOK /\ \A r \in Callers : HandlerInv(r)

-----------------------------------------------------------------------------
(* A step of one handler leaves the others as they are.                    *)

\* The pool keeps the lease and the list of d.
PoolKeeps(d) ==
  /\ lease'[d] = lease[d]
  /\ waiting'[d] = NoWait <=> waiting[d] = NoWait
  /\ waiting[d] # NoWait => waiting'[d].specs = waiting[d].specs

HandlerKeeps(d) ==
  /\ pc'[d] = pc[d] /\ request'[d] = request[d] /\ attempted'[d] = attempted[d]
  /\ use_explicit'[d] = use_explicit[d] /\ saw_overload'[d] = saw_overload[d]
  /\ after'[d] = after[d] /\ trail'[d] = trail[d]

\* A handler that nothing touches keeps its invariant.
LEMMA KeptInv ==
  ASSUME NEW d \in Callers, HandlerInv(d), PoolKeeps(d), HandlerKeeps(d)
  PROVE  HandlerInv(d)'
<1>1. Slot(d)'
  BY DEF HandlerInv, Slot, PoolKeeps, HandlerKeeps
<1>2. Tried(d)'
  <2>1. pc'[d] = "admission" =>
          waiting[d] # NoWait /\ waiting'[d].specs = waiting[d].specs
    BY DEF HandlerInv, Slot, PoolKeeps, HandlerKeeps
  <2> QED
    BY <2>1 DEF HandlerInv, Tried, MayTry, HandlerKeeps
<1>3. Scoped(d)'
  BY DEF HandlerInv, Scoped, HandlerKeeps
<1>4. Explained(d)'
  BY DEF HandlerInv, Explained, HandlerKeeps
<1> QED
  BY <1>1, <1>2, <1>3, <1>4 DEF HandlerInv

\* notify_all changes no lease and no list.
LEMMA NotifiedKeeps ==
  ASSUME PoolTypeOK, NEW d \in Callers, lease'[d] = lease[d], waiting' = Notified
  PROVE  PoolKeeps(d)
<1>1. CASE waiting[d] = NoWait
  BY <1>1 DEF Notified, PoolKeeps
<1>2. CASE waiting[d] # NoWait
  <2>1. waiting[d] \in Wait
    BY <1>2, AwakeWaits
  <2>2. waiting'[d] = [waiting[d] EXCEPT !.notified = TRUE]
    BY <1>2 DEF Notified
  <2>3. waiting'[d] \in Wait /\ waiting'[d].specs = waiting[d].specs
    BY <2>1, <2>2 DEF Wait
  <2> QED
    BY <1>2, <2>3, PoolAssumption DEF PoolKeeps
<1> QED
  BY <1>1, <1>2

\* Neither does a tick.
LEMMA TickKeeps ==
  ASSUME PoolTypeOK, NEW d \in Callers, Tick
  PROVE  PoolKeeps(d)
<1>1. CASE waiting[d] = NoWait
  BY <1>1 DEF Tick, PoolKeeps
<1>2. CASE waiting[d] # NoWait
  <2>1. waiting[d] \in Wait
    BY <1>2, AwakeWaits
  <2>2. waiting'[d] = [waiting[d] EXCEPT !.left = Minus1(@), !.timer = Minus1(@)]
    BY <1>2 DEF Tick
  <2>3. waiting'[d].specs = waiting[d].specs
    BY <2>1, <2>2 DEF Wait
  <2>4. waiting'[d] # NoWait
    <3>1. Minus1(waiting[d].left) \in 0..AdmissionTimeout
      BY <2>1, PoolAssumption DEF Wait, Minus1, PoolAssumption
    <3>2. Minus1(waiting[d].timer) \in 0..AdmissionTimeout
      BY <2>1, PoolAssumption DEF Wait, Minus1, PoolAssumption
    <3>3. waiting'[d] \in Wait
      BY <2>1, <2>2, <3>1, <3>2 DEF Wait
    <3> QED
      BY <3>3, PoolAssumption
  <2>5. lease'[d] = lease[d]
    BY DEF Tick
  <2> QED
    BY <1>2, <2>3, <2>4, <2>5 DEF PoolKeeps
<1> QED
  BY <1>1, <1>2

\* Neither does a probe.
LEMMA ProbeKeeps ==
  ASSUME PoolTypeOK, NEW d \in Callers, NEW p \in Providers, NEW healthy \in BOOLEAN,
         Probe(p, healthy)
  PROVE  PoolKeeps(d)
<1>1. lease'[d] = lease[d] /\ (waiting' = Notified \/ waiting' = waiting)
  BY DEF Probe
<1>2. CASE waiting' = waiting
  BY <1>1, <1>2 DEF PoolKeeps
<1> QED
  BY <1>1, <1>2, NotifiedKeeps

\* A step of another caller
LEMMA CallerKeeps ==
  ASSUME PoolTypeOK, NEW c \in Callers, CallerStep(c) \/ UNCHANGED poolVars,
         NEW d \in Callers \ {c}
  PROVE  PoolKeeps(d)
<1>1. ASSUME NEW specs, Grant(c, specs) PROVE PoolKeeps(d)
  BY <1>1 DEF Grant, PoolTypeOK, PoolKeeps
<1>2. ASSUME NEW specs, RaiseNoHealthy(c, specs) PROVE PoolKeeps(d)
  BY <1>2 DEF RaiseNoHealthy, PoolTypeOK, PoolKeeps
<1>3. ASSUME NEW specs, NEW remaining, Block(c, specs, remaining) PROVE PoolKeeps(d)
  BY <1>3 DEF Block, PoolTypeOK, PoolKeeps
<1>4. CASE AdmissionExpires(c) \/ AdmissionCancelled(c)
  BY <1>4 DEF AdmissionExpires, AdmissionCancelled, PoolTypeOK, PoolKeeps
<1>5. CASE Release(c) \/ RecordSuccess(c) \/ RecordFailure(c)
  <2>1. lease'[d] = lease[d] /\ waiting' = Notified
    BY <1>5 DEF Release, RecordSuccess, RecordFailure, PoolTypeOK
  <2> QED
    BY <2>1, NotifiedKeeps
<1>6. CASE UNCHANGED poolVars
  BY <1>6 DEF poolVars, PoolKeeps
<1> QED
  BY <1>1, <1>2, <1>3, <1>4, <1>5, <1>6 DEF CallerStep, AcquireGrant, AcquireNoHealthy,
     AcquireBlock, RecheckGrant, RecheckNoHealthy, RecheckBlock
-----------------------------------------------------------------------------
(* What a step does to its own handler.                                    *)

\* The candidates of a request may be tried.
LEMMA CandidatesMayBeTried ==
  ASSUME ChatInv, NEW r \in Callers, pc[r] = "select", NEW specs, Candidates(r, specs),
         NEW i \in DOMAIN specs
  PROVE  MayTry(r, specs[i])
<1>1. Tried(r) /\ use_explicit[r] \in BOOLEAN
  BY DEF ChatInv, HandlerInv, ChatTypeOK
<1>2. CASE use_explicit[r]
  BY <1>1, <1>2 DEF Tried, MayTry
<1>3. CASE ~use_explicit[r]
  <2>1. Range(specs) = Eligible(RouteProfile(r), attempted[r])
    BY <1>3 DEF Candidates, InRouteOrder
  <2>2. specs[i] \in Eligible(RouteProfile(r), attempted[r])
    BY <2>1 DEF Range
  <2>3. /\ specs[i] \notin attempted[r]
        /\ specs[i] \in Remote => RouteProfile(r).remote_allowed
    BY <2>2 DEF Eligible
  <2>4. ~Fallback.remote_allowed
    BY DEF Fallback
  <2> QED
    BY <2>3, <2>4 DEF MayTry, RouteProfile
<1> QED
  BY <1>2, <1>3

\* A lease on a provider that may be tried
LEMMA LeasedInv ==
  ASSUME ChatInv, NEW r \in Callers, pc[r] \in {"select", "admission"},
         lease'[r] # NoLease, waiting'[r] = NoWait, lease'[r].provider \in Providers,
         MayTry(r, lease'[r].provider), Leased(r)
  PROVE  HandlerInv(r)'
<1> DEFINE p == lease'[r].provider
           t == trail[r]
           u == trail'[r]
<1>1. t \in Seq(Entry)
  BY DEF ChatInv, ChatTypeOK, Entry
<1>2. u = Append(t, [provider |-> p, outcome |-> "pending"])
  BY DEF ChatInv, ChatTypeOK, Leased
<1>3. /\ u \in Seq(Entry) /\ Len(u) = Len(t) + 1
      /\ \A i \in 1..Len(t) : u[i] = t[i]
      /\ u[Len(u)].provider = p /\ u[Len(u)].outcome = "pending"
  BY <1>1, <1>2, EntryAdded
<1>4. /\ pc'[r] = "opening" /\ attempted'[r] = attempted[r] \union {p}
      /\ request'[r] = request[r] /\ use_explicit'[r] = use_explicit[r]
      /\ saw_overload'[r] = saw_overload[r]
  BY DEF ChatInv, ChatTypeOK, Leased
<1> HIDE DEF u
<1>5. /\ Len(t) \in Nat /\ DOMAIN t = 1..Len(t)
      /\ DOMAIN u = 1..(Len(t) + 1)
  BY <1>1, <1>3
<1>6. Tried(r) /\ Scoped(r) /\ Explained(r)
  BY DEF ChatInv, HandlerInv
<1>7. Slot(r)'
  <2>1. u # <<>>
    BY <1>3, <1>5
  <2> QED
    BY <1>3, <1>4, <2>1 DEF Slot, u
<1>8. Tried(r)'
  <2>1. \A i \in DOMAIN u : u[i].provider \in attempted'[r]
    <3>1. ASSUME NEW i \in DOMAIN u, i # Len(u) PROVE u[i].provider \in attempted'[r]
      BY <1>3, <1>4, <1>5, <1>6, <3>1 DEF Tried
    <3> QED
      BY <1>3, <1>4, <3>1
  <2>2. \A i \in 1..Len(t) : u[i].provider # p
    BY <1>3, <1>5, <1>6 DEF Tried, MayTry
  <2>3. ASSUME NEW i \in DOMAIN u, NEW j \in DOMAIN u, u[i].provider = u[j].provider
        PROVE  i = j
    <3>1. CASE i = Len(u) \/ j = Len(u)
      BY ONLY <1>3, <1>5, <2>2, <2>3, <3>1
    <3>2. CASE i # Len(u) /\ j # Len(u)
      <4>1. i \in DOMAIN t /\ j \in DOMAIN t /\ t[i].provider = t[j].provider
        BY ONLY <1>3, <1>5, <2>3, <3>2
      <4> QED
        BY ONLY <1>6, <4>1 DEF Tried
    <3> QED
      BY <3>1, <3>2
  <2> QED
    BY <1>4, <2>1, <2>3 DEF Tried, u
<1>9. Scoped(r)'
  <2>1. p \in Remote => IF request[r].explicit THEN Len(t) = 0
                                              ELSE request[r].profile.remote_allowed
    BY <1>6 DEF Tried, MayTry
  <2>2. \A i \in DOMAIN u : u[i].provider \in Remote =>
           \/ request[r].explicit /\ i = 1
           \/ ~request[r].explicit /\ request[r].profile.remote_allowed
    <3>1. ASSUME NEW i \in DOMAIN u, i # Len(u), u[i].provider \in Remote
          PROVE  \/ request[r].explicit /\ i = 1
                 \/ ~request[r].explicit /\ request[r].profile.remote_allowed
      <4>1. i \in DOMAIN t /\ t[i].provider \in Remote
        BY <1>3, <1>5, <3>1
      <4> QED
        BY <1>6, <4>1 DEF Scoped
    <3> QED
      BY <1>3, <1>5, <2>1, <3>1
  <2> QED
    BY <1>4, <2>2 DEF Scoped, u
<1>10. Explained(r)'
  <2>1. \A i \in 1..Len(t) : t[i].outcome \in {"retryable", "overloaded"}
    BY <1>5, <1>6 DEF Explained
  <2>2. \A i \in 1..(Len(u) - 1) : u[i].outcome \in {"retryable", "overloaded"}
    BY <1>3, <1>5, <2>1
  <2>3. \A i \in DOMAIN u : u[i].outcome = "overloaded" => saw_overload'[r]
    BY <1>3, <1>4, <1>5, <1>6 DEF Explained
  <2> QED
    BY <1>3, <1>4, <2>2, <2>3 DEF Explained, u
<1> QED
  BY <1>7, <1>8, <1>9, <1>10 DEF HandlerInv
\* The end of an attempt
LEMMA FinishInv ==
  ASSUME ChatInv, NEW r \in Callers, pc[r] \in {"opening", "streaming"},
         NEW o \in Outcomes, NEW next, Finish(r, o, next),
         lease'[r] = lease[r], waiting'[r] = NoWait,
         saw_overload[r] \/ o = "overloaded" => saw_overload'[r],
         \/ next = "select" /\ o \in {"retryable", "overloaded"} /\ ~use_explicit'[r]
         \/ next = o /\ o \in {"ok", "broken", "invalid_request", "cancelled"}
  PROVE  HandlerInv(r)'
<1> DEFINE t == trail[r]
           u == trail'[r]
<1>1. t \in Seq(Entry) /\ t # <<>>
  BY DEF ChatInv, ChatTypeOK, Entry, HandlerInv, Slot
<1>2. u = [t EXCEPT ![Len(t)].outcome = o]
  BY Zenon DEF ChatInv, ChatTypeOK, Finish
<1>3. /\ u \in Seq(Entry) /\ Len(u) = Len(t)
      /\ \A i \in 1..(Len(t) - 1) : u[i] = t[i]
      /\ u[Len(u)].provider = t[Len(t)].provider
      /\ u[Len(u)].outcome = o
  BY ONLY <1>1, <1>2, OutcomeSet, o \in Outcomes
<1>4. /\ pc'[r] = "closing" /\ after'[r] = next
      /\ request'[r] = request[r] /\ attempted'[r] = attempted[r]
  BY DEF ChatInv, ChatTypeOK, Finish
<1>5. Slot(r) /\ Tried(r) /\ Scoped(r) /\ Explained(r)
  BY DEF ChatInv, HandlerInv
<1> HIDE DEF u
<1>6. /\ Len(t) \in Nat \ {0} /\ DOMAIN t = 1..Len(t) /\ DOMAIN u = DOMAIN t
      /\ \A i \in DOMAIN u : u[i].provider = t[i].provider
  <2>1. Len(t) \in Nat \ {0} /\ DOMAIN t = 1..Len(t) /\ DOMAIN u = DOMAIN t
    BY ONLY <1>1, <1>3
  <2>2. ASSUME NEW i \in DOMAIN u PROVE u[i].provider = t[i].provider
    <3>1. i = Len(t) \/ i \in 1..(Len(t) - 1)
      BY ONLY <2>1, <2>2
    <3> QED
      BY ONLY <1>3, <3>1
  <2> QED
    BY ONLY <2>1, <2>2
<1>7. Slot(r)'
  <2>1. u # <<>>
    BY ONLY <1>3, <1>6
  <2> QED
    BY ONLY <1>3, <1>4, <1>5, <2>1, lease'[r] = lease[r], waiting'[r] = NoWait,
       pc[r] \in {"opening", "streaming"} DEF Slot, u
<1>8. Tried(r)'
  BY ONLY <1>4, <1>5, <1>6, ~use_explicit'[r] \/ next # "select" DEF Tried, u
<1>9. Scoped(r)'
  BY ONLY <1>4, <1>5, <1>6 DEF Scoped, u
<1>10. Explained(r)'
  <2>1. \A i \in 1..(Len(u) - 1) : u[i].outcome \in {"retryable", "overloaded"}
    BY ONLY <1>3, <1>5 DEF Explained
  <2>2. ASSUME NEW i \in DOMAIN u, u[i].outcome = "overloaded" PROVE saw_overload'[r]
    <3>1. i = Len(t) \/ i \in 1..(Len(t) - 1)
      BY ONLY <1>6, <2>2
    <3>2. i = Len(t) => o = "overloaded"
      BY ONLY <1>3, <2>2
    <3>3. i \in 1..(Len(t) - 1) => saw_overload[r]
      BY ONLY <1>3, <1>5, <1>6, <2>2 DEF Explained
    <3> QED
      BY ONLY <3>1, <3>2, <3>3, saw_overload[r] \/ o = "overloaded" => saw_overload'[r]
  <2>3. \/ next = "select" /\ o \in {"retryable", "overloaded"}
        \/ next = o /\ o \in {"ok", "broken", "invalid_request", "cancelled"}
    OBVIOUS
  <2> QED
    BY ONLY <1>3, <1>4, <2>1, <2>2, <2>3 DEF Explained, u
<1> QED
  BY <1>7, <1>8, <1>9, <1>10 DEF HandlerInv

\* An answer without an attempt: the list was empty or unusable, the wait was too
\* long, or the client went away.
LEMMA RespondInv ==
  ASSUME ChatInv, NEW r \in Callers, pc[r] \in {"select", "admission"},
         lease'[r] = NoLease, waiting'[r] = NoWait,
         NEW response \in {"unavailable", "overloaded", "cancelled"}, Respond(r, response),
         response = "unavailable" => ~saw_overload[r]
  PROVE  HandlerInv(r)'
<1>1. /\ pc'[r] = "done" /\ after'[r] = response
      /\ request'[r] = request[r] /\ attempted'[r] = attempted[r]
      /\ use_explicit'[r] = use_explicit[r] /\ saw_overload'[r] = saw_overload[r]
      /\ trail'[r] = trail[r]
  BY DEF ChatInv, ChatTypeOK, Respond
<1>2. Tried(r) /\ Scoped(r) /\ Explained(r)
  BY DEF ChatInv, HandlerInv
<1>3. Slot(r)'
  BY <1>1 DEF Slot
<1>4. Tried(r)'
  BY <1>1, <1>2 DEF Tried
<1>5. Scoped(r)'
  BY <1>1, <1>2 DEF Scoped
<1>6. Explained(r)'
  BY <1>1, <1>2 DEF Explained
<1> QED
  BY <1>3, <1>4, <1>5, <1>6 DEF HandlerInv

\* No provider: the answer, or the explicit request falls back.
LEMMA NoProviderInv ==
  ASSUME ChatInv, NEW r \in Callers, pc[r] \in {"select", "admission"},
         lease'[r] = NoLease, waiting'[r] = NoWait, NoProvider(r)
  PROVE  HandlerInv(r)'
<1>1. ASSUME NEW response \in {"overloaded", "unavailable"}, Respond(r, response),
             response = "unavailable" => ~saw_overload[r]
      PROVE  HandlerInv(r)'
  BY <1>1, RespondInv
<1>2. ASSUME use_explicit[r],
             attempted' = [attempted EXCEPT ![r] = @ \union {Codex}],
             use_explicit' = [use_explicit EXCEPT ![r] = FALSE],
             pc' = [pc EXCEPT ![r] = "select"],
             UNCHANGED <<request, saw_overload, after, trail>>
      PROVE  HandlerInv(r)'
  <2>1. /\ pc'[r] = "select" /\ ~use_explicit'[r] /\ trail'[r] = trail[r]
        /\ request'[r] = request[r] /\ saw_overload'[r] = saw_overload[r]
    BY <1>2 DEF ChatInv, ChatTypeOK
  <2>2. trail[r] = <<>>
    BY <1>2 DEF ChatInv, HandlerInv, Tried
  <2>3. DOMAIN trail[r] = {} /\ Len(trail[r]) = 0
    BY <2>2
  <2> QED
    BY <2>1, <2>3 DEF HandlerInv, Slot, Tried, Scoped, Explained
<1> QED
  BY <1>1, <1>2, NoProviderCases

\* The caller is blocked, or blocked again.
LEMMA BlockedInv ==
  ASSUME ChatInv, NEW r \in Callers, pc[r] \in {"select", "admission"},
         lease'[r] = NoLease, waiting'[r] # NoWait,
         \A i \in DOMAIN waiting'[r].specs : MayTry(r, waiting'[r].specs[i]),
         pc'[r] = "admission",
         UNCHANGED <<request, attempted, use_explicit, saw_overload, after, trail>>
  PROVE  HandlerInv(r)'
<1>1. Tried(r) /\ Scoped(r) /\ Explained(r)
  BY DEF ChatInv, HandlerInv
<1>2. Slot(r)'
  BY DEF Slot
<1>3. Tried(r)'
  BY <1>1 DEF Tried, MayTry
<1>4. Scoped(r)' /\ Explained(r)'
  BY <1>1 DEF Scoped, Explained
<1> QED
  BY <1>2, <1>3, <1>4 DEF HandlerInv
-----------------------------------------------------------------------------
(* Each action keeps the types and the handler's own part.                 *)

\* What is true of every handler to begin with
LEMMA HandlerFacts ==
  ASSUME ChatInv, NEW r \in Callers
  PROVE  /\ PoolTypeOK /\ ChatTypeOK
         /\ pc[r] \in {"select", "admission"} => lease[r] = NoLease
         /\ pc[r] = "select" => waiting[r] = NoWait
         /\ pc[r] = "admission" =>
              /\ waiting[r] # NoWait /\ waiting[r].specs \in SpecLists
              /\ \A i \in DOMAIN waiting[r].specs : MayTry(r, waiting[r].specs[i])
         /\ pc[r] \in {"opening", "streaming", "closing"} =>
              lease[r] # NoLease /\ waiting[r] = NoWait /\ trail[r] # <<>>
  BY AwakeWaits DEF ChatInv, HandlerInv, Slot, Tried

\* A grant from a list whose providers may be tried
LEMMA GrantInv ==
  ASSUME ChatInv, NEW r \in Callers, pc[r] \in {"select", "admission"},
         NEW specs \in SpecLists, \A i \in DOMAIN specs : MayTry(r, specs[i]),
         Grant(r, specs), Leased(r)
  PROVE  ChatTypeOK' /\ HandlerInv(r)'
<1>1. PoolTypeOK /\ ChatTypeOK
  BY DEF ChatInv
<1>2. /\ \E i \in DOMAIN specs : lease'[r].provider = specs[i]
      /\ lease'[r].provider \in Providers /\ lease'[r] # NoLease /\ waiting'[r] = NoWait
  BY <1>1, GrantGives
<1>3. MayTry(r, lease'[r].provider)
  BY <1>2
<1> QED
  BY <1>1, <1>2, <1>3, LeasedType, LeasedInv

\* A block on a list whose providers may be tried
LEMMA BlockInv ==
  ASSUME ChatInv, NEW r \in Callers, pc[r] \in {"select", "admission"},
         NEW specs \in SpecLists, \A i \in DOMAIN specs : MayTry(r, specs[i]),
         NEW remaining \in 0..AdmissionTimeout, Block(r, specs, remaining),
         pc'[r] = "admission",
         UNCHANGED <<request, attempted, use_explicit, saw_overload, after, trail>>
  PROVE  HandlerInv(r)'
<1>1. PICK t \in 1..remaining :
         waiting' = [waiting EXCEPT ![r] = [specs |-> specs, left |-> remaining,
                                            timer |-> t, notified |-> FALSE]]
  BY DEF Block
<1>2. waiting'[r] = [specs |-> specs, left |-> remaining, timer |-> t, notified |-> FALSE]
  BY <1>1 DEF ChatInv, PoolTypeOK
<1>3. waiting'[r] \in Wait /\ waiting'[r].specs = specs
  <2>1. t \in 0..AdmissionTimeout
    BY PoolAssumption
  <2> QED
    BY <1>2, <2>1 DEF Wait
<1>4. waiting'[r] # NoWait
  BY <1>3, PoolAssumption
<1>5. lease'[r] = NoLease
  BY HandlerFacts DEF Block
<1> QED
  BY <1>3, <1>4, <1>5, BlockedInv

\* A request without a provider keeps types and invariant.
LEMMA NoProviderKeeps ==
  ASSUME ChatInv, NEW r \in Callers, pc[r] \in {"select", "admission"},
         lease'[r] = lease[r], waiting'[r] = NoWait, NoProvider(r)
  PROVE  ChatTypeOK' /\ HandlerInv(r)'
  BY HandlerFacts, NoProviderType, NoProviderInv

\* So does every way Select goes,
LEMMA SelectInv ==
  ASSUME ChatInv, NEW r \in Callers, Select(r)
  PROVE  ChatTypeOK' /\ HandlerInv(r)'
<1>1. pc[r] = "select" /\ waiting[r] = NoWait /\ PoolTypeOK /\ ChatTypeOK
  BY HandlerFacts DEF Select
<1>2. CASE NoProvider(r) /\ UNCHANGED poolVars
  BY <1>1, <1>2, NoProviderKeeps DEF poolVars
<1>3. ASSUME NEW specs \in SpecLists, NoProvider(r), AcquireNoHealthy(r, specs)
      PROVE  ChatTypeOK' /\ HandlerInv(r)'
  <2>1. lease'[r] = lease[r] /\ waiting'[r] = NoWait
    BY <1>1, <1>3 DEF AcquireNoHealthy, RaiseNoHealthy, PoolTypeOK
  <2> QED
    BY <1>1, <1>3, <2>1, NoProviderKeeps
<1>4. ASSUME NEW specs \in SpecLists, Candidates(r, specs),
             AcquireGrant(r, specs), Leased(r)
      PROVE  ChatTypeOK' /\ HandlerInv(r)'
  <2>1. \A i \in DOMAIN specs : MayTry(r, specs[i])
    BY <1>1, <1>4, CandidatesMayBeTried
  <2> QED
    BY <1>1, <1>4, <2>1, GrantInv DEF AcquireGrant
<1>5. ASSUME NEW specs \in SpecLists, Candidates(r, specs), AcquireBlock(r, specs),
             pc' = [pc EXCEPT ![r] = "admission"],
             UNCHANGED <<request, attempted, use_explicit, saw_overload, after, trail>>
      PROVE  ChatTypeOK' /\ HandlerInv(r)'
  <2>1. \A i \in DOMAIN specs : MayTry(r, specs[i])
    BY <1>1, <1>5, CandidatesMayBeTried
  <2>2. ChatTypeOK' /\ pc'[r] = "admission"
    BY <1>1, <1>5 DEF ChatTypeOK
  <2>3. AdmissionTimeout \in 0..AdmissionTimeout
    BY PoolAssumption
  <2> QED
    BY <1>1, <1>5, <2>1, <2>2, <2>3, BlockInv DEF AcquireBlock
<1> QED
  BY <1>2, <1>3, <1>4, <1>5, SelectCases

\* every way a wait ends,
LEMMA AdmissionInv ==
  ASSUME ChatInv, NEW r \in Callers, Admission(r) \/ WaitCancelled(r)
  PROVE  ChatTypeOK' /\ HandlerInv(r)'
<1>1. /\ pc[r] = "admission" /\ lease[r] = NoLease /\ PoolTypeOK /\ ChatTypeOK
      /\ waiting[r] # NoWait /\ waiting[r].specs \in SpecLists
      /\ waiting[r].left \in 0..AdmissionTimeout
      /\ \A i \in DOMAIN waiting[r].specs : MayTry(r, waiting[r].specs[i])
  BY HandlerFacts, AwakeWaits DEF Admission, WaitCancelled
<1>2. CASE RecheckGrant(r) /\ Leased(r)
  BY <1>1, <1>2, GrantInv DEF RecheckGrant
<1>3. CASE RecheckNoHealthy(r) /\ NoProvider(r)
  <2>1. lease'[r] = lease[r] /\ waiting'[r] = NoWait
    BY <1>1, <1>3 DEF RecheckNoHealthy, RaiseNoHealthy, PoolTypeOK
  <2> QED
    BY <1>1, <1>3, <2>1, NoProviderKeeps
<1>4. CASE RecheckBlock(r) /\ UNCHANGED handlerVars
  <2>1. /\ ChatTypeOK' /\ pc'[r] = "admission"
        /\ UNCHANGED <<request, attempted, use_explicit, saw_overload, after, trail>>
    BY <1>1, <1>4 DEF handlerVars, ChatTypeOK
  <2> QED
    BY <1>1, <1>4, <2>1, BlockInv DEF RecheckBlock
<1>5. ASSUME NEW response \in {"overloaded", "cancelled"}, Respond(r, response),
             AdmissionExpires(r) \/ AdmissionCancelled(r)
      PROVE  ChatTypeOK' /\ HandlerInv(r)'
  <2>1. lease'[r] = NoLease /\ waiting'[r] = NoWait
    BY <1>1, <1>5 DEF AdmissionExpires, AdmissionCancelled, PoolTypeOK
  <2>2. response \in Responses
    BY DEF Responses
  <2> QED
    BY <1>1, <1>5, <2>1, <2>2, RespondType, RespondInv
<1> QED
  BY <1>2, <1>3, <1>4, <1>5 DEF Admission, WaitCancelled
\* The outcomes of an attempt
LEMMA EndsInv ==
  ASSUME ChatInv, NEW r \in Callers,
         pc[r] \in {"opening", "streaming"}, NEW o \in Outcomes, NEW next, Finish(r, o, next),
         RecordFailure(r) \/ RecordSuccess(r) \/ UNCHANGED poolVars,
         \/ UNCHANGED saw_overload /\ o # "overloaded"
         \/ saw_overload' = [saw_overload EXCEPT ![r] = TRUE],
         \/ /\ next = "select" /\ o \in {"retryable", "overloaded"}
            /\ use_explicit' = [use_explicit EXCEPT ![r] = FALSE]
         \/ /\ next = o /\ o \in {"ok", "broken", "invalid_request", "cancelled"}
            /\ UNCHANGED use_explicit
  PROVE  ChatTypeOK' /\ HandlerInv(r)'
<1>1. /\ PoolTypeOK /\ ChatTypeOK /\ waiting[r] = NoWait /\ trail[r] # <<>>
  BY HandlerFacts
<1>2. lease'[r] = lease[r] /\ waiting'[r] = NoWait
  BY <1>1 DEF RecordFailure, RecordSuccess, Notified, poolVars
<1>3. next \in Responses \union {"select"}
  BY DEF Responses
<1>4. /\ use_explicit' \in [Callers -> BOOLEAN] /\ saw_overload' \in [Callers -> BOOLEAN]
      /\ next = "select" => ~use_explicit'[r]
      /\ saw_overload[r] \/ o = "overloaded" => saw_overload'[r]
  BY ONLY <1>1, r \in Callers,
     \/ UNCHANGED saw_overload /\ o # "overloaded"
     \/ saw_overload' = [saw_overload EXCEPT ![r] = TRUE],
     \/ /\ next = "select" /\ o \in {"retryable", "overloaded"}
        /\ use_explicit' = [use_explicit EXCEPT ![r] = FALSE]
     \/ /\ next = o /\ o \in {"ok", "broken", "invalid_request", "cancelled"}
        /\ UNCHANGED use_explicit
     DEF ChatTypeOK
<1>5. ChatTypeOK'
  BY <1>1, <1>3, <1>4, FinishType, Zenon
<1>6. HandlerInv(r)'
  BY <1>2, <1>4, FinishInv, Zenon
<1> QED
  BY <1>5, <1>6

\* every outcome of an attempt and of a stream,
LEMMA OpenEndsInv ==
  ASSUME ChatInv, NEW r \in Callers,
         OpenEnds(r) \/ StreamEnds(r) \/ StreamBreaks(r) \/ StreamCancelled(r)
  PROVE  ChatTypeOK' /\ HandlerInv(r)'
<1>1. {"retryable", "overloaded", "ok", "broken", "invalid_request", "cancelled"} \subseteq Outcomes
  BY DEF Outcomes
<1>2. CASE OpenRetryable(r)
  BY ONLY <1>1, <1>2, ChatInv, r \in Callers, EndsInv DEF OpenRetryable
<1>3. CASE OpenOverloaded(r)
  BY ONLY <1>1, <1>3, ChatInv, r \in Callers, EndsInv DEF OpenOverloaded
<1>4. CASE OpenRejected(r)
  BY ONLY <1>1, <1>4, ChatInv, r \in Callers, EndsInv DEF OpenRejected
<1>5. CASE OpenPayload(r)
  BY ONLY <1>1, <1>5, ChatInv, r \in Callers, EndsInv DEF OpenPayload
<1>6. CASE StreamEnds(r) \/ StreamBreaks(r) \/ StreamCancelled(r)
  BY ONLY <1>1, <1>6, ChatInv, r \in Callers, EndsInv
     DEF StreamEnds, StreamBreaks, StreamCancelled
<1>7. CASE OpenStream(r)
  <2>1. /\ pc[r] = "opening" /\ pc' = [pc EXCEPT ![r] = "streaming"]
        /\ UNCHANGED <<poolVars, request, attempted, use_explicit, saw_overload, after, trail>>
    BY <1>7 DEF OpenStream
  <2>2. ChatTypeOK' /\ pc'[r] = "streaming"
    BY <2>1, HandlerFacts DEF ChatTypeOK
  <2>3. UNCHANGED <<lease, waiting>>
    BY <2>1 DEF poolVars
  <2>4. HandlerInv(r)
    BY DEF ChatInv
  <2>5. Slot(r)' /\ Tried(r)'
    BY <2>1, <2>2, <2>3, <2>4 DEF HandlerInv, Slot, Tried
  <2>6. Scoped(r)' /\ Explained(r)'
    BY <2>1, <2>2, <2>4 DEF HandlerInv, Scoped, Explained
  <2> QED
    BY <2>2, <2>5, <2>6 DEF HandlerInv
<1> QED
  BY <1>2, <1>3, <1>4, <1>5, <1>6, <1>7 DEF OpenEnds

\* the return of the slot,
LEMMA CloseInv ==
  ASSUME ChatInv, NEW r \in Callers, Close(r)
  PROVE  ChatTypeOK' /\ HandlerInv(r)'
<1>1. /\ pc[r] = "closing" /\ PoolTypeOK /\ ChatTypeOK /\ waiting[r] = NoWait
      /\ HandlerInv(r)
  BY HandlerFacts DEF Close, ChatInv
<1>2. /\ pc' = [pc EXCEPT ![r] = IF after[r] = "select" THEN "select" ELSE "done"]
      /\ UNCHANGED <<request, attempted, use_explicit, saw_overload, after, trail>>
  BY DEF Close
<1>3. lease'[r] = NoLease /\ waiting'[r] = NoWait
  BY <1>1 DEF Close, Release, Notified, PoolTypeOK
<1>4. ChatTypeOK' /\ pc'[r] = IF after[r] = "select" THEN "select" ELSE "done"
  BY <1>1, <1>2 DEF ChatTypeOK
<1>5. trail[r] \in Seq(Entry) /\ trail[r] # <<>> /\ Explained(r)
  BY <1>1 DEF ChatTypeOK, Entry, HandlerInv, Slot
<1>6. \A i \in DOMAIN trail[r] : i = Len(trail[r]) \/ i \in 1..(Len(trail[r]) - 1)
  BY <1>5
<1>7. Slot(r)'
  BY <1>3, <1>4 DEF Slot
<1>8. Tried(r)'
  BY <1>1, <1>2, <1>4 DEF HandlerInv, Tried
<1>9. Scoped(r)'
  BY <1>1, <1>2 DEF HandlerInv, Scoped
<1>10. Explained(r)'
  BY <1>1, <1>2, <1>4, <1>5, <1>6 DEF Explained
<1> QED
  BY <1>4, <1>7, <1>8, <1>9, <1>10 DEF HandlerInv

\* and the arrival of a request.
LEMMA ArriveInv ==
  ASSUME ChatInv, NEW r \in Callers, Arrive(r)
  PROVE  ChatTypeOK' /\ HandlerInv(r)'
<1>1. PICK q \in Requests : /\ request' = [request EXCEPT ![r] = q]
                            /\ use_explicit' = [use_explicit EXCEPT ![r] = q.explicit]
  BY DEF Arrive
<1>2. q.explicit \in BOOLEAN
  BY ChatAssumption
<1>3. /\ pc[r] \in {"idle", "done"}
      /\ pc' = [pc EXCEPT ![r] = "select"]
      /\ attempted' = [attempted EXCEPT ![r] = {}]
      /\ saw_overload' = [saw_overload EXCEPT ![r] = FALSE]
      /\ after' = [after EXCEPT ![r] = "select"]
      /\ trail' = [trail EXCEPT ![r] = <<>>]
      /\ UNCHANGED <<lease, waiting>>
  BY DEF Arrive, poolVars
<1>4. ChatTypeOK
  BY DEF ChatInv
<1>5. trail' \in [Callers -> Seq(Entry)]
  <2>1. trail \in [Callers -> Seq(Entry)]
    BY ONLY <1>4 DEF ChatTypeOK, Entry
  <2>2. <<>> \in Seq(Entry)
    OBVIOUS
  <2> QED
    BY ONLY <1>3, <2>1, <2>2
<1>6. ChatTypeOK'
  BY <1>1, <1>2, <1>3, <1>4, <1>5 DEF ChatTypeOK, Entry
<1>7. /\ pc'[r] = "select" /\ attempted'[r] = {} /\ trail'[r] = <<>>
      /\ request'[r] = q /\ use_explicit'[r] = q.explicit
  BY <1>1, <1>3, <1>4 DEF ChatTypeOK
<1>8. DOMAIN trail'[r] = {} /\ Len(trail'[r]) = 0
  BY <1>7
<1>9. Slot(r)'
  BY <1>3, <1>7 DEF ChatInv, HandlerInv, Slot
<1> QED
  BY <1>6, <1>7, <1>8, <1>9 DEF HandlerInv, Tried, Scoped, Explained
-----------------------------------------------------------------------------
(* The invariant.                                                          *)

\* A handler's step leaves the other handlers where they are.
LEMMA OthersStay ==
  ASSUME ChatTypeOK, NEW r \in Callers, NEW d \in Callers \ {r},
         \/ Arrive(r) \/ Select(r) \/ Admission(r) \/ WaitCancelled(r) \/ OpenEnds(r)
         \/ StreamEnds(r) \/ StreamBreaks(r) \/ StreamCancelled(r) \/ Close(r)
  PROVE  HandlerKeeps(d)
<1>1. ASSUME NoProvider(r) PROVE HandlerKeeps(d)
  BY <1>1 DEF NoProvider, Respond, HandlerKeeps, ChatTypeOK
<1>2. ASSUME Leased(r) PROVE HandlerKeeps(d)
  BY <1>2 DEF Leased, HandlerKeeps, ChatTypeOK
<1>3. ASSUME NEW response, Respond(r, response) PROVE HandlerKeeps(d)
  BY <1>3 DEF Respond, HandlerKeeps, ChatTypeOK
<1>4. ASSUME NEW o, NEW next, Finish(r, o, next),
             \/ UNCHANGED use_explicit
             \/ use_explicit' = [use_explicit EXCEPT ![r] = FALSE],
             \/ UNCHANGED saw_overload
             \/ saw_overload' = [saw_overload EXCEPT ![r] = TRUE]
      PROVE  HandlerKeeps(d)
  <2>1. trail'[d] = trail[d]
    BY <1>4, Zenon DEF Finish, ChatTypeOK
  <2>2. /\ pc' = [pc EXCEPT ![r] = "closing"] /\ after' = [after EXCEPT ![r] = next]
        /\ UNCHANGED <<request, attempted>>
    BY <1>4 DEF Finish
  <2> QED
    BY ONLY <1>4, <2>1, <2>2, ChatTypeOK, d \in Callers \ {r} DEF HandlerKeeps, ChatTypeOK
<1>5. CASE Arrive(r)
  BY <1>5 DEF Arrive, HandlerKeeps, ChatTypeOK
<1>6. CASE Select(r)
  BY <1>1, <1>2, <1>6, SelectCases DEF HandlerKeeps, ChatTypeOK
<1>7. CASE Admission(r) \/ WaitCancelled(r)
  BY <1>1, <1>2, <1>3, <1>7 DEF Admission, WaitCancelled, handlerVars, HandlerKeeps
<1>8. CASE OpenEnds(r) \/ StreamEnds(r) \/ StreamBreaks(r) \/ StreamCancelled(r)
  <2>1. CASE OpenStream(r)
    BY <2>1 DEF OpenStream, HandlerKeeps, ChatTypeOK
  <2>2. CASE OpenRetryable(r) \/ OpenOverloaded(r)
    BY ONLY <1>4, <2>2 DEF OpenRetryable, OpenOverloaded
  <2>3. CASE OpenRejected(r) \/ OpenPayload(r)
    BY ONLY <1>4, <2>3 DEF OpenRejected, OpenPayload
  <2>4. CASE StreamEnds(r) \/ StreamBreaks(r) \/ StreamCancelled(r)
    BY ONLY <1>4, <2>4 DEF StreamEnds, StreamBreaks, StreamCancelled
  <2> QED
    BY <1>8, <2>1, <2>2, <2>3, <2>4 DEF OpenEnds
<1>9. CASE Close(r)
  BY <1>9 DEF Close, HandlerKeeps, ChatTypeOK
<1> QED
  BY <1>5, <1>6, <1>7, <1>8, <1>9

\* The invariant holds at first,
LEMMA InitChat == ChatInit => ChatInv
<1> SUFFICES ASSUME ChatInit PROVE ChatInv
  OBVIOUS
<1>1. PoolInit
  BY DEF ChatInit
<1>2. PoolTypeOK
  BY <1>1, InitCapacity DEF CapacityInv
<1>3. trail \in [Callers -> Seq(Entry)]
  <2>1. <<>> \in Seq(Entry)
    OBVIOUS
  <2> QED
    BY <2>1 DEF ChatInit
<1>4. ChatTypeOK
  BY <1>3 DEF ChatInit, ChatTypeOK, Entry
<1>5. ASSUME NEW r \in Callers PROVE HandlerInv(r)
  <2>1. /\ pc[r] = "idle" /\ trail[r] = <<>>
        /\ lease[r] = NoLease /\ waiting[r] = NoWait
    BY <1>1 DEF ChatInit, PoolInit
  <2>2. DOMAIN trail[r] = {} /\ Len(trail[r]) = 0
    BY <2>1
  <2> QED
    BY <2>1, <2>2 DEF HandlerInv, Slot, Tried, Scoped, Explained
<1> QED
  BY <1>2, <1>4, <1>5 DEF ChatInv

\* and every step keeps it.
LEMMA StepChat == ChatInv /\ [ChatNext]_chatVars => ChatInv'
<1> SUFFICES ASSUME ChatInv, [ChatNext]_chatVars PROVE ChatInv'
  OBVIOUS
<1>1. PoolTypeOK'
  BY ChatStepsPool, StepType DEF ChatInv
<1> SUFFICES ChatTypeOK' /\ \A d \in Callers : HandlerInv(d)'
  BY <1>1 DEF ChatInv
<1>2. ASSUME NEW r \in Callers,
             \/ Arrive(r) \/ Select(r) \/ Admission(r) \/ WaitCancelled(r) \/ OpenEnds(r)
             \/ StreamEnds(r) \/ StreamBreaks(r) \/ StreamCancelled(r) \/ Close(r)
      PROVE  ChatTypeOK' /\ \A d \in Callers : HandlerInv(d)'
  <2>1. ChatTypeOK' /\ HandlerInv(r)'
    BY <1>2, ArriveInv, SelectInv, AdmissionInv, OpenEndsInv, CloseInv
  <2>2. CallerStep(r) \/ UNCHANGED poolVars
    <3>1. CASE Select(r)
      BY <3>1, SelectPool
    <3>2. CASE Admission(r) \/ WaitCancelled(r) \/ Close(r)
      BY <3>2 DEF Admission, WaitCancelled, Close, CallerStep
    <3>3. CASE Arrive(r) \/ OpenEnds(r) \/ StreamEnds(r) \/ StreamBreaks(r)
                 \/ StreamCancelled(r)
      BY <3>3 DEF Arrive, OpenEnds, OpenRetryable, OpenOverloaded, OpenRejected, OpenPayload,
         OpenStream, StreamEnds, StreamBreaks, StreamCancelled, CallerStep
    <3> QED
      BY <1>2, <3>1, <3>2, <3>3
  <2>3. ASSUME NEW d \in Callers \ {r} PROVE HandlerInv(d)'
    BY <1>2, <2>2, OthersStay, CallerKeeps, KeptInv DEF ChatInv
  <2> QED
    BY <2>1, <2>3
<1>3. CASE ChatProbe \/ ChatTick
  <2>1. UNCHANGED handlerVars
    BY <1>3 DEF ChatProbe, ChatTick
  <2>2. ChatTypeOK'
    BY <2>1 DEF handlerVars, ChatInv, ChatTypeOK
  <2>3. ASSUME NEW d \in Callers PROVE HandlerInv(d)'
    <3>1. PoolKeeps(d)
      BY <1>3, ProbeKeeps, TickKeeps DEF ChatProbe, ChatTick, ChatInv
    <3>2. HandlerKeeps(d)
      BY <2>1 DEF handlerVars, HandlerKeeps
    <3> QED
      BY <3>1, <3>2, KeptInv DEF ChatInv
  <2> QED
    BY <2>2, <2>3
<1>4. CASE UNCHANGED chatVars
  <2>1. UNCHANGED handlerVars /\ UNCHANGED <<lease, waiting>>
    BY <1>4 DEF chatVars, poolVars
  <2>2. ChatTypeOK'
    BY <2>1 DEF handlerVars, ChatInv, ChatTypeOK
  <2>3. ASSUME NEW d \in Callers PROVE HandlerInv(d)'
    <3>1. PoolKeeps(d) /\ HandlerKeeps(d)
      BY <2>1 DEF handlerVars, PoolKeeps, HandlerKeeps
    <3> QED
      BY <3>1, KeptInv DEF ChatInv
  <2> QED
    BY <2>2, <2>3
<1> QED
  BY <1>2, <1>3, <1>4 DEF ChatNext

\* It therefore always holds.
LEMMA ChatInvariant == ChatSpec => []ChatInv
  BY InitChat, StepChat, PTL DEF ChatSpec

\* Every state of the route is well typed: in particular a handler asks for and
\* tries only providers of the policy (_handle_local).
THEOREM ChatTypeCorrect == ChatSpec => []ChatTypeOK
<1>1. ChatInv => ChatTypeOK
  BY DEF ChatInv
<1> QED
  BY <1>1, ChatInvariant, PTL

\* A request asks no provider twice, whichever way it fell back (attempted in
\* _handle_local).
THEOREM NoProviderTwice == ChatSpec => []NoSecondTry
<1>1. ChatInv => NoSecondTry
  BY DEF ChatInv, HandlerInv, Tried, NoSecondTry
<1> QED
  BY <1>1, ChatInvariant, PTL

\* A prompt goes to a remote provider only for a request that allows it, or as the
\* first try of one that names codex (_eligible_specs, route_profile).
THEOREM ScopeKept == ChatSpec => []ScopeRespected
<1>1. ChatInv => ScopeRespected
  BY DEF ChatInv, HandlerInv, Scoped, ScopeRespected
<1> QED
  BY <1>1, ChatInvariant, PTL

\* A handler that has answered, or is between two attempts, holds no slot and waits
\* for none (_handle_local, generate).
THEOREM SlotsReturned == ChatSpec => []NoSlotLeft
<1>1. ChatInv => NoSlotLeft
  BY DEF ChatInv, HandlerInv, Slot, NoSlotLeft, Idle
<1> QED
  BY <1>1, ChatInvariant, PTL

\* The answer says what happened (saw_overload and the answers of _handle_local).
THEOREM AnswersExplained == ChatSpec => []AnswerExplained
<1>1. ASSUME ChatInv, NEW r \in Callers, pc[r] = "done"
      PROVE  LET seen == {trail[r][i].outcome : i \in DOMAIN trail[r]} IN
             /\ after[r] = "unavailable" => "overloaded" \notin seen
             /\ after[r] \in {"unavailable", "overloaded"} => seen \subseteq {"retryable", "overloaded"}
             /\ after[r] \in {"ok", "broken", "invalid_request"} => Last(trail[r]).outcome = after[r]
             /\ after[r] = "cancelled" => seen \subseteq {"retryable", "overloaded", "cancelled"}
             /\ \A i \in 1..(Len(trail[r]) - 1) : trail[r][i].outcome \in {"retryable", "overloaded"}
  BY <1>1 DEF ChatInv, HandlerInv, Explained, Last
<1>2. ChatInv => AnswerExplained
  BY <1>1 DEF AnswerExplained
<1> QED
  BY <1>2, ChatInvariant, PTL
-----------------------------------------------------------------------------
(* Which steps count against a provider.                                   *)

Raised(p) == request_failures'[p] > request_failures[p] \/ cooldown'[p] > cooldown[p]

\* What leaves the breaker alone counts against nobody.
LEMMA SameBreaker ==
  ASSUME PoolTypeOK, NEW p \in Providers, UNCHANGED breaker
  PROVE  ~Raised(p)
<1>1. request_failures[p] \in Nat /\ cooldown[p] \in Nat
  BY PoolAssumption DEF PoolTypeOK
<1> QED
  BY <1>1 DEF breaker, Raised

\* A success lowers the counters.
LEMMA SuccessRaisesNot ==
  ASSUME PoolTypeOK, NEW c \in Callers, RecordSuccess(c), NEW p \in Providers
  PROVE  ~Raised(p)
<1>1. request_failures[p] \in Nat /\ cooldown[p] \in Nat
  BY PoolAssumption DEF PoolTypeOK
<1>2. /\ request_failures'[p] = request_failures[p] \/ request_failures'[p] = 0
      /\ cooldown'[p] = cooldown[p] \/ cooldown'[p] = 0
  BY DEF RecordSuccess, PoolTypeOK
<1> QED
  BY <1>1, <1>2 DEF Raised

\* A failure counts against its own provider only.
LEMMA FailureRaisesOne ==
  ASSUME PoolTypeOK, NEW c \in Callers, RecordFailure(c), NEW p \in Providers, Raised(p)
  PROVE  p = lease[c].provider
<1>1. request_failures[p] \in Nat /\ cooldown[p] \in Nat
  BY PoolAssumption DEF PoolTypeOK
<1>2. p # lease[c].provider =>
        request_failures'[p] = request_failures[p] /\ cooldown'[p] = cooldown[p]
  BY DEF RecordFailure, PoolTypeOK
<1> QED
  BY <1>1, <1>2 DEF Raised

\* Probes and the clock do not.
LEMMA OthersRaiseNot ==
  ASSUME PoolTypeOK, NEW p \in Providers,
         Tick \/ (\E q \in Providers, healthy \in BOOLEAN : Probe(q, healthy)) \/ UNCHANGED poolVars
  PROVE  ~Raised(p)
<1>1. request_failures[p] \in Nat /\ cooldown[p] \in Nat
  BY PoolAssumption DEF PoolTypeOK
<1>2. CASE Tick
  <2>1. request_failures'[p] = request_failures[p] /\ cooldown'[p] = Minus1(cooldown[p])
    BY <1>2 DEF Tick
  <2> QED
    BY <1>1, <2>1 DEF Minus1, Raised
<1>3. CASE UNCHANGED <<request_failures, cooldown>>
  BY <1>1, <1>3 DEF Raised
<1> QED
  BY <1>2, <1>3 DEF Probe, poolVars, breaker

\* The attempt that failed was under way, and its outcome is now known.
Failed(r, p) ==
  /\ trail[r] # <<>> /\ Last(trail[r]).provider = p
  /\ Last(trail[r]).outcome = "pending"
  /\ Last(trail'[r]).outcome \in {"retryable", "broken"}

\* A recorded failure is that of the attempt under way.
LEMMA FailureFollows ==
  ASSUME ChatInv, NEW r \in Callers, OpenRetryable(r) \/ StreamBreaks(r)
  PROVE  Failed(r, lease[r].provider)
<1>1. HandlerInv(r) /\ ChatTypeOK
  BY DEF ChatInv
<1> DEFINE t == trail[r]
           u == trail'[r]
<1>2. PICK o \in {"retryable", "broken"}, next \in {"select", "broken"} : Finish(r, o, next)
  BY DEF OpenRetryable, StreamBreaks
<1>3. pc[r] \in {"opening", "streaming"}
  BY DEF OpenRetryable, StreamBreaks
<1>4. /\ t \in Seq(Entry) /\ t # <<>>
      /\ t[Len(t)].provider = lease[r].provider /\ t[Len(t)].outcome = "pending"
  BY <1>1, <1>3 DEF ChatTypeOK, Entry, HandlerInv, Slot, Explained
<1>5. u = [t EXCEPT ![Len(t)].outcome = o]
  BY <1>1, <1>2, Zenon DEF ChatTypeOK, Finish
<1>6. o \in Outcomes
  BY DEF Outcomes
<1>7. u[Len(u)].outcome = o
  BY ONLY <1>4, <1>5, <1>6, OutcomeSet
<1> HIDE DEF u
<1> QED
  BY ONLY <1>4, <1>7, o \in {"retryable", "broken"} DEF Failed, Last, u

\* A step that counts against a provider is the failure of an attempt on it.
LEMMA RaiseExplained ==
  ASSUME ChatInv, [ChatNext]_chatVars, NEW p \in Providers, Raised(p)
  PROVE  \E r \in Callers : Failed(r, p)
<1>1. PoolTypeOK
  BY DEF ChatInv
<1>2. ~UNCHANGED poolVars
  BY <1>1, OthersRaiseNot
<1>3. ~(ChatProbe \/ ChatTick)
  BY <1>1, OthersRaiseNot DEF ChatProbe, ChatTick
<1>4. PICK r \in Callers :
         \/ Arrive(r) \/ Select(r) \/ Admission(r) \/ WaitCancelled(r) \/ OpenEnds(r)
         \/ StreamEnds(r) \/ StreamBreaks(r) \/ StreamCancelled(r) \/ Close(r)
  BY <1>2, <1>3 DEF ChatNext, chatVars
<1>5. ~UNCHANGED breaker
  BY <1>1, SameBreaker
<1>6. CASE OpenRetryable(r) \/ StreamBreaks(r)
  <2>1. p = lease[r].provider
    BY <1>1, <1>6, FailureRaisesOne DEF OpenRetryable, StreamBreaks
  <2> QED
    BY <1>6, <2>1, FailureFollows
<1>7. CASE Select(r) \/ Admission(r) \/ WaitCancelled(r) \/ Close(r)
  BY <1>2, <1>5, <1>7, SelectCases DEF Admission, WaitCancelled, Close, AcquireGrant,
     AcquireNoHealthy, AcquireBlock, RecheckGrant, RecheckNoHealthy, RecheckBlock, Grant,
     RaiseNoHealthy, Block, AdmissionExpires, AdmissionCancelled, Release
<1>8. CASE Arrive(r) \/ OpenOverloaded(r) \/ OpenRejected(r) \/ OpenStream(r) \/ StreamCancelled(r)
  BY <1>2, <1>8 DEF Arrive, OpenOverloaded, OpenRejected, OpenStream, StreamCancelled
<1>9. CASE OpenPayload(r) \/ StreamEnds(r)
  BY <1>1, <1>9, SuccessRaisesNot DEF OpenPayload, StreamEnds
<1> QED
  BY <1>4, <1>6, <1>7, <1>8, <1>9 DEF OpenEnds

\* Only an attempt that failed counts towards a circuit: a bad request, a 429 and a
\* client that went away do not (_classify_upstream_error, generate).
THEOREM FailuresCounted == ChatSpec => OnlyFailuresCount
<1>1. ChatInv /\ [ChatNext]_chatVars =>
        \A p \in Providers :
          request_failures'[p] > request_failures[p] \/ cooldown'[p] > cooldown[p] =>
            \E r \in Callers :
               /\ trail[r] # <<>> /\ Last(trail[r]).provider = p
               /\ Last(trail[r]).outcome = "pending"
               /\ Last(trail'[r]).outcome \in {"retryable", "broken"}
  BY RaiseExplained DEF Raised, Failed
<1> QED
  BY <1>1, ChatInvariant, PTL DEF ChatSpec, OnlyFailuresCount
=============================================================================
