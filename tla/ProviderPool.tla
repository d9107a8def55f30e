---------------------------- MODULE ProviderPool ----------------------------
(***************************************************************************)
(* The provider pool of the AI gateway: one process owns, for every        *)
(* inference provider, its probed health, its capacity slots and the       *)
(* circuit breaker that request outcomes drive                             *)
(* (infra/ai-gateway/services/provider_pool.py).                           *)
(*                                                                         *)
(* Every method runs its critical section under one asyncio.Condition and  *)
(* never awaits inside it except in Condition.wait(), so a method is one   *)
(* action.  A caller of acquire() that finds every healthy provider full   *)
(* blocks on the condition with a timer; notify_all() and the timer both   *)
(* wake it.                                                                *)
(*                                                                         *)
(* Time is a number of ticks still to run: cooldown[p] is                  *)
(* circuit_open_until - now, cut off at 0; the fields left and timer of a  *)
(* blocked caller are the ticks to its admission deadline and to the       *)
(* expiry of its wait_for().                                               *)
(***************************************************************************)
EXTENDS Naturals, Sequences, FiniteSets

CONSTANTS
    Providers,          \* the enabled providers (spec.enabled)
    Callers,            \* the tasks that ask the pool for a lease
    SpecLists,          \* the candidate lists the callers pass to acquire
    MaxInflight,        \* max_inflight of each provider
    Unprobed,           \* the providers whose health_path is None
    FailureThreshold,   \* settings.failure_threshold
    Cooldown,           \* settings.circuit_cooldown_seconds, in ticks
    AdmissionTimeout,   \* settings.admission_timeout_seconds, in ticks
    NoLease,            \* what a caller without a lease holds
    NoWait              \* what a caller that is not blocked waits for

Lease == [provider : Providers, half_open : BOOLEAN]
Wait == [specs : SpecLists, left : 0..AdmissionTimeout,
         timer : 0..AdmissionTimeout, notified : BOOLEAN]

\* _parse_policy accepts only positive settings and capacities.
ASSUME PoolAssumption ==
    /\ MaxInflight \in [Providers -> Nat \ {0}]
    /\ SpecLists \subseteq Seq(Providers)
    /\ Unprobed \subseteq Providers
    /\ FailureThreshold \in Nat \ {0}
    /\ Cooldown \in Nat \ {0}
    /\ AdmissionTimeout \in Nat \ {0}
    /\ IsFiniteSet(Callers)
    /\ NoLease \notin Lease
    /\ NoWait \notin Wait

VARIABLES
    health,             \* ProviderState.health
    inflight,           \* ProviderState.inflight
    probe_failures,     \* ProviderState.probe_failures, up to the threshold
    request_failures,   \* ProviderState.request_failures, up to the threshold
    circuit_open,       \* circuit_open_until is not 0.0
    cooldown,           \* ticks until circuit_open_until is past
    half_open_probe,    \* ProviderState.half_open_probe
    lease,              \* the lease each caller holds and has not released
    waiting             \* the callers blocked in _condition.wait()

breaker == <<probe_failures, request_failures, circuit_open, cooldown>>
poolVars == <<health, inflight, breaker, half_open_probe, lease, waiting>>

PoolTypeOK ==
    /\ health \in [Providers -> {"unknown", "healthy", "unhealthy"}]
    /\ inflight \in [Providers -> Nat]
    /\ probe_failures \in [Providers -> 0..FailureThreshold]
    /\ request_failures \in [Providers -> 0..FailureThreshold]
    /\ circuit_open \in [Providers -> BOOLEAN]
    /\ cooldown \in [Providers -> 0..Cooldown]
    /\ half_open_probe \in [Providers -> BOOLEAN]
    /\ lease \in [Callers -> Lease \union {NoLease}]
    /\ waiting \in [Callers -> Wait \union {NoWait}]

PoolInit ==
    /\ health = [p \in Providers |-> IF p \in Unprobed THEN "healthy" ELSE "unknown"]
    /\ inflight = [p \in Providers |-> 0]
    /\ probe_failures = [p \in Providers |-> 0]
    /\ request_failures = [p \in Providers |-> 0]
    /\ circuit_open = [p \in Providers |-> FALSE]
    /\ cooldown = [p \in Providers |-> 0]
    /\ half_open_probe = [p \in Providers |-> FALSE]
    /\ lease = [c \in Callers |-> NoLease]
    /\ waiting = [c \in Callers |-> NoWait]

-----------------------------------------------------------------------------
(* Reading the pool.                                                       *)

\* _circuit_available: closed, or open with its cooldown past and no trial
\* request out.
CircuitAvailable(p) ==
    \/ ~circuit_open[p]
    \/ cooldown[p] = 0 /\ ~half_open_probe[p]

\* The candidate counts as "healthy_exists" in the scan of _acquire_from.
Usable(p) == health[p] = "healthy" /\ CircuitAvailable(p)

\* Faulty variant: the scan does not look at the capacity.
FitsBeyondCapacity(p) == Usable(p)

\* The scan takes the candidate.
Fits(p) == Usable(p) /\ inflight[p] < MaxInflight[p]

\* The circuit of p keeps it out, but only for cooldown[p] more ticks.
CoolingDown(p) == health[p] = "healthy" /\ circuit_open[p] /\ cooldown[p] > 0

NoneUsable(specs) == \A i \in DOMAIN specs : ~Usable(specs[i])
AllFull(specs) == /\ ~NoneUsable(specs)
                  /\ \A i \in DOMAIN specs : ~Fits(specs[i])

\* start() gathers the first probe of every probed provider before the
\* application serves a request.
Started == \A p \in Providers \ Unprobed : health[p] # "unknown"

Idle(c) == lease[c] = NoLease /\ waiting[c] = NoWait

\* Faulty variant: no notify_all().
NobodyNotified == waiting

\* _condition.notify_all()
Notified == [c \in Callers |->
               IF waiting[c] = NoWait THEN NoWait
               ELSE [waiting[c] EXCEPT !.notified = TRUE]]

-----------------------------------------------------------------------------
(* acquire: one scan of _acquire_from ends in a lease, in the exception    *)
(* NoHealthyProvider, in a wait, or in AdmissionTimeout.                   *)

\* The first candidate that fits, in list order.
Grant(c, specs) ==
    /\ \E i \in DOMAIN specs :
         /\ Fits(specs[i])
         /\ \A j \in 1..(i - 1) : ~Fits(specs[j])
         /\ inflight' = [inflight EXCEPT ![specs[i]] = @ + 1]
         /\ half_open_probe' = [half_open_probe EXCEPT
                                  ![specs[i]] = @ \/ circuit_open[specs[i]]]
         /\ lease' = [lease EXCEPT ![c] = [provider  |-> specs[i],
                                           half_open |-> circuit_open[specs[i]]]]
    /\ waiting' = [waiting EXCEPT ![c] = NoWait]
    /\ UNCHANGED <<health, breaker>>

\* NoHealthyProvider is raised: the caller is no longer blocked.
RaiseNoHealthy(c, specs) ==
    /\ NoneUsable(specs)
    /\ waiting' = [waiting EXCEPT ![c] = NoWait]
    /\ UNCHANGED <<health, inflight, breaker, half_open_probe, lease>>

\* wait_for(condition.wait(), min([remaining, *circuit_waits]))
Block(c, specs, remaining) ==
    /\ AllFull(specs)
    /\ remaining > 0
    /\ \E t \in 1..remaining :
         /\ \A i \in DOMAIN specs : CoolingDown(specs[i]) => t <= cooldown[specs[i]]
         /\ \/ t = remaining
            \/ \E i \in DOMAIN specs : CoolingDown(specs[i]) /\ t = cooldown[specs[i]]
         /\ waiting' = [waiting EXCEPT
                          ![c] = [specs |-> specs, left |-> remaining,
                                  timer |-> t, notified |-> FALSE]]
    /\ UNCHANGED <<health, inflight, breaker, half_open_probe, lease>>

\* acquire and acquire_explicit, up to the first await.
AcquireGrant(c, specs) == Idle(c) /\ Started /\ Grant(c, specs)
AcquireNoHealthy(c, specs) == Idle(c) /\ Started /\ RaiseNoHealthy(c, specs)
AcquireBlock(c, specs) == Idle(c) /\ Started /\ Block(c, specs, AdmissionTimeout)

\* A blocked caller runs again: it was notified, or its timer expired before
\* its admission deadline.
Awake(c) == /\ waiting[c] # NoWait
            /\ \/ waiting[c].notified
               \/ waiting[c].timer = 0 /\ waiting[c].left > 0

RecheckGrant(c) == Awake(c) /\ Grant(c, waiting[c].specs)
RecheckNoHealthy(c) == Awake(c) /\ RaiseNoHealthy(c, waiting[c].specs)
\* Faulty variant: each wake-up starts a new admission deadline.
RecheckBlockAnew(c) == Awake(c) /\ Block(c, waiting[c].specs, AdmissionTimeout)

RecheckBlock(c) == Awake(c) /\ Block(c, waiting[c].specs, waiting[c].left)

\* AdmissionTimeout: the wait_for() of the whole remaining time expires (even
\* when a notification races it), or a rescan finds no time remaining.
AdmissionExpires(c) ==
    /\ waiting[c] # NoWait
    /\ waiting[c].left = 0
    /\ waiting' = [waiting EXCEPT ![c] = NoWait]
    /\ UNCHANGED <<health, inflight, breaker, half_open_probe, lease>>

\* The task is cancelled while it is blocked.
AdmissionCancelled(c) ==
    /\ waiting[c] # NoWait
    /\ waiting' = [waiting EXCEPT ![c] = NoWait]
    /\ UNCHANGED <<health, inflight, breaker, half_open_probe, lease>>

-----------------------------------------------------------------------------
(* Leases and outcomes.                                                    *)

\* Faulty variant: the trial flag outlives the lease of the trial.
ReleaseLeavesTrial(c) ==
    /\ lease[c] # NoLease
    /\ inflight' = [inflight EXCEPT ![lease[c].provider] = IF @ = 0 THEN 0 ELSE @ - 1]
    /\ lease' = [lease EXCEPT ![c] = NoLease]
    /\ waiting' = Notified
    /\ UNCHANGED <<health, breaker, half_open_probe>>

\* ProviderLease.release: only the first call reaches _release.
Release(c) ==
    /\ lease[c] # NoLease
    /\ inflight' = [inflight EXCEPT ![lease[c].provider] = IF @ = 0 THEN 0 ELSE @ - 1]
    /\ half_open_probe' = [half_open_probe EXCEPT
                             ![lease[c].provider] = @ /\ ~lease[c].half_open]
    /\ lease' = [lease EXCEPT ![c] = NoLease]
    /\ waiting' = Notified
    /\ UNCHANGED <<health, breaker>>

\* Faulty variant: a success closes the circuit and keeps the failure count.
RecordSuccessKeepsCount(c) ==
    /\ lease[c] # NoLease
    /\ LET p == lease[c].provider IN
         /\ circuit_open' = [circuit_open EXCEPT ![p] = FALSE]
         /\ cooldown' = [cooldown EXCEPT ![p] = 0]
         /\ half_open_probe' = [half_open_probe EXCEPT ![p] = FALSE]
    /\ waiting' = Notified
    /\ UNCHANGED <<health, inflight, probe_failures, request_failures, lease>>

\* record_success(lease.spec.name)
RecordSuccess(c) ==
    /\ lease[c] # NoLease
    /\ LET p == lease[c].provider IN
         /\ request_failures' = [request_failures EXCEPT ![p] = 0]
         /\ circuit_open' = [circuit_open EXCEPT ![p] = FALSE]
         /\ cooldown' = [cooldown EXCEPT ![p] = 0]
         /\ half_open_probe' = [half_open_probe EXCEPT ![p] = FALSE]
         /\ health' = [health EXCEPT ![p] = IF p \in Unprobed THEN "healthy" ELSE @]
    /\ waiting' = Notified
    /\ UNCHANGED <<inflight, probe_failures, lease>>

\* Faulty variant: a failure adds a cooldown to what is left of the last one.
RecordFailureExtends(c) ==
    /\ lease[c] # NoLease
    /\ LET p == lease[c].provider
           failures == IF request_failures[p] < FailureThreshold
                       THEN request_failures[p] + 1 ELSE FailureThreshold
           opens == failures >= FailureThreshold
       IN /\ request_failures' = [request_failures EXCEPT ![p] = failures]
          /\ circuit_open' = [circuit_open EXCEPT ![p] = @ \/ opens]
          /\ cooldown' = [cooldown EXCEPT ![p] = IF opens THEN @ + Cooldown ELSE @]
          /\ half_open_probe' = [half_open_probe EXCEPT ![p] = @ /\ ~opens]
    /\ waiting' = Notified
    /\ UNCHANGED <<health, inflight, probe_failures, lease>>

\* record_failure(lease.spec.name)
RecordFailure(c) ==
    /\ lease[c] # NoLease
    /\ LET p == lease[c].provider
           failures == IF request_failures[p] < FailureThreshold
                       THEN request_failures[p] + 1 ELSE FailureThreshold
           opens == failures >= FailureThreshold
       IN /\ request_failures' = [request_failures EXCEPT ![p] = failures]
          /\ circuit_open' = [circuit_open EXCEPT ![p] = @ \/ opens]
          /\ cooldown' = [cooldown EXCEPT ![p] = IF opens THEN Cooldown ELSE @]
          /\ half_open_probe' = [half_open_probe EXCEPT ![p] = @ /\ ~opens]
    /\ waiting' = Notified
    /\ UNCHANGED <<health, inflight, probe_failures, lease>>

\* _probe applies its result; a probe never touches the circuit.
Probe(p, healthy) ==
    /\ p \notin Unprobed
    /\ probe_failures' = [probe_failures EXCEPT
                            ![p] = IF healthy THEN 0
                                   ELSE IF @ < FailureThreshold THEN @ + 1 ELSE @]
    /\ health' = [health EXCEPT
                    ![p] = IF healthy THEN "healthy"
                           ELSE IF @ = "unknown" \/ probe_failures'[p] >= FailureThreshold
                                THEN "unhealthy" ELSE @]
    /\ waiting' = IF health'[p] # health[p] THEN Notified ELSE waiting
    /\ UNCHANGED <<inflight, request_failures, circuit_open, cooldown,
                   half_open_probe, lease>>

\* One tick of the clock, for the circuits and for the blocked callers.
Minus1(n) == IF n = 0 THEN 0 ELSE n - 1
Tick ==
    /\ cooldown' = [p \in Providers |-> Minus1(cooldown[p])]
    /\ waiting' = [c \in Callers |->
                     IF waiting[c] = NoWait THEN NoWait
                     ELSE [waiting[c] EXCEPT !.left = Minus1(@), !.timer = Minus1(@)]]
    /\ UNCHANGED <<health, inflight, probe_failures, request_failures, circuit_open,
                   half_open_probe, lease>>

-----------------------------------------------------------------------------
CallerStep(c) ==
    \/ \E specs \in SpecLists :
         \/ AcquireGrant(c, specs)
         \/ AcquireNoHealthy(c, specs)
         \/ AcquireBlock(c, specs)
    \/ RecheckGrant(c)
    \/ RecheckNoHealthy(c)
    \/ RecheckBlock(c)
    \/ AdmissionExpires(c)
    \/ AdmissionCancelled(c)
    \/ Release(c)
    \/ RecordSuccess(c)
    \/ RecordFailure(c)

PoolNext ==
    \/ \E c \in Callers : CallerStep(c)
    \/ \E p \in Providers, healthy \in BOOLEAN : Probe(p, healthy)
    \/ Tick

PoolSpec == PoolInit /\ [][PoolNext]_poolVars

\* The clock runs, and the event loop runs every task that is woken.
PoolFairness ==
    /\ WF_poolVars(Tick)
    /\ \A c \in Callers :
         WF_poolVars(\/ RecheckGrant(c) \/ RecheckNoHealthy(c) \/ RecheckBlock(c)
                     \/ AdmissionExpires(c))

FairPoolSpec == PoolSpec /\ PoolFairness

-----------------------------------------------------------------------------
(* What the pool promises.                                                 *)

Holders(p) == {c \in Callers : lease[c] # NoLease /\ lease[c].provider = p}

\* The slots in use are exactly the unreleased leases, and never more than the
\* provider's capacity: no slot leaks, is freed twice, or is oversold by
\* callers that wake together (_acquire_from, _release).
CapacityAccounted ==
    \A p \in Providers : /\ inflight[p] = Cardinality(Holders(p))
                         /\ inflight[p] <= MaxInflight[p]

\* While half_open_probe keeps a provider out, the trial request it stands for
\* is still out and the circuit is open and past its cooldown: a flag that
\* outlived its trial would shut the provider for good, for no timer clears it
\* (_circuit_available, _release, record_failure).
TrialHasOwner ==
    \A p \in Providers : half_open_probe[p] =>
        /\ circuit_open[p] /\ cooldown[p] = 0
        /\ \E c \in Holders(p) : lease[c].half_open

\* A circuit is open exactly when the failures since the last success reached
\* the threshold: cooldown and trial never reset the count, so that one failed
\* trial opens the circuit again (record_success, record_failure).
CircuitMatchesFailures ==
    \A p \in Providers : circuit_open[p] <=> request_failures[p] = FailureThreshold

\* Neither a notification nor the timer is due.
Asleep(c) == waiting[c] # NoWait /\ ~waiting[c].notified /\ waiting[c].timer > 0
Wanted(c) == {waiting[c].specs[i] : i \in DOMAIN waiting[c].specs}

\* A caller that sleeps has nothing to take, and its timer expires no later than
\* the cooldown of any candidate that only its cooldown keeps out: no release,
\* probe, outcome or expiry leaves it asleep beside a free slot (the
\* notify_all calls, and circuit_waits in _acquire_from).
NoLostWakeup ==
    \A c \in Callers : Asleep(c) =>
        \A p \in Wanted(c) :
            ~Fits(p) /\ (CoolingDown(p) => waiting[c].timer <= cooldown[p])

\* A caller that is blocked in acquire gets a lease or an exception in the end:
\* waking it up again and again does not extend its admission deadline
\* (deadline and remaining in _acquire_from).
AdmissionResolves ==
    \A c \in Callers : waiting[c] # NoWait ~> waiting[c] = NoWait
=============================================================================
