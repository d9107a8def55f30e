------------------------- MODULE ProviderPoolProofs -------------------------
(* Proofs about ProviderPool, for every set of providers and callers,      *)
(* every capacity, threshold, cooldown and admission timeout.              *)
EXTENDS ProviderPool, FiniteSetTheorems, TLAPS

-----------------------------------------------------------------------------
(* Type correctness.                                                       *)

\* A candidate list holds providers.
LEMMA ListedProvider ==
    ASSUME NEW specs \in SpecLists, NEW i \in DOMAIN specs
    PROVE  specs[i] \in Providers
BY PoolAssumption

\* notify_all leaves every caller's wait well formed.
LEMMA NotifiedType ==
    ASSUME PoolTypeOK
    PROVE  Notified \in [Callers -> Wait \union {NoWait}]
<1>1. ASSUME NEW c \in Callers, waiting[c] # NoWait
      PROVE  [waiting[c] EXCEPT !.notified = TRUE] \in Wait
  BY <1>1 DEF PoolTypeOK, Wait
<1> QED
  BY <1>1 DEF Notified

\* A grant keeps the types.
LEMMA GrantType ==
    ASSUME PoolTypeOK, NEW c \in Callers, NEW specs \in SpecLists, Grant(c, specs)
    PROVE  PoolTypeOK'
<1>1. PICK i \in DOMAIN specs :
         /\ inflight' = [inflight EXCEPT ![specs[i]] = @ + 1]
         /\ half_open_probe' = [half_open_probe EXCEPT
                                  ![specs[i]] = @ \/ circuit_open[specs[i]]]
         /\ lease' = [lease EXCEPT ![c] = [provider  |-> specs[i],
                                           half_open |-> circuit_open[specs[i]]]]
  BY DEF Grant
<1>2. specs[i] \in Providers
  BY ListedProvider
<1>3. inflight' \in [Providers -> Nat]
  BY <1>1, <1>2 DEF PoolTypeOK
<1>4. half_open_probe' \in [Providers -> BOOLEAN]
  BY <1>1, <1>2 DEF PoolTypeOK
<1>5. lease' \in [Callers -> Lease \union {NoLease}]
  BY <1>1, <1>2 DEF PoolTypeOK, Lease
<1>6. waiting' \in [Callers -> Wait \union {NoWait}]
  BY DEF PoolTypeOK, Grant
<1> QED
  BY <1>3, <1>4, <1>5, <1>6 DEF PoolTypeOK, Grant, breaker

\* NoHealthyProvider keeps the types.
LEMMA RaiseNoHealthyType ==
    ASSUME PoolTypeOK, NEW c \in Callers, NEW specs, RaiseNoHealthy(c, specs)
    PROVE  PoolTypeOK'
BY DEF PoolTypeOK, RaiseNoHealthy, breaker

\* A wait is a record of its type: its timer lies within the time remaining.
LEMMA BlockType ==
    ASSUME PoolTypeOK, NEW c \in Callers, NEW specs \in SpecLists,
           NEW remaining \in 0..AdmissionTimeout, Block(c, specs, remaining)
    PROVE  PoolTypeOK'
<1>1. PICK t \in 1..remaining :
         waiting' = [waiting EXCEPT ![c] = [specs |-> specs, left |-> remaining,
                                            timer |-> t, notified |-> FALSE]]
  BY DEF Block
<1>2. t \in 0..AdmissionTimeout
  BY PoolAssumption
<1>3. [specs |-> specs, left |-> remaining, timer |-> t, notified |-> FALSE] \in Wait
  BY <1>2 DEF Wait
<1>4. waiting' \in [Callers -> Wait \union {NoWait}]
  BY <1>1, <1>3 DEF PoolTypeOK
<1> QED
  BY <1>4 DEF PoolTypeOK, Block, breaker

\* The fields of a blocked caller.
LEMMA AwakeWaits ==
    ASSUME PoolTypeOK, NEW c \in Callers, waiting[c] # NoWait
    PROVE  /\ waiting[c] \in Wait
           /\ waiting[c].specs \in SpecLists
           /\ waiting[c].left \in 0..AdmissionTimeout
           /\ waiting[c].timer \in 0..AdmissionTimeout
           /\ waiting[c].notified \in BOOLEAN
BY DEF PoolTypeOK, Wait

\* A release keeps the types.
LEMMA ReleaseType ==
    ASSUME PoolTypeOK, NEW c \in Callers, Release(c)
    PROVE  PoolTypeOK'
<1>1. lease[c].provider \in Providers /\ lease[c].half_open \in BOOLEAN
  BY DEF PoolTypeOK, Lease, Release
<1>2. inflight' \in [Providers -> Nat]
  BY <1>1 DEF PoolTypeOK, Release
<1>3. half_open_probe' \in [Providers -> BOOLEAN]
  BY <1>1 DEF PoolTypeOK, Release
<1>4. lease' \in [Callers -> Lease \union {NoLease}]
  BY DEF PoolTypeOK, Release
<1>5. waiting' \in [Callers -> Wait \union {NoWait}]
  BY NotifiedType DEF Release
<1> QED
  BY <1>2, <1>3, <1>4, <1>5 DEF PoolTypeOK, Release, breaker

\* record_success keeps the types.
LEMMA RecordSuccessType ==
    ASSUME PoolTypeOK, NEW c \in Callers, RecordSuccess(c)
    PROVE  PoolTypeOK'
<1>1. waiting' \in [Callers -> Wait \union {NoWait}]
  BY NotifiedType DEF RecordSuccess
<1>2. health' \in [Providers -> {"unknown", "healthy", "unhealthy"}]
  BY DEF PoolTypeOK, RecordSuccess
<1> QED
  BY <1>1, <1>2, PoolAssumption DEF PoolTypeOK, RecordSuccess

\* record_failure keeps the types: the counter stops at the threshold.
LEMMA RecordFailureType ==
    ASSUME PoolTypeOK, NEW c \in Callers, RecordFailure(c)
    PROVE  PoolTypeOK'
<1> DEFINE p == lease[c].provider
           failures == IF request_failures[p] < FailureThreshold
                       THEN request_failures[p] + 1 ELSE FailureThreshold
           opens == failures >= FailureThreshold
<1>1. waiting' \in [Callers -> Wait \union {NoWait}]
  BY NotifiedType DEF RecordFailure
<1>2. p \in Providers
  BY DEF PoolTypeOK, Lease, RecordFailure
<1>3. failures \in 0..FailureThreshold /\ Cooldown \in 0..Cooldown
  BY <1>2, PoolAssumption DEF PoolTypeOK
<1>4. request_failures' \in [Providers -> 0..FailureThreshold]
  BY <1>3 DEF PoolTypeOK, RecordFailure
<1>5. circuit_open' \in [Providers -> BOOLEAN]
  BY <1>2 DEF PoolTypeOK, RecordFailure
<1>6. cooldown' \in [Providers -> 0..Cooldown]
  BY <1>3 DEF PoolTypeOK, RecordFailure
<1>7. half_open_probe' \in [Providers -> BOOLEAN]
  BY <1>2 DEF PoolTypeOK, RecordFailure
<1> QED
  BY <1>1, <1>4, <1>5, <1>6, <1>7 DEF PoolTypeOK, RecordFailure

\* A probe keeps the types.
LEMMA ProbeType ==
    ASSUME PoolTypeOK, NEW p \in Providers, NEW healthy \in BOOLEAN, Probe(p, healthy)
    PROVE  PoolTypeOK'
<1>1. waiting' \in [Callers -> Wait \union {NoWait}]
  BY NotifiedType DEF Probe, PoolTypeOK
<1>2. probe_failures' \in [Providers -> 0..FailureThreshold]
  <2>1. \A n \in 0..FailureThreshold :
          (IF n < FailureThreshold THEN n + 1 ELSE n) \in 0..FailureThreshold
    BY PoolAssumption
  <2>2. 0 \in 0..FailureThreshold
    BY PoolAssumption
  <2> QED
    BY <2>1, <2>2 DEF PoolTypeOK, Probe
<1>3. health' \in [Providers -> {"unknown", "healthy", "unhealthy"}]
  BY DEF PoolTypeOK, Probe
<1> QED
  BY <1>1, <1>2, <1>3 DEF PoolTypeOK, Probe

\* A tick keeps the types: no remaining time falls below 0.
LEMMA TickType == PoolTypeOK /\ Tick => PoolTypeOK'
<1> SUFFICES ASSUME PoolTypeOK, Tick PROVE PoolTypeOK'
  OBVIOUS
<1>1. cooldown' \in [Providers -> 0..Cooldown]
  <2>1. \A p \in Providers : cooldown[p] \in 0..Cooldown
    BY DEF PoolTypeOK
  <2>2. \A n \in 0..Cooldown : Minus1(n) \in 0..Cooldown
    BY PoolAssumption DEF Minus1
  <2>3. cooldown' = [p \in Providers |-> Minus1(cooldown[p])]
    BY DEF Tick
  <2> QED
    BY <2>1, <2>2, <2>3
<1>2. ASSUME NEW c \in Callers, waiting[c] # NoWait
      PROVE  [waiting[c] EXCEPT !.left = Minus1(@), !.timer = Minus1(@)] \in Wait
  <2>1. \A n \in 0..AdmissionTimeout : Minus1(n) \in 0..AdmissionTimeout
    BY PoolAssumption DEF Minus1
  <2>2. waiting[c] \in Wait
    BY <1>2 DEF PoolTypeOK
  <2> QED
    BY <2>1, <2>2 DEF Wait
<1>3. waiting' \in [Callers -> Wait \union {NoWait}]
  BY <1>2 DEF Tick
<1> QED
  BY <1>1, <1>3 DEF PoolTypeOK, Tick

\* Every step of the pool keeps the types.
LEMMA StepType == PoolTypeOK /\ [PoolNext]_poolVars => PoolTypeOK'
<1> SUFFICES ASSUME PoolTypeOK, [PoolNext]_poolVars PROVE PoolTypeOK'
  OBVIOUS
<1>1. ASSUME NEW c \in Callers, CallerStep(c) PROVE PoolTypeOK'
  <2>1. ASSUME NEW specs \in SpecLists, AcquireGrant(c, specs) PROVE PoolTypeOK'
    BY <2>1, GrantType DEF AcquireGrant
  <2>2. ASSUME NEW specs \in SpecLists, AcquireNoHealthy(c, specs) PROVE PoolTypeOK'
    BY <2>2, RaiseNoHealthyType DEF AcquireNoHealthy
  <2>3. ASSUME NEW specs \in SpecLists, AcquireBlock(c, specs) PROVE PoolTypeOK'
    <3>1. AdmissionTimeout \in 0..AdmissionTimeout
      BY PoolAssumption
    <3> QED
      BY <2>3, <3>1, BlockType DEF AcquireBlock
  <2>4. CASE RecheckGrant(c)
    BY <2>4, AwakeWaits, GrantType DEF RecheckGrant, Awake
  <2>5. CASE RecheckNoHealthy(c)
    BY <2>5, RaiseNoHealthyType DEF RecheckNoHealthy
  <2>6. CASE RecheckBlock(c)
    BY <2>6, AwakeWaits, BlockType DEF RecheckBlock, Awake
  <2>7. CASE AdmissionExpires(c)
    BY <2>7 DEF PoolTypeOK, AdmissionExpires, breaker
  <2>8. CASE AdmissionCancelled(c)
    BY <2>8 DEF PoolTypeOK, AdmissionCancelled, breaker
  <2>9. CASE Release(c)
    BY <2>9, ReleaseType
  <2>10. CASE RecordSuccess(c)
    BY <2>10, RecordSuccessType
  <2>11. CASE RecordFailure(c)
    BY <2>11, RecordFailureType
  <2> QED
    BY <1>1, <2>1, <2>2, <2>3, <2>4, <2>5, <2>6, <2>7, <2>8, <2>9, <2>10, <2>11 DEF CallerStep
<1>2. ASSUME NEW p \in Providers, NEW healthy \in BOOLEAN, Probe(p, healthy)
      PROVE  PoolTypeOK'
  BY <1>2, ProbeType
<1>3. CASE Tick
  BY <1>3, TickType
<1>4. CASE UNCHANGED poolVars
  BY <1>4 DEF poolVars, breaker, PoolTypeOK
<1> QED
  BY <1>1, <1>2, <1>3, <1>4 DEF PoolNext

\* Every variable of the pool keeps its type.
THEOREM TypeCorrect == PoolSpec => []PoolTypeOK
<1>1. PoolInit => PoolTypeOK
  BY PoolAssumption DEF PoolInit, PoolTypeOK
<1> QED
  BY <1>1, StepType, PTL DEF PoolSpec

-----------------------------------------------------------------------------
(* Capacity.  A caller never holds a lease while it is blocked, so a grant *)
(* always adds a holder and a release always removes one.                  *)

BlockedHoldsNothing == \A c \in Callers : waiting[c] # NoWait => lease[c] = NoLease

CapacityInv == PoolTypeOK /\ BlockedHoldsNothing /\ CapacityAccounted

\* A provider has finitely many holders.
LEMMA HoldersFinite ==
    ASSUME NEW p
    PROVE  IsFiniteSet(Holders(p))
BY PoolAssumption, FS_Subset DEF Holders

\* Who holds what after a lease is handed out.
LEMMA HoldersAfterGrant ==
    ASSUME PoolTypeOK, NEW c \in Callers, NEW q \in Providers, NEW b \in BOOLEAN,
           lease[c] = NoLease,
           lease' = [lease EXCEPT ![c] = [provider |-> q, half_open |-> b]],
           NEW p \in Providers
    PROVE  /\ c \notin Holders(p)
           /\ Holders(p)' = IF p = q THEN Holders(p) \union {c} ELSE Holders(p)
<1>1. [provider |-> q, half_open |-> b] # NoLease
  BY PoolAssumption DEF Lease
<1> QED
  BY <1>1 DEF Holders, PoolTypeOK

\* Who holds what after a lease is released.
LEMMA HoldersAfterRelease ==
    ASSUME PoolTypeOK, NEW c \in Callers, lease[c] # NoLease,
           lease' = [lease EXCEPT ![c] = NoLease], NEW p \in Providers
    PROVE  /\ c \in Holders(p) <=> p = lease[c].provider
           /\ Holders(p)' = IF p = lease[c].provider THEN Holders(p) \ {c} ELSE Holders(p)
BY DEF Holders, PoolTypeOK

\* A grant takes a slot that is free, for a caller that held none.
LEMMA GrantCapacity ==
    ASSUME CapacityInv, NEW c \in Callers, NEW specs \in SpecLists,
           lease[c] = NoLease, Grant(c, specs)
    PROVE  BlockedHoldsNothing' /\ CapacityAccounted'
<1>1. PICK i \in DOMAIN specs :
         /\ Fits(specs[i])
         /\ inflight' = [inflight EXCEPT ![specs[i]] = @ + 1]
         /\ lease' = [lease EXCEPT ![c] = [provider  |-> specs[i],
                                           half_open |-> circuit_open[specs[i]]]]
  BY DEF Grant
<1> DEFINE q == specs[i]
<1>2. q \in Providers /\ circuit_open[q] \in BOOLEAN
  BY ListedProvider DEF CapacityInv, PoolTypeOK
<1>3. BlockedHoldsNothing'
  BY <1>1 DEF BlockedHoldsNothing, CapacityInv, PoolTypeOK, Grant
<1>4. ASSUME NEW p \in Providers
      PROVE  /\ inflight'[p] = Cardinality(Holders(p)')
             /\ inflight'[p] <= MaxInflight[p]
  <2>1. /\ c \notin Holders(p)
        /\ Holders(p)' = IF p = q THEN Holders(p) \union {c} ELSE Holders(p)
    BY <1>1, <1>2, HoldersAfterGrant DEF CapacityInv
  <2>2. /\ inflight[p] \in Nat
        /\ inflight[p] = Cardinality(Holders(p))
        /\ inflight[p] <= MaxInflight[p]
    BY DEF CapacityInv, CapacityAccounted, PoolTypeOK
  <2>3. CASE p = q
    <3>1. Cardinality(Holders(p)') = Cardinality(Holders(p)) + 1
      BY <2>1, <2>3, HoldersFinite, FS_AddElement
    <3>2. inflight'[p] = inflight[p] + 1
      BY <1>1, <2>3 DEF CapacityInv, PoolTypeOK
    <3>3. inflight[p] < MaxInflight[p] /\ MaxInflight[p] \in Nat
      BY <1>1, <2>3, PoolAssumption DEF Fits
    <3> QED
      BY <2>2, <3>1, <3>2, <3>3
  <2>4. CASE p # q
    BY <1>1, <2>1, <2>2, <2>4 DEF CapacityInv, PoolTypeOK
  <2> QED
    BY <2>3, <2>4
<1> QED
  BY <1>3, <1>4 DEF CapacityAccounted

\* A release gives back exactly the slot of its lease.
LEMMA ReleaseCapacity ==
    ASSUME CapacityInv, NEW c \in Callers, Release(c)
    PROVE  BlockedHoldsNothing' /\ CapacityAccounted'
<1> DEFINE q == lease[c].provider
<1>1. BlockedHoldsNothing'
  BY DEF BlockedHoldsNothing, CapacityInv, PoolTypeOK, Release, Notified
<1>2. ASSUME NEW p \in Providers
      PROVE  /\ inflight'[p] = Cardinality(Holders(p)')
             /\ inflight'[p] <= MaxInflight[p]
  <2>1. /\ c \in Holders(p) <=> p = q
        /\ Holders(p)' = IF p = q THEN Holders(p) \ {c} ELSE Holders(p)
    BY HoldersAfterRelease DEF CapacityInv, Release
  <2>2. /\ inflight[p] \in Nat
        /\ inflight[p] = Cardinality(Holders(p))
        /\ inflight[p] <= MaxInflight[p]
        /\ MaxInflight[p] \in Nat
    BY PoolAssumption DEF CapacityInv, CapacityAccounted, PoolTypeOK
  <2>3. CASE p = q
    <3>1. Cardinality(Holders(p)') = Cardinality(Holders(p)) - 1
      BY <2>1, <2>3, HoldersFinite, FS_RemoveElement
    <3>2. Cardinality(Holders(p)) # 0
      BY <2>1, <2>3, HoldersFinite, FS_EmptySet
    <3>3. inflight'[p] = inflight[p] - 1
      BY <2>2, <2>3, <3>2 DEF CapacityInv, PoolTypeOK, Release
    <3> QED
      BY <2>2, <3>1, <3>3, <3>2
  <2>4. CASE p # q
    BY <2>1, <2>2, <2>4 DEF CapacityInv, PoolTypeOK, Release
  <2> QED
    BY <2>3, <2>4
<1> QED
  BY <1>1, <1>2 DEF CapacityAccounted

\* A step that hands out no lease and takes none back.
LEMMA SameLeasesCapacity ==
    ASSUME CapacityInv, UNCHANGED <<inflight, lease>>,
           \A c \in Callers : waiting'[c] # NoWait => lease[c] = NoLease
    PROVE  BlockedHoldsNothing' /\ CapacityAccounted'
BY DEF CapacityInv, BlockedHoldsNothing, CapacityAccounted, Holders

\* Every step of the pool keeps the account of the slots.
LEMMA StepCapacity == CapacityInv /\ [PoolNext]_poolVars => CapacityInv'
<1> SUFFICES ASSUME CapacityInv, [PoolNext]_poolVars PROVE CapacityInv'
  OBVIOUS
<1>1. PoolTypeOK'
  BY StepType DEF CapacityInv
<1> SUFFICES BlockedHoldsNothing' /\ CapacityAccounted'
  BY <1>1 DEF CapacityInv
<1> USE DEF CapacityInv
<1>2. ASSUME NEW c \in Callers, CallerStep(c)
      PROVE  BlockedHoldsNothing' /\ CapacityAccounted'
  <2>1. ASSUME NEW specs \in SpecLists, AcquireGrant(c, specs)
        PROVE  BlockedHoldsNothing' /\ CapacityAccounted'
    BY <2>1, GrantCapacity DEF AcquireGrant, Idle
  <2>2. ASSUME NEW specs \in SpecLists, AcquireNoHealthy(c, specs)
        PROVE  BlockedHoldsNothing' /\ CapacityAccounted'
    BY <2>2, SameLeasesCapacity
       DEF AcquireNoHealthy, RaiseNoHealthy, PoolTypeOK, BlockedHoldsNothing
  <2>3. ASSUME NEW specs \in SpecLists, AcquireBlock(c, specs)
        PROVE  BlockedHoldsNothing' /\ CapacityAccounted'
    BY <2>3, SameLeasesCapacity
       DEF AcquireBlock, Block, Idle, PoolTypeOK, BlockedHoldsNothing
  <2>4. CASE RecheckGrant(c)
    BY <2>4, AwakeWaits, GrantCapacity DEF RecheckGrant, Awake, BlockedHoldsNothing
  <2>5. CASE RecheckNoHealthy(c)
    BY <2>5, SameLeasesCapacity
       DEF RecheckNoHealthy, RaiseNoHealthy, PoolTypeOK, BlockedHoldsNothing
  <2>6. CASE RecheckBlock(c)
    BY <2>6, SameLeasesCapacity
       DEF RecheckBlock, Awake, Block, PoolTypeOK, BlockedHoldsNothing
  <2>7. CASE AdmissionExpires(c)
    BY <2>7, SameLeasesCapacity DEF AdmissionExpires, PoolTypeOK, BlockedHoldsNothing
  <2>8. CASE AdmissionCancelled(c)
    BY <2>8, SameLeasesCapacity DEF AdmissionCancelled, PoolTypeOK, BlockedHoldsNothing
  <2>9. CASE Release(c)
    BY <2>9, ReleaseCapacity
  <2>10. CASE RecordSuccess(c)
    BY <2>10, SameLeasesCapacity DEF RecordSuccess, Notified, BlockedHoldsNothing
  <2>11. CASE RecordFailure(c)
    BY <2>11, SameLeasesCapacity DEF RecordFailure, Notified, BlockedHoldsNothing
  <2> QED
    BY <1>2, <2>1, <2>2, <2>3, <2>4, <2>5, <2>6, <2>7, <2>8, <2>9, <2>10, <2>11 DEF CallerStep
<1>3. ASSUME NEW p \in Providers, NEW healthy \in BOOLEAN, Probe(p, healthy)
      PROVE  BlockedHoldsNothing' /\ CapacityAccounted'
  BY <1>3, SameLeasesCapacity DEF Probe, Notified, BlockedHoldsNothing
<1>4. CASE Tick
  <2>1. \A c \in Callers : waiting'[c] # NoWait => waiting[c] # NoWait
    BY <1>4 DEF Tick
  <2> QED
    BY <1>4, <2>1, SameLeasesCapacity DEF Tick, BlockedHoldsNothing
<1>5. CASE UNCHANGED poolVars
  BY <1>5, SameLeasesCapacity DEF poolVars, BlockedHoldsNothing
<1> QED
  BY <1>1, <1>2, <1>3, <1>4, <1>5 DEF PoolNext

\* The pool starts with no slot in use.
LEMMA InitCapacity == PoolInit => CapacityInv
<1> SUFFICES ASSUME PoolInit PROVE CapacityInv
  OBVIOUS
<1>1. PoolTypeOK /\ BlockedHoldsNothing
  BY PoolAssumption DEF PoolInit, PoolTypeOK, BlockedHoldsNothing
<1>2. ASSUME NEW p \in Providers PROVE Holders(p) = {}
  BY DEF PoolInit, Holders
<1>3. ASSUME NEW p \in Providers
      PROVE  inflight[p] = Cardinality(Holders(p)) /\ inflight[p] <= MaxInflight[p]
  <2>1. inflight[p] = 0 /\ MaxInflight[p] \in Nat
    BY PoolAssumption DEF PoolInit
  <2>2. Cardinality(Holders(p)) = 0
    BY <1>2, FS_EmptySet
  <2> QED
    BY <2>1, <2>2
<1> QED
  BY <1>1, <1>3 DEF CapacityInv, CapacityAccounted

\* No slot is leaked, freed twice or oversold, whatever the callers do.
THEOREM CapacitySafe == PoolSpec => []CapacityAccounted
<1>1. CapacityInv => CapacityAccounted
  BY DEF CapacityInv
<1> QED
  BY InitCapacity, StepCapacity, <1>1, PTL DEF PoolSpec

-----------------------------------------------------------------------------
(* The circuit.  The flag half_open_probe stands for a trial that is out:  *)
(* every step that ends the last trial of a provider clears it.            *)

CircuitInv == PoolTypeOK /\ BlockedHoldsNothing /\ CircuitMatchesFailures /\ TrialHasOwner

\* A step that leaves the circuits, the flags and the leases alone.
LEMMA SameCircuits ==
    ASSUME CircuitInv,
           UNCHANGED <<request_failures, circuit_open, cooldown, half_open_probe, lease>>
    PROVE  CircuitMatchesFailures' /\ TrialHasOwner'
BY DEF CircuitInv, CircuitMatchesFailures, TrialHasOwner, Holders

\* A grant sets the flag only together with a half-open lease.
LEMMA GrantCircuit ==
    ASSUME CircuitInv, NEW c \in Callers, NEW specs \in SpecLists,
           lease[c] = NoLease, Grant(c, specs)
    PROVE  CircuitMatchesFailures' /\ TrialHasOwner'
<1>1. PICK i \in DOMAIN specs :
         /\ Fits(specs[i])
         /\ half_open_probe' = [half_open_probe EXCEPT
                                  ![specs[i]] = @ \/ circuit_open[specs[i]]]
         /\ lease' = [lease EXCEPT ![c] = [provider  |-> specs[i],
                                           half_open |-> circuit_open[specs[i]]]]
  BY DEF Grant
<1> DEFINE q == specs[i]
<1>2. q \in Providers /\ circuit_open[q] \in BOOLEAN
  BY ListedProvider DEF CircuitInv, PoolTypeOK
<1>3. UNCHANGED <<request_failures, circuit_open, cooldown>>
  BY DEF Grant, breaker
<1>4. CircuitMatchesFailures'
  BY <1>3 DEF CircuitInv, CircuitMatchesFailures
<1>5. ASSUME NEW p \in Providers, half_open_probe'[p]
      PROVE  /\ circuit_open'[p] /\ cooldown'[p] = 0
             /\ \E d \in Holders(p)' : lease'[d].half_open
  <2>1. /\ c \notin Holders(p)
        /\ Holders(p)' = IF p = q THEN Holders(p) \union {c} ELSE Holders(p)
    BY <1>1, <1>2, HoldersAfterGrant DEF CircuitInv
  <2>2. \A d \in Holders(p) : lease'[d] = lease[d]
    BY <1>1, <2>1 DEF Holders, CircuitInv, PoolTypeOK
  <2>3. CASE half_open_probe[p]
    BY <1>3, <2>1, <2>2, <2>3 DEF CircuitInv, TrialHasOwner
  <2>4. CASE ~half_open_probe[p]
    <3>1. p = q /\ circuit_open[q]
      BY <1>1, <1>5, <2>4 DEF CircuitInv, PoolTypeOK
    <3>2. cooldown[q] = 0
      BY <1>1, <3>1 DEF Fits, Usable, CircuitAvailable
    <3>3. lease'[c].half_open
      BY <1>1, <3>1 DEF CircuitInv, PoolTypeOK
    <3> QED
      BY <1>3, <2>1, <3>1, <3>2, <3>3
  <2> QED
    BY <2>3, <2>4
<1> QED
  BY <1>4, <1>5 DEF TrialHasOwner

\* A release leaves a set flag only where its lease was not half-open.
LEMMA ReleaseCircuit ==
    ASSUME CircuitInv, NEW c \in Callers, Release(c)
    PROVE  CircuitMatchesFailures' /\ TrialHasOwner'
<1>1. UNCHANGED <<request_failures, circuit_open, cooldown>>
  BY DEF Release, breaker
<1>2. CircuitMatchesFailures'
  BY <1>1 DEF CircuitInv, CircuitMatchesFailures
<1>3. ASSUME NEW p \in Providers, half_open_probe'[p]
      PROVE  /\ circuit_open'[p] /\ cooldown'[p] = 0
             /\ \E d \in Holders(p)' : lease'[d].half_open
  <2>1. half_open_probe[p] /\ (p = lease[c].provider => ~lease[c].half_open)
    BY <1>3 DEF CircuitInv, PoolTypeOK, Release
  <2>2. PICK d \in Holders(p) : lease[d].half_open
    BY <2>1 DEF CircuitInv, TrialHasOwner
  <2>3. d # c
    BY <2>1, <2>2 DEF Holders
  <2>4. lease'[d] = lease[d] /\ d \in Holders(p)'
    BY <2>2, <2>3 DEF Holders, Release, CircuitInv, PoolTypeOK
  <2> QED
    BY <1>1, <2>1, <2>2, <2>4 DEF CircuitInv, TrialHasOwner
<1> QED
  BY <1>2, <1>3 DEF TrialHasOwner

\* A success closes the circuit, resets the count and clears the flag together.
LEMMA RecordSuccessCircuit ==
    ASSUME CircuitInv, NEW c \in Callers, RecordSuccess(c)
    PROVE  CircuitMatchesFailures' /\ TrialHasOwner'
<1> DEFINE q == lease[c].provider
<1>1. /\ request_failures' = [request_failures EXCEPT ![q] = 0]
      /\ circuit_open' = [circuit_open EXCEPT ![q] = FALSE]
      /\ cooldown' = [cooldown EXCEPT ![q] = 0]
      /\ half_open_probe' = [half_open_probe EXCEPT ![q] = FALSE]
      /\ lease' = lease
  BY DEF RecordSuccess
<1>2. CircuitMatchesFailures'
  <2> SUFFICES ASSUME NEW p \in Providers
               PROVE  circuit_open'[p] <=> request_failures'[p] = FailureThreshold
    BY DEF CircuitMatchesFailures
  <2>1. CASE p = q
    BY <1>1, <2>1, PoolAssumption DEF CircuitInv, PoolTypeOK
  <2>2. CASE p # q
    BY <1>1, <2>2 DEF CircuitInv, PoolTypeOK, CircuitMatchesFailures
  <2> QED
    BY <2>1, <2>2
<1>3. TrialHasOwner'
  <2> SUFFICES ASSUME NEW p \in Providers, half_open_probe'[p]
               PROVE  /\ circuit_open'[p] /\ cooldown'[p] = 0
                      /\ \E d \in Holders(p)' : lease'[d].half_open
    BY DEF TrialHasOwner
  <2>1. p # q
    BY <1>1 DEF CircuitInv, PoolTypeOK
  <2>2. circuit_open'[p] = circuit_open[p] /\ cooldown'[p] = cooldown[p] /\ half_open_probe[p]
    BY <1>1, <2>1 DEF CircuitInv, PoolTypeOK
  <2> QED
    BY <1>1, <2>2 DEF CircuitInv, TrialHasOwner, Holders
<1> QED
  BY <1>2, <1>3

\* A failure at the threshold opens the circuit and clears the flag together.
LEMMA RecordFailureCircuit ==
    ASSUME CircuitInv, NEW c \in Callers, RecordFailure(c)
    PROVE  CircuitMatchesFailures' /\ TrialHasOwner'
<1> DEFINE q == lease[c].provider
           failures == IF request_failures[q] < FailureThreshold
                       THEN request_failures[q] + 1 ELSE FailureThreshold
           opens == failures >= FailureThreshold
<1>1. /\ request_failures' = [request_failures EXCEPT ![q] = failures]
      /\ circuit_open' = [circuit_open EXCEPT ![q] = @ \/ opens]
      /\ cooldown' = [cooldown EXCEPT ![q] = IF opens THEN Cooldown ELSE @]
      /\ half_open_probe' = [half_open_probe EXCEPT ![q] = @ /\ ~opens]
      /\ lease' = lease
  BY DEF RecordFailure
<1>2. q \in Providers
  BY DEF CircuitInv, PoolTypeOK, Lease, RecordFailure
<1>3. /\ request_failures[q] \in 0..FailureThreshold
      /\ FailureThreshold \in Nat \ {0}
      /\ circuit_open[q] \in BOOLEAN
      /\ circuit_open[q] <=> request_failures[q] = FailureThreshold
  BY <1>2, PoolAssumption DEF CircuitInv, PoolTypeOK, CircuitMatchesFailures
<1>4. (circuit_open[q] => opens) /\ (opens <=> failures = FailureThreshold)
  BY <1>3
<1>5. CircuitMatchesFailures'
  <2> SUFFICES ASSUME NEW p \in Providers
               PROVE  circuit_open'[p] <=> request_failures'[p] = FailureThreshold
    BY DEF CircuitMatchesFailures
  <2>1. CASE p = q
    <3>1. circuit_open'[q] = (circuit_open[q] \/ opens) /\ request_failures'[q] = failures
      BY <1>1, <1>2 DEF CircuitInv, PoolTypeOK
    <3> HIDE DEF opens, failures
    <3> QED
      BY <1>4, <2>1, <3>1
  <2>2. CASE p # q
    BY <1>1, <2>2 DEF CircuitInv, PoolTypeOK, CircuitMatchesFailures
  <2> QED
    BY <2>1, <2>2
<1>6. TrialHasOwner'
  <2> SUFFICES ASSUME NEW p \in Providers, half_open_probe'[p]
               PROVE  /\ circuit_open'[p] /\ cooldown'[p] = 0
                      /\ \E d \in Holders(p)' : lease'[d].half_open
    BY DEF TrialHasOwner
  <2> HIDE DEF opens, failures
  <2>1. half_open_probe[p] /\ (p = q => ~opens)
    BY <1>1 DEF CircuitInv, PoolTypeOK
  <2>2. p # q
    BY <1>4, <2>1 DEF CircuitInv, TrialHasOwner
  <2>3. circuit_open'[p] = circuit_open[p] /\ cooldown'[p] = cooldown[p]
    BY <1>1, <2>2 DEF CircuitInv, PoolTypeOK
  <2> QED
    BY <1>1, <2>1, <2>3 DEF CircuitInv, TrialHasOwner, Holders
<1> QED
  BY <1>5, <1>6

\* A tick moves only cooldowns, and none that is past.
LEMMA TickCircuit ==
    ASSUME CircuitInv, Tick
    PROVE  CircuitMatchesFailures' /\ TrialHasOwner'
<1>1. UNCHANGED <<request_failures, circuit_open, half_open_probe, lease>>
  BY DEF Tick
<1>2. \A p \in Providers : cooldown[p] = 0 => cooldown'[p] = 0
  BY DEF Tick, Minus1
<1> QED
  BY <1>1, <1>2 DEF CircuitInv, CircuitMatchesFailures, TrialHasOwner, Holders

\* Every step of the pool keeps circuits, counts and flags in agreement.
LEMMA StepCircuit ==
    CapacityInv /\ CapacityInv' /\ CircuitInv /\ [PoolNext]_poolVars => CircuitInv'
<1> SUFFICES ASSUME CapacityInv, CapacityInv', CircuitInv, [PoolNext]_poolVars
             PROVE  CircuitMatchesFailures' /\ TrialHasOwner'
  BY DEF CapacityInv, CircuitInv
<1>1. ASSUME NEW c \in Callers, CallerStep(c)
      PROVE  CircuitMatchesFailures' /\ TrialHasOwner'
  <2>1. ASSUME NEW specs \in SpecLists, AcquireGrant(c, specs)
        PROVE  CircuitMatchesFailures' /\ TrialHasOwner'
    BY <2>1, GrantCircuit DEF AcquireGrant, Idle
  <2>2. ASSUME NEW specs \in SpecLists, AcquireNoHealthy(c, specs)
        PROVE  CircuitMatchesFailures' /\ TrialHasOwner'
    BY <2>2, SameCircuits DEF AcquireNoHealthy, RaiseNoHealthy, breaker
  <2>3. ASSUME NEW specs \in SpecLists, AcquireBlock(c, specs)
        PROVE  CircuitMatchesFailures' /\ TrialHasOwner'
    BY <2>3, SameCircuits DEF AcquireBlock, Block, breaker
  <2>4. CASE RecheckGrant(c)
    <3>1. PoolTypeOK /\ waiting[c] # NoWait /\ lease[c] = NoLease
      BY <2>4 DEF RecheckGrant, Awake, BlockedHoldsNothing, CircuitInv
    <3> QED
      BY <2>4, <3>1, AwakeWaits, GrantCircuit DEF RecheckGrant
  <2>5. CASE RecheckNoHealthy(c)
    BY <2>5, SameCircuits DEF RecheckNoHealthy, RaiseNoHealthy, breaker
  <2>6. CASE RecheckBlock(c)
    BY <2>6, SameCircuits DEF RecheckBlock, Block, breaker
  <2>7. CASE AdmissionExpires(c)
    BY <2>7, SameCircuits DEF AdmissionExpires, breaker
  <2>8. CASE AdmissionCancelled(c)
    BY <2>8, SameCircuits DEF AdmissionCancelled, breaker
  <2>9. CASE Release(c)
    BY <2>9, ReleaseCircuit
  <2>10. CASE RecordSuccess(c)
    BY <2>10, RecordSuccessCircuit
  <2>11. CASE RecordFailure(c)
    BY <2>11, RecordFailureCircuit
  <2> QED
    BY <1>1, <2>1, <2>2, <2>3, <2>4, <2>5, <2>6, <2>7, <2>8, <2>9, <2>10, <2>11 DEF CallerStep
<1>2. ASSUME NEW p \in Providers, NEW healthy \in BOOLEAN, Probe(p, healthy)
      PROVE  CircuitMatchesFailures' /\ TrialHasOwner'
  BY <1>2, SameCircuits DEF Probe
<1>3. CASE Tick
  BY <1>3, TickCircuit
<1>4. CASE UNCHANGED poolVars
  BY <1>4, SameCircuits DEF poolVars, breaker
<1> QED
  BY <1>1, <1>2, <1>3, <1>4 DEF PoolNext

\* The pool starts with closed circuits and no flag set.
LEMMA InitCircuit == PoolInit => CircuitInv
<1> SUFFICES ASSUME PoolInit PROVE CircuitInv
  OBVIOUS
<1>1. PoolTypeOK /\ BlockedHoldsNothing
  BY InitCapacity DEF CapacityInv
<1>2. CircuitMatchesFailures
  BY PoolAssumption DEF PoolInit, CircuitMatchesFailures
<1>3. TrialHasOwner
  BY DEF PoolInit, TrialHasOwner
<1> QED
  BY <1>1, <1>2, <1>3 DEF CircuitInv

\* The account of the slots and the agreement of the circuits, in every state.
LEMMA CircuitInvariant == PoolSpec => [](CapacityInv /\ CircuitInv)
<1>1. PoolInit => CapacityInv /\ CircuitInv
  BY InitCapacity, InitCircuit
<1>2. (CapacityInv /\ CircuitInv) /\ [PoolNext]_poolVars => (CapacityInv /\ CircuitInv)'
  BY StepCapacity, StepCircuit
<1> QED
  BY <1>1, <1>2, PTL DEF PoolSpec

\* The flag that keeps a provider out never outlives the trial it stands for.
THEOREM TrialOwned == PoolSpec => []TrialHasOwner
<1>1. CircuitInv => TrialHasOwner
  BY DEF CircuitInv
<1> QED
  BY CircuitInvariant, <1>1, PTL

\* A circuit is open exactly while the failures since the last success reach the
\* threshold.
THEOREM CircuitCounts == PoolSpec => []CircuitMatchesFailures
<1>1. CircuitInv => CircuitMatchesFailures
  BY DEF CircuitInv
<1> QED
  BY CircuitInvariant, <1>1, PTL

-----------------------------------------------------------------------------
(* Wake-ups.  A step either notifies every blocked caller or makes no      *)
(* candidate fit that did not fit before; time is the exception, and there *)
(* the caller's timer runs out no later than the cooldown.                 *)

\* The step makes no provider fit, nor start to cool down, that did not before.
NothingGained ==
    \A p \in Providers : /\ Fits(p)' => Fits(p)
                         /\ CoolingDown(p)' => CoolingDown(p) /\ cooldown'[p] = cooldown[p]

\* What NoLostWakeup says of one sleeper and one candidate.
NothingToTake(c, p) == ~Fits(p) /\ (CoolingDown(p) => waiting[c].timer <= cooldown[p])

\* A blocked caller waits for providers.
LEMMA WantedProviders ==
    ASSUME PoolTypeOK, NEW c \in Callers, waiting[c] # NoWait
    PROVE  Wanted(c) \subseteq Providers
<1>1. waiting[c].specs \in SpecLists
  BY AwakeWaits
<1> QED
  BY <1>1, ListedProvider DEF Wanted

\* One caller runs; the others sleep on.
LEMMA OneRuns ==
    ASSUME PoolTypeOK, NoLostWakeup, NothingGained, NEW c \in Callers,
           \A d \in Callers \ {c} : waiting'[d] = waiting[d],
           Asleep(c)' => \A p \in Wanted(c)' : NothingToTake(c, p)'
    PROVE  NoLostWakeup'
<1> SUFFICES ASSUME NEW d \in Callers, Asleep(d)', NEW p \in Wanted(d)'
             PROVE  NothingToTake(d, p)'
  BY DEF NoLostWakeup, NothingToTake
<1>1. CASE d = c
  BY <1>1
<1>2. CASE d # c
  <2>1. waiting'[d] = waiting[d]
    BY <1>2
  <2>2. Asleep(d) /\ p \in Wanted(d)
    BY <2>1 DEF Asleep, Wanted
  <2>3. p \in Providers
    BY <2>2, WantedProviders DEF Asleep
  <2>4. NothingToTake(d, p)
    BY <2>2 DEF NoLostWakeup, NothingToTake
  <2> QED
    BY <2>1, <2>3, <2>4 DEF NothingGained, NothingToTake
<1> QED
  BY <1>1, <1>2

\* A grant makes no provider fit that did not.
LEMMA GrantGainsNothing ==
    ASSUME PoolTypeOK, NEW c \in Callers, NEW specs \in SpecLists, Grant(c, specs)
    PROVE  NothingGained
<1>1. PICK i \in DOMAIN specs :
         /\ inflight' = [inflight EXCEPT ![specs[i]] = @ + 1]
         /\ half_open_probe' = [half_open_probe EXCEPT
                                  ![specs[i]] = @ \/ circuit_open[specs[i]]]
  BY DEF Grant
<1>2. specs[i] \in Providers
  BY ListedProvider
<1>3. UNCHANGED <<health, circuit_open, cooldown>>
  BY DEF Grant, breaker
<1>4. ASSUME NEW p \in Providers
      PROVE  /\ half_open_probe[p] => half_open_probe'[p]
             /\ inflight'[p] < MaxInflight[p] => inflight[p] < MaxInflight[p]
  <2>1. half_open_probe[p] => half_open_probe'[p]
    BY <1>1, <1>2 DEF PoolTypeOK
  <2>2. inflight[p] \in Nat /\ MaxInflight[p] \in Nat /\ inflight'[p] \in {inflight[p], inflight[p] + 1}
    BY <1>1, <1>2, PoolAssumption DEF PoolTypeOK
  <2> QED
    BY <2>1, <2>2
<1> QED
  BY <1>3, <1>4 DEF NothingGained, Fits, Usable, CircuitAvailable, CoolingDown

\* A step that leaves the providers alone makes none fit.
LEMMA SameProvidersGainNothing ==
    ASSUME UNCHANGED <<health, inflight, circuit_open, cooldown, half_open_probe>>
    PROVE  NothingGained
BY DEF NothingGained, Fits, Usable, CircuitAvailable, CoolingDown

\* A caller that blocks has just scanned its candidates.
LEMMA BlockSleeps ==
    ASSUME PoolTypeOK, NoLostWakeup, NEW c \in Callers, NEW specs \in SpecLists,
           NEW remaining \in 0..AdmissionTimeout, Block(c, specs, remaining)
    PROVE  NoLostWakeup'
<1>1. PICK t \in 1..remaining :
         /\ \A i \in DOMAIN specs : CoolingDown(specs[i]) => t <= cooldown[specs[i]]
         /\ waiting' = [waiting EXCEPT ![c] = [specs |-> specs, left |-> remaining,
                                               timer |-> t, notified |-> FALSE]]
  BY DEF Block
<1>2. UNCHANGED <<health, inflight, circuit_open, cooldown, half_open_probe>>
  BY DEF Block, breaker
<1>3. NothingGained
  BY <1>2, SameProvidersGainNothing
<1>4. waiting'[c].specs = specs /\ waiting'[c].timer = t
  BY <1>1 DEF PoolTypeOK
<1>5. \A i \in DOMAIN specs : ~Fits(specs[i])
  BY DEF Block, AllFull
<1>6. \A p : Fits(p)' = Fits(p) /\ CoolingDown(p)' = CoolingDown(p) /\ cooldown'[p] = cooldown[p]
  BY <1>2 DEF Fits, Usable, CircuitAvailable, CoolingDown
<1>7. ASSUME NEW p \in Wanted(c)' PROVE NothingToTake(c, p)'
  <2>1. PICK i \in DOMAIN specs : p = specs[i]
    BY <1>4 DEF Wanted
  <2>2. ~Fits(p) /\ (CoolingDown(p) => t <= cooldown[p])
    BY <1>1, <1>5, <2>1
  <2> QED
    BY <1>4, <1>6, <2>2 DEF NothingToTake
<1>8. \A d \in Callers \ {c} : waiting'[d] = waiting[d]
  BY <1>1 DEF PoolTypeOK
<1> QED
  BY <1>3, <1>7, <1>8, OneRuns

\* A caller that returns from acquire is no longer asleep.
LEMMA LeaverSleepsNot ==
    ASSUME PoolTypeOK, NoLostWakeup, NothingGained, NEW c \in Callers,
           waiting' = [waiting EXCEPT ![c] = NoWait]
    PROVE  NoLostWakeup'
<1>1. \A d \in Callers \ {c} : waiting'[d] = waiting[d]
  BY DEF PoolTypeOK
<1>2. ~Asleep(c)'
  BY DEF Asleep, PoolTypeOK
<1> QED
  BY <1>1, <1>2, OneRuns

\* After notify_all nobody sleeps.
LEMMA NotifiedWakes ==
    ASSUME PoolTypeOK, waiting' = Notified
    PROVE  NoLostWakeup'
<1>1. ASSUME NEW c \in Callers, waiting'[c] # NoWait PROVE waiting'[c].notified
  <2>1. waiting[c] # NoWait
    BY <1>1 DEF Notified
  <2>2. waiting'[c] = [waiting[c] EXCEPT !.notified = TRUE]
    BY <2>1 DEF Notified
  <2> QED
    BY <2>1, <2>2, AwakeWaits DEF Wait
<1> QED
  BY <1>1 DEF NoLostWakeup, Asleep

\* A cooldown that ends expires the timer of every caller that waits for it.
LEMMA TickWakes ==
    ASSUME PoolTypeOK, NoLostWakeup, Tick
    PROVE  NoLostWakeup'
<1> SUFFICES ASSUME NEW c \in Callers, Asleep(c)', NEW p \in Wanted(c)'
             PROVE  NothingToTake(c, p)'
  BY DEF NoLostWakeup, NothingToTake
<1>1. waiting[c] # NoWait
  BY DEF Tick, Asleep
<1>2. waiting[c] \in Wait /\ waiting[c].timer \in 0..AdmissionTimeout
  BY <1>1, AwakeWaits
<1>3. waiting'[c] = [waiting[c] EXCEPT !.left = Minus1(@), !.timer = Minus1(@)]
  BY <1>1 DEF Tick
<1>4. /\ waiting'[c].specs = waiting[c].specs
      /\ waiting'[c].notified = waiting[c].notified
      /\ waiting'[c].timer = Minus1(waiting[c].timer)
  BY <1>2, <1>3 DEF Wait
<1>5. p \in Wanted(c) /\ p \in Providers
  BY <1>1, <1>4, WantedProviders DEF Wanted
<1>6. Asleep(c) /\ waiting'[c].timer = waiting[c].timer - 1
  BY <1>1, <1>2, <1>4, PoolAssumption DEF Asleep, Minus1
<1>7. ~Fits(p) /\ (CoolingDown(p) => waiting[c].timer <= cooldown[p])
  BY <1>5, <1>6 DEF NoLostWakeup
<1>8. /\ cooldown[p] \in 0..Cooldown
      /\ cooldown'[p] = Minus1(cooldown[p])
  BY <1>5 DEF PoolTypeOK, Tick
<1>9. UNCHANGED <<health, inflight, circuit_open, half_open_probe>>
  BY DEF Tick
<1>10. waiting'[c].timer > 0 /\ waiting[c].timer \in Nat
  BY <1>2, PoolAssumption DEF Asleep
<1>11. ~Fits(p)'
  <2> SUFFICES ASSUME Fits(p)' PROVE FALSE
    OBVIOUS
  <2>1. circuit_open[p] /\ cooldown'[p] = 0 /\ cooldown[p] # 0 /\ health[p] = "healthy"
    BY <1>7, <1>9 DEF Fits, Usable, CircuitAvailable
  <2>2. cooldown[p] = 1
    BY <1>8, <2>1, PoolAssumption DEF Minus1
  <2> QED
    BY <1>6, <1>7, <1>10, <2>1, <2>2 DEF CoolingDown
<1>12. CoolingDown(p)' => waiting'[c].timer <= cooldown'[p]
  <2> SUFFICES ASSUME CoolingDown(p)' PROVE waiting'[c].timer <= cooldown'[p]
    OBVIOUS
  <2>1. cooldown[p] > 0 /\ cooldown'[p] = cooldown[p] - 1
    BY <1>8, PoolAssumption DEF CoolingDown, Minus1
  <2>2. CoolingDown(p)
    BY <1>9, <2>1 DEF CoolingDown
  <2> QED
    BY <1>6, <1>7, <1>8, <1>10, <2>1, <2>2, PoolAssumption
<1> QED
  BY <1>11, <1>12 DEF NothingToTake

\* Every step of the pool keeps sleepers without anything to take.
LEMMA StepWakeup == PoolTypeOK /\ NoLostWakeup /\ [PoolNext]_poolVars => NoLostWakeup'
<1> SUFFICES ASSUME PoolTypeOK, NoLostWakeup, [PoolNext]_poolVars PROVE NoLostWakeup'
  OBVIOUS
<1>1. ASSUME NEW c \in Callers, CallerStep(c) PROVE NoLostWakeup'
  <2>1. ASSUME NEW specs \in SpecLists, Grant(c, specs) PROVE NoLostWakeup'
    BY <2>1, GrantGainsNothing, LeaverSleepsNot DEF Grant
  <2>2. ASSUME NEW specs, RaiseNoHealthy(c, specs) PROVE NoLostWakeup'
    <3>1. NothingGained
      BY <2>2, SameProvidersGainNothing DEF RaiseNoHealthy, breaker
    <3> QED
      BY <2>2, <3>1, LeaverSleepsNot DEF RaiseNoHealthy
  <2>3. ASSUME NEW specs \in SpecLists, AcquireBlock(c, specs) PROVE NoLostWakeup'
    <3>1. AdmissionTimeout \in 0..AdmissionTimeout
      BY PoolAssumption
    <3> QED
      BY <2>3, <3>1, BlockSleeps DEF AcquireBlock
  <2>4. CASE RecheckGrant(c)
    BY <2>1, <2>4, AwakeWaits DEF RecheckGrant, Awake
  <2>5. CASE RecheckNoHealthy(c)
    BY <2>2, <2>5 DEF RecheckNoHealthy
  <2>6. CASE RecheckBlock(c)
    BY <2>6, AwakeWaits, BlockSleeps DEF RecheckBlock, Awake
  <2>7. CASE AdmissionExpires(c)
    <3>1. NothingGained
      BY <2>7, SameProvidersGainNothing DEF AdmissionExpires, breaker
    <3> QED
      BY <2>7, <3>1, LeaverSleepsNot DEF AdmissionExpires
  <2>8. CASE AdmissionCancelled(c)
    <3>1. NothingGained
      BY <2>8, SameProvidersGainNothing DEF AdmissionCancelled, breaker
    <3> QED
      BY <2>8, <3>1, LeaverSleepsNot DEF AdmissionCancelled
  <2>9. CASE Release(c)
    BY <2>9, NotifiedWakes DEF Release
  <2>10. CASE RecordSuccess(c)
    BY <2>10, NotifiedWakes DEF RecordSuccess
  <2>11. CASE RecordFailure(c)
    BY <2>11, NotifiedWakes DEF RecordFailure
  <2> QED
    BY <1>1, <2>1, <2>2, <2>3, <2>4, <2>5, <2>6, <2>7, <2>8, <2>9, <2>10, <2>11
       DEF CallerStep, AcquireGrant, AcquireNoHealthy
<1>2. ASSUME NEW p \in Providers, NEW healthy \in BOOLEAN, Probe(p, healthy)
      PROVE  NoLostWakeup'
  <2>1. CASE health'[p] # health[p]
    BY <1>2, <2>1, NotifiedWakes DEF Probe
  <2>2. CASE health'[p] = health[p]
    <3>1. health' = health /\ waiting' = waiting
      BY <1>2, <2>2 DEF Probe, PoolTypeOK
    <3>2. UNCHANGED <<inflight, circuit_open, cooldown, half_open_probe>>
      BY <1>2 DEF Probe
    <3>3. \A q : Fits(q)' = Fits(q) /\ CoolingDown(q)' = CoolingDown(q)
      BY <3>1, <3>2 DEF Fits, Usable, CircuitAvailable, CoolingDown
    <3> QED
      BY <3>1, <3>2, <3>3 DEF NoLostWakeup, Asleep, Wanted
  <2> QED
    BY <2>1, <2>2
<1>3. CASE Tick
  BY <1>3, TickWakes
<1>4. CASE UNCHANGED poolVars
  BY <1>4 DEF poolVars, breaker, NoLostWakeup, Asleep, Wanted, Fits, Usable,
             CircuitAvailable, CoolingDown
<1> QED
  BY <1>1, <1>2, <1>3, <1>4 DEF PoolNext

\* No caller sleeps beside a slot it could take, at any time.
THEOREM WakeupSafe == PoolSpec => []NoLostWakeup
<1>1. PoolInit => NoLostWakeup
  BY DEF PoolInit, NoLostWakeup, Asleep
<1>2. (PoolTypeOK /\ NoLostWakeup) /\ [PoolNext]_poolVars => NoLostWakeup'
  BY StepWakeup
<1> QED
  BY <1>1, <1>2, TypeCorrect, PTL DEF PoolSpec
=============================================================================
