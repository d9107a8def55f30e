SPECIFICATION FairPoolSpec
CONSTANTS
    gpu = gpu
    codex = codex
    Providers <- MCProviders
    Unprobed <- MCUnprobed
    MaxInflight <- MCMaxInflight
    SpecLists <- MCSpecLists
    Callers = {c1, c2, c3}
    FailureThreshold = 2
    Cooldown = 2
    AdmissionTimeout = 2
    NoLease = NoLease
    NoWait = NoWait
INVARIANTS
    PoolTypeOK
    CapacityAccounted
    TrialHasOwner
    CircuitMatchesFailures
    NoLostWakeup
PROPERTIES
    AdmissionResolves
