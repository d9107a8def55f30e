SPECIFICATION FairChatSpec
CONSTANTS
    gpu = gpu
    codex = codex
    Providers <- MCProviders
    Unprobed <- MCUnprobed
    MaxInflight <- MCMaxInflight
    SpecLists <- MCSpecLists
    Route <- MCRoute
    Remote <- MCRemote
    MinLevel <- MCMinLevel
    MaxLevel <- MCMaxLevel
    Requests <- MCRequests
    Codex = codex
    HighLevel = 1
    Callers = {r1, r2}
    FailureThreshold = 1
    Cooldown = 1
    AdmissionTimeout = 1
    NoLease = NoLease
    NoWait = NoWait
INVARIANTS
    ChatTypeOK
    NoSecondTry
    ScopeRespected
    NoSlotLeft
    AnswerExplained
PROPERTIES
    OnlyFailuresCount
    ImplementsPool
    EveryRequestAnswered
