SPECIFICATION AgentSpec
CONSTANTS
    Messages = {m1}
    Workers = {w1, w2}
    Flushed = {TRUE, FALSE}
    MaxDeliveries = 2
    MaxFaults = 2
    NoJob = NoJob
    NoMessage = NoMessage
SYMMETRY AgentSymmetry
INVARIANTS
    AgentTypeOK
    RunsExclusive
    OneFaultSurvived
PROPERTIES
    ImplementsLifecycle
CHECK_DEADLOCK FALSE
