SPECIFICATION FairAgentSpec
CONSTANTS
    Messages = {m1, m2}
    Workers = {w1}
    Flushed = {FALSE}
    MaxDeliveries = 1
    MaxFaults = 1
    NoJob = NoJob
    NoMessage = NoMessage
INVARIANTS
    NoAnswerLost
PROPERTIES
    EveryTurnSettles
CHECK_DEADLOCK FALSE
