SPECIFICATION PromptAgentSpec
CONSTANTS
    Messages = {m1}
    Workers = {w1}
    Flushed = {FALSE}
    MaxDeliveries = 1
    MaxFaults = 1
    NoJob = NoJob
    NoMessage = NoMessage
PROPERTIES
    QueuedRepublished
CHECK_DEADLOCK FALSE
