SPECIFICATION FairStreamSpec
CONSTANTS
    Clients = {c1}
    Attempts = 2
    MaxRuns = 2
    MaxTokens = 2
    MaxFaults = 3
INVARIANTS
    StreamTypeOK
    AnswerIsStored
    ShownInOrder
    ErrorExplained
PROPERTIES
    StreamSettles
CHECK_DEADLOCK FALSE
