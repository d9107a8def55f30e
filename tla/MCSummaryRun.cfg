SPECIFICATION FairSummarySpec
CONSTANTS
    r1 = r1
    r2 = r2
    NoRun = NoRun
    NoState = NoState
    Runs <- TwoRuns
    Concurrency = 1
    MaxRounds = 2
    MaxSections = 2
    MaxFaults = 1
INVARIANTS
    SummaryTypeOK
    StoresLocked
    SectionsOfOneOutline
PROPERTIES
    SuccessKept
    LockReturned
CHECK_DEADLOCK FALSE
