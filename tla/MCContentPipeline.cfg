SPECIFICATION ContentSpec
CONSTANTS
    r1 = r1
    ingest = ingest
    consumer = consumer
    reconciler = reconciler
    nobody = nobody
    Kinds = {"audio", "document"}
    Requests <- OneRequest
    Ops <- AllOps
    Ingest <- ingest
    Consumer <- consumer
    Reconciler <- reconciler
    Nobody <- nobody
    MaxRetries = 0
    MaxFaults = 1
INVARIANTS
    ContentTypeOK
    AckedResultKept
    GeneratorsExclude
    TextBeforeSummary
    SummarizingOwned
CHECK_DEADLOCK FALSE
