SPECIFICATION FairContentSpec
CONSTANTS
    r1 = r1
    ingest = ingest
    consumer = consumer
    reconciler = reconciler
    nobody = nobody
    Kinds = {"document"}
    Requests <- NoRequest
    Ops <- AllOps
    Ingest <- ingest
    Consumer <- consumer
    Reconciler <- reconciler
    Nobody <- nobody
    MaxRetries = 1
    MaxFaults = 0
INVARIANT FailureIsFinal
CHECK_DEADLOCK FALSE
