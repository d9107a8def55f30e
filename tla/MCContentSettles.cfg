SPECIFICATION FairContentSpec
CONSTANTS
    r1 = r1
    ingest = ingest
    consumer = consumer
    reconciler = reconciler
    nobody = nobody
    Kinds = {"audio"}
    Requests <- OneRequest
    Ops <- SummaryOps
    Ingest <- ingest
    Consumer <- consumer
    Reconciler <- reconciler
    Nobody <- nobody
    MaxRetries = 1
    MaxFaults = 1
PROPERTY FilesSettle
CHECK_DEADLOCK FALSE
