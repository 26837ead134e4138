CONSTANTS
    Editions <- MCEditions
    Refers <- MCRefers
    MaxRuns = 3
    MaxEdits = 1
    MaxCrashes = 1
    MaxFaults = 1
    PersistEvery = 2
    Concurrency = 2
    MaxClauses = 2
    MaxSplit = 1
    Threshold = 2
    HasFallback = TRUE
    IngestOptions <- MCIngestOptions
    StructureOptions <- MCStructureOptions
    EntityOptions <- MCEntityOptions
SPECIFICATION Spec
INVARIANTS  OkIsWhole CircuitBounds
CHECK_DEADLOCK FALSE
