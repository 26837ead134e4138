CONSTANTS
    Editions <- MCEditions
    Refers <- MCRefers
    MaxRuns = 6
    MaxEdits = 1
    MaxCrashes = 0
    MaxFaults = 0
    PersistEvery = 2
    Concurrency = 2
    MaxClauses = 2
    MaxSplit = 1
    Threshold = 2
    HasFallback = TRUE
    IngestOptions <- StaleIngestOptions
    StructureOptions <- StaleStructureOptions
    EntityOptions <- StaleEntityOptions
SPECIFICATION Spec
INVARIANT MentionsFit
CHECK_DEADLOCK FALSE
