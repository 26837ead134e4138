CONSTANTS
    Chunks = {1, 2, 3, 4, 5}
    ClauseOf <- MCClauseOf
    DocumentOf <- MCDocumentOf
    Bridge <- MCBridge
    Candidates = 3
    SeedTop = 2
    NeighborsPerSeed = 1
    MaxNeighbors = 2
    PrefusionTop = 2
    MaxPerDocument = 1
    OverflowTop = 1
    TopK = 2
    RrfK = 60
SPECIFICATION Spec
INVARIANTS EvidenceDistinct 
CHECK_DEADLOCK FALSE
