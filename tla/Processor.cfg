SPECIFICATION Spec
CONSTANTS
    Listings <- PipeSamples
    MaxRetries = 1
    Window = 2
    MinHistory = 2
    StreamLimit = 1
    MaxMessages = 2
    MaxFaults = 1
    Prefetch = 1
    ReadBatch = 1
    PipeBatch = 2
    Titles = {"t"}
    DollarPrices = {2, 9}
    MinListings = 1
    MaxWrites = 3
    MaxLost = 1
    CandidateLists <- Lists
    Queries <- Asked
    Shelves <- Shelved
INVARIANTS LatestWins CountedOnce MatchSound
PROPERTIES AckedIsKept ShutdownEnds OffOnlyWhenStale
CHECK_DEADLOCK FALSE
