SPECIFICATION FairSpec
CONSTANTS
    Listings <- Samples
    MaxRetries = 1
    BatchSize = 2
    Window = 2
    MinHistory = 2
    HistoryRead = 3
    MinCluster = 1
    StreamLimit = 1
    MaxMessages = 3
    MaxFaults = 1
INVARIANT TypeOK
INVARIANT RetriesBounded
PROPERTY DeliversAtLeastOnce
PROPERTY DeadStaysDead
PROPERTY OlderOnlyWhenRedelivered
PROPERTY RetriesSettle
