SPECIFICATION Spec
CONSTANTS
    x = x
    ml = ml
    Workers = {w1, w2}
    Markets = {ml}
    TaskCount = 4
    MarketOf <- MCMarketOf
    PageOf <- MCPageOf
    EmptyLimit = 0
    FailureThreshold = 1
    HalfOpenMaxCalls = 1
    SuccessThreshold = 2
    MaxPerMarket = 2
    MaxTotal = 2
    PublishBatchSize = 2
    MaxCycles = 1
    MaxFaults = 0
INVARIANTS OnlyNewListings
