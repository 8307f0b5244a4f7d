SPECIFICATION CapitalSpec
CONSTANTS
    o1 = o1
    o2 = o2
    s1 = s1
    s2 = s2
    None = None
    Opps <- TwoOpps
    Sessions = {s1, s2}
    Scale <- MCScale
    Initial <- MCInitial
    Config <- Aggressive
    ProductOf <- OwnProduct
    MarketplaceOf <- OneMarketplace
    CategoryOf <- NoCategory
    DayLength = 2
    Weights <- MCWeights
    RequiredAmounts <- MCRequired
    Profits <- MCProfits
    MaxRequests = 3
    MaxTime = 1
    Manager <- ManagerDefaults
    Batches <- TwoOffers
    Outcomes <- WinsAndLosses
    MaxBatches = 3
    MaxClock = 3
    Emitted = {1, 2}
    Predicted <- Dollars
    Observed <- Kept
    MaxTracked = 2
    MinFeedback = 2
    MaxHistory = 3
    ManualValues <- ByHand
    MaxRecords = 3
    MaxVersions = 3
INVARIANT CapitalCovered
INVARIANT OpenRowsFunded
INVARIANT TradesAreClosedRows
PROPERTY InsertionsKeepShares
PROPERTY NoAllocationWhenHalted
INVARIANT TradesSpaced
INVARIANT HistorySound
PROPERTY StoppedStaysStopped
PROPERTY LoopGuarded
PROPERTY CallsReturn
CHECK_DEADLOCK FALSE
