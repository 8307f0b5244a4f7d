SPECIFICATION Spec
CONSTANTS
    o1 = o1
    o2 = o2
    s1 = s1
    s2 = s2
    None = None
    Opps <- TwoOpps
    Sessions = {s1, s2}
    Scale <- MCScale
    Initial <- MCInitial
    Config <- Aggressive
    ProductOf <- OwnProduct
    MarketplaceOf <- OneMarketplace
    CategoryOf <- NoCategory
    DayLength = 2
    Weights <- MCWeights
    RequiredAmounts <- MCRequired
    Profits <- MCProfits
    MaxRequests = 3
    MaxTime = 1
INVARIANT AllocatedIsOpenRows
CHECK_DEADLOCK FALSE
