SPECIFICATION EnginesSpec
CONSTANTS
    t1 = t1
    t2 = t2
    o1 = o1
    None = None
    Tasks <- TwoTasks
    Opps = {o1}
    Costs = {1}
    MaxExposure = 2
    MaxSingle = 1
    MaxDaily = 1
    AutoMax = 1
    MaxOrders = 4
    MaxCalls = 4
    Simulated = {2}

    Goods = {"a1", "c1", "m1", "m2", "m3"}
    About <- PhoneAndCase
    PricesOf <- PhonePrices
    ScrapedAt <- PhoneAges
    Analyses = {1, 2}
    Rescraped = {"c1", "m1"}
    FetchedRates <- SomeRates
    RatesTTL = 1
    Strictnesses <- OneMode
    Ledgers <- TenTrades
    Stale = 3
    MaxAge = 1
    Window = 1
    MaxTime = 2
    MaxEvents = 2

    Offered <- TwoOffers
    Inbox <- TwoInboxes
    Forecasted <- Rises
    Trending <- MayBreakOut
    Attempts = 2
    Parallel = 2
    MaxCrashes = 1
    TotalCapital = 8000
    MaxRisk = 70
    MaxPositions = 2
    MaxPerProduct = 2
    MaxPerMarketplace = 2

    Trades = {"x", "y"}
    OldTrades = {"x"}
    Hooks = {"first", "second"}
    MaxHooks = 3
    MaxAdaptations = 2
SYMMETRY TaskSymmetry
INVARIANT BlockedStaysBlocked
INVARIANT ExposureBounded
INVARIANT DuplicatesBounded
INVARIANT ExecutedWasPlaced
INVARIANT EnginesSound
INVARIANT RulesSound
PROPERTY ResolvedNotBoughtAgain
CHECK_DEADLOCK FALSE
