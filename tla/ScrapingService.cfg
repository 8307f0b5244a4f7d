SPECIFICATION ScrapingSpec
CONSTANTS
    x = x
    ml = ml
    Workers = {w1, w2, w3}
    Markets = {ml}
    TaskCount = 4
    MarketOf <- MCMarketOf
    PageOf <- MCPageOf
    EmptyLimit = 0
    FailureThreshold = 1
    HalfOpenMaxCalls = 1
    SuccessThreshold = 2
    MaxPerMarket = 2
    MaxTotal = 3
    PublishBatchSize = 2
    MaxCycles = 1
    MaxFaults = 1
    l1 = l1
    l2 = l2
    Listings = {l1, l2}
    Crawled <- TwoCrawls
    ChunkSize = 2
    Concurrency = 2
    WalMax = 0
    DedupTtl = 1
    MaxScrapeCycles = 2
    MaxScrapeFaults = 4
    h1 = h1
    h2 = h2
    Crawlers = {h1, h2}
    Kinds <- KindsOf
    Site <- TwoPages
    MaxPages = 2
    ProxyCount = 2
    MaxFails = 1
    CooldownTime = 2
    MaxRetries = 2
    PerSession = 2
    MaxTrouble = 2
    m1 = m1
    m2 = m2
    StageMsgs <- TwoMessages
    BatchSize = 2
    StageRetries = 1
    MaxStageFaults = 3
    TaskKeys = {k1}
    Callers = {s1, s2}
    TaskWorkers = {t1, t2}
    TaskRetries = 1
    MaxTaskFaults = 2
    MaxScheduled = 3
    Categories = {"phones", "toys"}
    Yields = {5}
    Reports <- OneReport
    BasePages = 4
    MinPages = 3
    MostPages = 6
    Sites <- TwoSites
    Offers <- OffersOf
    DefaultPages = 5
    Terms = {"tv", "ps5"}
    Trending <- TrendingOf
    Budget = 12
    MaxScrapes = 1
    MaxRounds = 2
    Fetchers = {f1, f2}
    Unit = 2
    Burst = 1
    MinRate = 1
    DefaultRate = 2
    MaxRate = 4
    RecoverAfter = 1
    BlockWindow = 1
    PoolProxies = {"us", "eu"}
    Preferred = {"us"}
    MaxFailures = 2
    ProxyCooldown = 1
    MaxContexts = 3
    MaxLost = 1
    MaxPagesPerContext = 1
    ContextTtl = 1
    MaxTime = 2
    MaxFetches = 3
INVARIANTS CircuitNotStuck SlotsConserved ListingsKept CycleDrains QueuesSound ScrapersSound
PROPERTIES CycleEnds ScrapersGuarded
