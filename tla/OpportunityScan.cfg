SPECIFICATION FairSpec
CONSTANTS
    Listings = {"b1", "x1", "x2"}
    Products = {"p"}
    Markets = {"buy", "sell"}
    ProductOf <- OneProduct
    MarketOf <- TwoMarkets
    Routes <- BothWays
    AutoScans = {auto}
    PostScans = {post}
    Ageing = {"b1", "x1"}
    BatchSize = 1
    MaxRows = 2
INVARIANT OneActivePerDirection
PROPERTY ExpiredIsFinal
PROPERTY HangsOnlyOnExpiry
