SPECIFICATION Spec
CONSTANTS
    Listings <- TwoPrices
    MaxRetries = 1
    BatchSize = 2
    Window = 2
    MinHistory = 3
    HistoryRead = 3
    MinCluster = 3
    StreamLimit = 2
    MaxMessages = 2
    MaxFaults = 0
PROPERTY PricesDoNotGoBack
