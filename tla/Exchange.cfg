SPECIFICATION MCExchangeSpec
CONSTANTS
    MaxSchedulers = 2
    MaxBalance = 3
    BalanceToMaintain = 2
    MaxTxFee = 1
    ServerMaxima = {1, 2}
    MaxSpends = 1
    MaxSyncs = 2
    MaxOrders = 2
    OrdersAtStart = 1
    LegacyOrders = {1}
    OddServer = o1
    EvenServer = o2
    MaxStatus = 1
    MaxEvents = 2
    PageLimit = 1
    MaxSyncRetries = 2
    MaxJobs = 2
    InitialSources = {"Binance"}
    Markets = {m1, m2}
    RateSources <- MCRateSources
INVARIANTS
    MCExchangeTypeOK
    SchedulerIsReachable
    OrdersSpareTheBalance
    QuietCacheIsCurrent
PROPERTIES
    StoppedSchedulersEnd
    ImplementsService
    CompletedSyncIsFresh
    RefreshesEnd
\* A service stops when it has done what the bounds allow.
CHECK_DEADLOCK FALSE
