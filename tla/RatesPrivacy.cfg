SPECIFICATION RatesSpec
CONSTANTS
    RateSources <- MCSources
    InitialSources = {"Binance"}
    Markets = {m1, m2}
    MaxJobs = 2
PROPERTY PrivacyStopsRefreshes
CHECK_DEADLOCK FALSE
