CONSTANTS
    Callers = {c1}
    Ops = {"sync", "cancel", "restart", "reports"}
    Readers = {r1}
    MaxSessions = 2
    MaxUsages = 0
    MaxTickers = 1
    SyncerStages = {"discovery"}
    NoData = NoData
SPECIFICATION FairSpec
INVARIANTS
    OnlyObserversCrash
    FlagsHaveASession
    ListenersAgree
    AwaitedSessionIsCancelled
PROPERTIES
    SessionsAreAService
    CancelledSessionsEnd
    NoTickerOutlivesSync
CHECK_DEADLOCK FALSE
