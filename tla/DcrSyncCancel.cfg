CONSTANTS
    Callers = {c1}
    Ops = {"sync", "cancel", "restart"}
    Readers = {}
    MaxSessions = 2
    MaxUsages = 0
    MaxTickers = 1
    SyncerStages = {"cfilters", "headers", "discovery", "rescan"}
    NoData = NoData
SPECIFICATION Spec
INVARIANTS
    CancelSyncIsNotified
CHECK_DEADLOCK FALSE
