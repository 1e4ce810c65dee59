CONSTANTS
    OldWallets = {w1}
    NewWallets = {w2}
    Syncing = {w1}
    Jobs = {j1}
SPECIFICATION FairSpec
INVARIANTS
    IndexHasItsDatabases
    ManagerClosesLast
    ShutdownsAreAnswered
PROPERTIES
    OnlyStrandedQuitsHang
CHECK_DEADLOCK FALSE
