CONSTANTS
    OldWallets = {w1}
    NewWallets = {}
    Syncing = {}
    Jobs = {}
SPECIFICATION FairSpec
PROPERTY QuitEnds
CHECK_DEADLOCK FALSE
