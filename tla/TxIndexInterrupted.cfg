CONSTANTS
    Rescanners = {r1}
    Syncs = {s1}
    RescanHeights = {}
    MaxReOrgBlocks = 1
    MaxHeight = 3
    MaxForks = 0
    MaxKills = 0
    Interrupts = TRUE
SPECIFICATION IndexSpec
INVARIANTS
    IndexedBelowStart
CHECK_DEADLOCK FALSE
