SPECIFICATION UtxoFairSpec
CONSTANTS
    Callers = {c1}
    MaxSessions = 2
    MaxCancels = 2
    MaxRescans = 1
    Restored = TRUE
INVARIANTS
    FlagsTellWhatRuns
    StopsAreAttended
PROPERTIES
    SwitchIsEnabledAgain
    CancelledSessionEnds
\* The system stops when the bounds are reached.
CHECK_DEADLOCK FALSE
