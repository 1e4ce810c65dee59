SPECIFICATION MCSafetySpec
CONSTANTS
    Callers = {c1, c2}
    Ops = {"sync", "discover", "badPeers"}
    Readers = {}
    MaxSessions = 2
    MaxUsages = 1
    MaxTickers = 1
    SyncerStages = {"cfilters", "headers", "discovery", "rescan"}
    NoData = NoData
    Rescanners = {r1}
    Syncs = {s1}
    RescanHeights = {0, 3}
    MaxReOrgBlocks = 1
    MaxHeight = 3
    MaxForks = 1
    MaxKills = 1
    Interrupts = TRUE
    MaxWallets = 2
    Utxo = {2}
    Names = {n1, n2}
    Passphrases = {p1, p2}
    Zeros = Zeros
    NoWallet = NoWallet
    NoVault = NoVault
    NoSeal = NoSeal
    MaxFailures = 2
    MaxRestarts = 2
SYMMETRY CallerSymmetry
INVARIANTS
    MCSafetyTypeOK
    DiscoveryClosedOnce
    QuiescentIsReset
    OnlyExcusedGaps
    SeedFollowsPassphrase
    RecordsAreCurrent
    WalletsAreKept
    DeletedStaysDeleted
\* The user may have nothing left to do.
CHECK_DEADLOCK FALSE
