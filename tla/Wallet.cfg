SPECIFICATION MCWalletSpec
CONSTANTS
    MaxProposalSyncs = 2
    MaxProposals = 2
    ProposalListPageSize = 1
    MaxServerEvents = 1
    MaxViews = 1
    MaxBuyers = 2
    StakeDiffWindowSize = 4
    MaxTip = 6
    MaxFunds = 2
    TicketReserve = 1
    MaxMixers = 2
    MixerStoppers = {switch, listener}
INVARIANTS
    MCWalletTypeOK
    OneProposalSync
    BuyerIsReachable
    MixerIsReachable
PROPERTIES
    CompletedProposalSyncIsFresh
    StoppedProposalSyncEnds
    PurchaseFitsItsInterval
    NoPurchaseAtAnOldPrice
    SwitchTellsTheTruth
\* A service stops when it has done what the bounds allow.
CHECK_DEADLOCK FALSE
