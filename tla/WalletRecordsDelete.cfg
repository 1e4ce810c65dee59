SPECIFICATION RecordsSpec
CONSTANTS
    MaxWallets = 1
    Utxo = {1}
    Names = {n1}
    Passphrases = {p1}
    Zeros = Zeros
    NoWallet = NoWallet
    NoVault = NoVault
    NoSeal = NoSeal
    MaxFailures = 0
    MaxRestarts = 0
INVARIANT EveryDeletionLasts
CHECK_DEADLOCK FALSE
