SPECIFICATION RecordsSpec
CONSTANTS
    MaxWallets = 1
    Utxo = {}
    Names = {n1}
    Passphrases = {p1, p2}
    Zeros = Zeros
    NoWallet = NoWallet
    NoVault = NoVault
    NoSeal = NoSeal
    MaxFailures = 1
    MaxRestarts = 0
INVARIANT SeedIsReencrypted
CHECK_DEADLOCK FALSE
