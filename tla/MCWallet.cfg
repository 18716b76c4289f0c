SPECIFICATION Spec
CONSTANTS
    KeplrAccounts = {a1, a2}
    NoAccount = NoAccount
    Refusal = Refusal
    Coins = {c1}
    MaxConnects = 3
    MaxDisconnects = 2
    MaxSwitches = 2
    MaxCalls = 2
INVARIANTS
    PathNamesTheWallet
    WalletFollowsKeplr
    FlagsStandForCalls
CHECK_DEADLOCK FALSE
