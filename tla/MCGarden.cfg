SPECIFICATION Spec
CONSTANTS
    u1 = u1
    u2 = u2
    d1 = d1
    d2 = d2
    tDOGE = tDOGE
    tdoge = tdoge
    tPEPE = tPEPE
    atom = atom
    ntrn = ntrn
    Users = {u1, u2}
    Garden = Garden
    None = None
    Tickers <- MCTickers
    Denoms = {d1, d2}
    DenomOf <- MCDenomOf
    NativeDenoms = {atom, ntrn}
    Urls = {}
    InstantiateMsgs <- MCMsgs
    Wallets <- MCWallets
    Supplies = {0, 1, 2}
    Payments = {1, 200, 400, 1000}
    Extras = {0, 400}
    Micro = 1000000
    U64Max = 4
    U128Max = 1000000
    DexAcceptsEmptySide = FALSE
    BankAcceptsZero = FALSE
INVARIANTS
    TypeOK
    SubmissionsAddUp
    EscrowBacksPresales
    ClaimsBacked
    PaidProRata
    OnlyDustStays
    LaunchPairsRaise
    FundsNeverStuck
    Inductive
PROPERTIES
    LaunchFreezesPresale
    NoTakeover
    ImplementsLedger
CHECK_DEADLOCK FALSE
