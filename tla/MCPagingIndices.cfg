SPECIFICATION Spec
CONSTANTS
    u1 = u1
    d1 = d1
    d2 = d2
    d3 = d3
    t1 = t1
    t2 = t2
    t3 = t3
    atom = atom
    Users = {u1}
    Garden = Garden
    None = None
    Tickers = {t1, t2, t3}
    Denoms = {d1, d2, d3}
    DenomOf <- MCDenomOf
    NativeDenoms = {atom}
    Urls = {}
    InstantiateMsgs <- MCMsgs
    Wallets <- MCWallets
    Supplies = {1}
    Payments = {1}
    Extras = {0}
    Micro = 2
    U64Max = 6
    U128Max = 1000
    DexAcceptsEmptySide = FALSE
    BankAcceptsZero = FALSE
    Pages = {None, 0, 1, 2, 3}
    Limits = {None, 0, 1, 2, 3, 6}
INVARIANT
    IndicesAreValid
CHECK_DEADLOCK FALSE
