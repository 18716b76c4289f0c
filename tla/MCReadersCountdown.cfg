SPECIFICATION Spec
CONSTANTS
    u1 = u1
    u2 = u2
    d1 = d1
    d2 = d2
    tDOGE = tDOGE
    tPEPE = tPEPE
    atom = atom
    ntrn = ntrn
    one = one
    Users = {u1, u2}
    Garden = Garden
    None = None
    Tickers = {tDOGE, tPEPE}
    Denoms = {d1, d2}
    DenomOf <- MCDenomOf
    NameOf <- MCNameOf
    DigitsOf <- MCDigitsOf
    NativeDenoms = {atom, ntrn}
    Urls = {one}
    InstantiateMsgs <- MCMsgs
    Wallets <- MCWallets
    Supplies = {1}
    Payments = {200, 600, 1300}
    Extras = {0}
    Micro = 10
    U64Max = 3
    U128Max = 60000
    DexAcceptsEmptySide = FALSE
    BankAcceptsZero = FALSE
    Pages = {None, 0, 1, 2}
    Limits = {None, 0, 1, 2, 3}
INVARIANT
    CountdownsWithinLength
CHECK_DEADLOCK FALSE
