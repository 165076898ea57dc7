\* Two currencies, a request rejected for one kind: the rows of the other kind
\* are kept.
CONSTANTS
    t1 = t1
    t2 = t2
    chf = chf
    eur = eur
    Txs = {t1, t2}
    Currencies = {chf, eur}
    CurrencyOf <- TwoCurrencies
    Store = TRUE
    MaxPaid = 1
    MaxRefunds = 1
    MaxRejected = 1
    MaxCrashes = 0
SPECIFICATION Spec
INVARIANT NothingLost
CHECK_DEADLOCK FALSE
