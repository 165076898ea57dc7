\* A payment after the handlers were renamed leaves no row.
CONSTANTS
    t1 = t1
    t2 = t2
    chf = chf
    eur = eur
    Txs = {t1, t2}
    Currencies = {chf, eur}
    CurrencyOf <- TwoCurrencies
    Store = TRUE
    MaxPaid = 1
    MaxRefunds = 1
    MaxRejected = 1
    MaxCrashes = 0
SPECIFICATION Spec
PROPERTY PaymentsLeaveRows
CHECK_DEADLOCK FALSE
