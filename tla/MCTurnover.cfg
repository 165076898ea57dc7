\* A transaction paid twice, two refunds, two rejected requests and a crash, in
\* the one currency TWINT takes.
CONSTANTS
    t1 = t1
    t2 = t2
    chf = chf
    eur = eur
    Txs = {t1}
    Currencies = {chf}
    CurrencyOf <- OneCurrency
    Store = TRUE
    MaxPaid = 2
    MaxRefunds = 2
    MaxRejected = 2
    MaxCrashes = 1
SPECIFICATION FairSpec
INVARIANTS
    TypeOK
    ReportedOnce
PROPERTY RowsLeave
CHECK_DEADLOCK FALSE
