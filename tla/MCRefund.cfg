\* Three administrators refund an order of three units, with one fault; the
\* sum of no rows is null.
CONSTANTS
    Admins = {a1, a2, a3}
    Amount = 3
    EmptySum <- NoSum
    MaxFaults = 1
SPECIFICATION Spec
SYMMETRY Symmetry
INVARIANTS
    HistoryIsComplete
    StateTellsRefunds
    AskedOneByOne
CHECK_DEADLOCK FALSE
