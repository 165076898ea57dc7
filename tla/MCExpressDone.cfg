\* Two commands, no fault: a done row is cancelled by the slower one.
CONSTANTS
    PollProcs = {p1, p2}
    Cron = cron
    MaxOrders = 1
    MaxFaults = 0
    DataKept = {TRUE}
SPECIFICATION Spec
SYMMETRY Symmetry
PROPERTY DoneForGood
CHECK_DEADLOCK FALSE
