\* One check-in, the scheduled task beside a command, two faults, both cases of
\* the data read back.
CONSTANTS
    PollProcs = {p1}
    Cron = cron
    MaxOrders = 2
    MaxFaults = 2
    DataKept = {TRUE, FALSE}
SPECIFICATION FairSpec
INVARIANTS
    TypeOK
    OrderedOnce
    DoneMeansPaid
    PaidNeedsSuccess
    EachStrandedIsAFault
PROPERTIES
    InProgressEnds
    AttendedEnds
CHECK_DEADLOCK FALSE
