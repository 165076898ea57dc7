\* Two attempts to pay, a command beside the scheduled task, one fault.
CONSTANTS
    PollProcs = {p1}
    Cron = cron
    MaxAttempts = 2
    MaxFaults = 1
SPECIFICATION FairSpec
INVARIANTS
    TypeOK
    AppliedOnce
    PaidNeedsSuccess
    EachLossIsAFault
    SuccessIsPaid
    ChargedOnce
PROPERTIES
    FinishedForGood
    ImplementsOrderPayment
    RowsFinish
    ResultReachesOrder
CHECK_DEADLOCK FALSE
