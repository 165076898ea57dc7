\* Two check-ins from one page, up to three questions each, an error.
CONSTANTS
    MaxCheckIns = 2
    PollLimit = 2
    MaxErrors = 1
SPECIFICATION FairSpec
INVARIANT TypeOK
PROPERTIES
    LaterIsLeftAlone
    ResultIsShown
CHECK_DEADLOCK FALSE
