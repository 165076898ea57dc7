\* A page that makes two requests and somebody who refunds one unit; the order
\* was edited, and one thing goes wrong.
CONSTANTS
    Admins = {mine1, mine2, other}
    Mine = {mine1, mine2}
    Amounts = {1}
    Amount = 2
    OrderTotal = 3
    EmptySum = 0
    Unknown = Unknown
    MaxFaults = 1
SPECIFICATION SpecPage
SYMMETRY Symmetry
CONSTRAINT Careful
INVARIANTS
    PageTypeOK
    RefusedOnlyBehind
    ListsAreCurrent
CHECK_DEADLOCK FALSE
