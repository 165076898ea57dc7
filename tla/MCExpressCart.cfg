\* Two customers, three check-ins of theirs, the worker beside a command, one
\* fault.
CONSTANTS
    Customers = {c1, c2}
    CheckIns = {k1, k2, k3}
    Units = {u1, u2}
    Procs = {p1, p2}
    MaxFaults = 1
    None = None
SPECIFICATION Spec
SYMMETRY Symmetry
INVARIANTS
    LostWasLate
    OrderedTwiceIsMet
    OrderIsTheCustomers
CHECK_DEADLOCK FALSE
