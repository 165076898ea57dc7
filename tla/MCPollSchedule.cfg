\* A page and room for three commands; commands start in a second, TWINT answers
\* within three; once the page starts one without a look.
CONSTANTS
    Cmds = {c1, c2, c3}
    Window = 10
    Timeout = 20
    Fast = 2
    Slow = 10
    FastFor = 36
    PageEvery = 2
    Boot = 1
    Latency = 3
    MaxBlind = 1
SPECIFICATION Spec
SYMMETRY Symmetry
INVARIANTS
    FinishedInTime
PROPERTIES
    OneCommand
CHECK_DEADLOCK FALSE
