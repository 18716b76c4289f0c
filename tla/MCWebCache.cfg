SPECIFICATION FairWebSpec
CONSTANTS
    Coins = {c1}
    Degens = {g1}
    Amounts = {1}
    Deadlines = {1, 2}
    Absent = Absent
    MaxRaise = 1
    MaxUrls = 1
    MaxFaults = 2
    MaxBacklog = 2
    PageEnds = {1, 3, 4, 5, 6, 7}
    PanicAborts = TRUE
INVARIANTS
    WebTypeOK
    NeverAhead
    DrainedAgrees
    KnownWithoutGap
PROPERTIES
    NeverBackwards
    Settles
CHECK_DEADLOCK FALSE
