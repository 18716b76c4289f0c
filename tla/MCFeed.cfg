SPECIFICATION FeedSpec
CONSTANTS
    Coins = {c1}
    Degens = {g1}
    Amounts = {1}
    Deadlines = {1}
    Absent = Absent
    MaxRaise = 1
    MaxUrls = 0
    MaxFaults = 1
    MaxBacklog = 1
    PageEnds = {5}
    PanicAborts = TRUE
    Browsers = {b1}
    Visitors = {g1, Absent}
    MaxVisits = 0
    Capacity = 1
INVARIANTS
    TablesAgree
    NothingPanics
PROPERTIES
    EventsMoveRowsOn
CHECK_DEADLOCK FALSE
