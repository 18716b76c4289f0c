SPECIFICATION FairFeedSpec
CONSTANTS
    Coins = {c1}
    Degens = {g1}
    Amounts = {}
    Deadlines = {1}
    Absent = Absent
    MaxRaise = 1
    MaxUrls = 0
    MaxFaults = 0
    MaxBacklog = 1
    PageEnds = {5}
    PanicAborts = TRUE
    Browsers = {b1, b2}
    Visitors = {g1}
    MaxVisits = 1
    Capacity = 1
INVARIANTS
    QueueHoldsWhoWaits
    NothingPanics
PROPERTIES
    Settles
    PagesAnswered
CHECK_DEADLOCK FALSE
