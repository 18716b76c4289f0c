SPECIFICATION WebSpec
CONSTANTS
    Coins = {c1}
    Degens = {g1}
    Amounts = {1}
    Deadlines = {1, 2}
    Absent = Absent
    MaxRaise = 1
    MaxUrls = 0
    MaxFaults = 1
    MaxBacklog = 2
    PageEnds = {1, 2, 3, 4, 5, 6, 7, 8}
    PanicAborts = TRUE
INVARIANTS
    EventsAreAboutKnownCoins
CHECK_DEADLOCK FALSE
