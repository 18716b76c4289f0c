SPECIFICATION WebSpec
CONSTANTS
    Coins = {c1, c2}
    Degens = {g1}
    Amounts = {1}
    Deadlines = {1}
    Absent = Absent
    MaxRaise = 1
    MaxUrls = 0
    MaxFaults = 0
    MaxBacklog = 2
    PageEnds = {3, 4, 5, 6}
    PanicAborts = FALSE
INVARIANTS
    ListsCoinsInOrder
CHECK_DEADLOCK FALSE
