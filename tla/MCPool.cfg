CONSTANTS
    Putters = {p1, p2}
    Getters = {g1}
    TTLs <- MCTTLs
    MaxPuts = 2
    FirstNow = 2
    MaxNow = 4
SPECIFICATION FairSpec
INVARIANTS OneOwner
PROPERTIES NotTooEarly ExpiredLeave CloseDestroys
CHECK_DEADLOCK FALSE
