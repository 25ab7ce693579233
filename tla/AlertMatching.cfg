SPECIFICATION FairSpec
CONSTANTS
    w1 = w1
    w2 = w2
    NULL = NULL
    Watchlist = {w1, w2}
    Worker = {m1, m2}
    MaxPrice = 2
    Limit <- MCLimit
    MaxVersions = 3
    MaxVisits = 2
    MaxFaults = 1
    MaxMoves = 1
CHECK_DEADLOCK FALSE
INVARIANTS
    TypeOK
    AnnouncedWasSeen
PROPERTIES
    ComesBackWithNews
    DropAnnounced
