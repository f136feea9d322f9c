CONSTANTS
    w1 = w1
    w2 = w2
    ann = ann
    bob = bob
    cyd = cyd
    empty = empty
    c1 = c1
    c2 = c2
    Workers <- OneWorker
    Logins <- MCLogins
    Blank = empty
    Input <- FiveLines
    SlotsPerWorker = 4
    Platforms = {"github"}
    KnownBefore = {"absent"}
    Clients = {c1}
    Ops = {"cancel"}
    MaxRequests = 1
    MaxFaults = 0
SPECIFICATION FairSpec
PROPERTIES
    CancelEnds
CHECK_DEADLOCK FALSE
