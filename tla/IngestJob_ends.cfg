CONSTANTS
    w1 = w1
    w2 = w2
    ann = ann
    bob = bob
    cyd = cyd
    empty = empty
    c1 = c1
    c2 = c2
    Workers <- MCWorkers
    Logins <- MCLogins
    Blank = empty
    Input <- FourLines
    SlotsPerWorker = 1
    Platforms = {"github"}
    KnownBefore = {"absent"}
    Clients = {c1}
    Ops = {"pause", "resume"}
    MaxRequests = 2
    MaxFaults = 0
SPECIFICATION FairSpec
PROPERTIES
    Terminates
    ResumeTakesEffect
