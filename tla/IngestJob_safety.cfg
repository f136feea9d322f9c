CONSTANTS
    w1 = w1
    w2 = w2
    ann = ann
    bob = bob
    cyd = cyd
    empty = empty
    c1 = c1
    c2 = c2
    Workers <- MCWorkers
    Logins <- TwoLogins
    Blank = empty
    Input <- ThreeLines
    SlotsPerWorker = 1
    Platforms = {"github", "huggingface"}
    KnownBefore = {"absent", "ingested"}
    Clients = {c1, c2}
    Ops = {"pause", "resume", "cancel"}
    MaxRequests = 2
    MaxFaults = 1
SPECIFICATION Spec
INVARIANTS
    TypeOK
    EachItemInOnePlace
    CompletedMeansAll
    StatsAddUp
    ItemRowsMatch
    NothingLeftHalfDone
    QuietWhenOver
PROPERTIES
    OverIsFinal
    PoolSpec
SYMMETRY Symmetry
CHECK_DEADLOCK FALSE
