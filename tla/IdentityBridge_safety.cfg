CONSTANTS
    None = None
    w1 = w1
    w2 = w2
    g1 = g1
    g2 = g2
    g3 = g3
    h1 = h1
    GhUsers = {g1, g2, g3}
    HfUsers = {h1}
    LnUsers = {l1}
    Workers = {w1, w2}
    RunModes = {"full", "ln_only"}
    Raw <- MCRaw
    NameBlockCap = 2
    Ids = {1, 2, 3}
    MaxSyncs = 2
    MaxResolves = 2
    MaxReviews = 1
    MaxClaims = 1
SPECIFICATION MCSpec
INVARIANTS
    TypeOK
    MergeChainsEnd
    MergedCandidatesGone
    
PROPERTIES
    RejectionStands
    LiveStaysSearchable
CHECK_DEADLOCK FALSE
