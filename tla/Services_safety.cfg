CONSTANTS
    None = None
    a1 = a1
    a2 = a2
    c1 = c1
    c2 = c2
    c3 = c3
    u1 = u1
    u2 = u2
    p1 = p1
    p2 = p2
    p3 = p3
    ann = ann
    e1 = e1
    e2 = e2
    e3 = e3
    e4 = e4
    Tokens = {a1, a2}
    NoToken = None
    HfTokens = 2
    Calls = {c1, c2, c3}
    Workloads <- MCWorkloads
    MaxRetries = 1
    MaxItems = 2
    PageSize = 2
    MaxRemaining = 1
    MaxLimited = 1
    MaxLost = 1
    Mentioning <- MCMentioning
    LnGiven <- MCLnGiven
    Workers = {a1, a2}
    Budget = 1
    Rpm = 1
    MaxProfiles = 3
    LnRuns = 2
    LnFaults = 2
    MaxMinutes = 1
    Rows = {1, 2, 3, 4}
    BatchSize = 2
    MaxPasses = 2
    MaxSyncs = 1
    MaxFailures = 1
    Instances = {a1, a2}
    Schedules = {1}
    Periods = {1, 2}
    MaxTime = 3
    MaxRequests = 2
    Owner = "o"
    Others = {"a", "b"}
    Accounts = {"a"}
    PlanLimit <- MCPlanLimit
    Events <- MCEvents
    Requests = {a1, a2}
    Hooks = {1, 2}
    MaxWork = 3
    Profiles = {p1, p2, p3}
    Satisfies <- MCSatisfies
    Indexed <- MCIndexed
    Filters = {{}, {"topics"}}
    Limits = {2}
    VectorFactor = 2
    KeywordFactor = 1
    RerankTop = 2
    Unit = 10
    Weights <- MCWeights
    MaxChanges = 1
    People = {ann}
    Linked = {ann}
    Listed = {ann}
    Given <- MCGiven
    Pipelines = {"daily", "weekly", "seed", "gh_only", "hf_only", "ln_only", "dependent"}
    MaxAttempts = 3
    MaxCommands = 1
    MaxRuns = 1
    MaxFaults = 1
SPECIFICATION Spec
INVARIANTS
    TypeOK
    TokensFlow
    LinkedInHolds
    EmbedPass
    FiredOncePerInstance
    BillingHolds
    FusionKeepsOrder
    JobsAccountedFor
    
SYMMETRY Symmetry
CONSTRAINT OneOrTheOther
CHECK_DEADLOCK FALSE
