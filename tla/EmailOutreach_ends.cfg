CONSTANTS
    w1 = w1
    w2 = w2
    r1 = r1
    r2 = r2
    q1 = q1
    q2 = q2
    Workers <- TwoWorkers
    Clients <- TwoClients
    Recipients <- OneRecipient
    Steps = 2
    EmailSteps = {1, 2}
    BatchSize = 2
    Limit = 9
    MaxRetries = 2
    StopOn = {"replied"}
    Copies = 1
    Ops = {"start", "resume", "replied", "bounced", "cancel", "disconnect"}
    MaxOps = 3
    MaxRollBacks = 1
    MaxFailures = 1
SPECIFICATION FairSpec
PROPERTIES
    SequenceEnds
