CONSTANTS
    t1 = t1
    t2 = t2
    i1 = i1
    i2 = i2
    MaxExecutions = 1
    Tasks = {t1}
    Instances = {i1}
    Steps = 2
    ReadsParams = {2}
    Ops = {"pause", "resume", "cancel", "rerun"}
    MaxStarts = 1
    MaxControls = 2
    MaxCrashes = 0
    MaxFailures = 1
SPECIFICATION FairSpec
PROPERTIES
    CancelTakesEffect
