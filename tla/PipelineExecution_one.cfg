CONSTANTS
    t1 = t1
    t2 = t2
    i1 = i1
    i2 = i2
    MaxExecutions = 2
    Tasks = {t1, t2}
    Instances = {i1}
    Steps = 2
    ReadsParams = {2}
    Ops = {"pause", "resume", "cancel", "rerun"}
    MaxStarts = 2
    MaxControls = 2
    MaxCrashes = 1
    MaxFailures = 1
SPECIFICATION FairSpec
INVARIANTS
    TypeOK
    OneTaskPerExecution
    StepsInOrder
    CompletedMeansAll
    CompletedStepsCount
PROPERTIES
    LifeSpec
    
