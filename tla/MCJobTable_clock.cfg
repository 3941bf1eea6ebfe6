SPECIFICATION FairSpec
CONSTANTS
    p1 = p1
    p2 = p2
    p3 = p3
    a1 = a1
    a2 = a2
    JobsMax = 2
    Pids <- MCTwoPids
    NoPid = NoPid
    Argvs <- MCNoArgvs
    NoArgv = NoArgv
    Ops <- MCMerge
    IdMod = 3
    UIntMod = 16
    Retention = 3
    Interval = 2
    ClockSteps = TRUE
    MaxJobs = 2
    MaxTime = 6
    MaxReady = 1
PROPERTY EvictionHonoursRetention
PROPERTY EveryJobIsSettled
