SPECIFICATION Spec
CONSTANTS
    p1 = p1
    p2 = p2
    p3 = p3
    a1 = a1
    a2 = a2
    JobsMax = 1
    Pids <- MCTwoPids
    NoPid = NoPid
    Argvs <- MCTwoArgvs
    NoArgv = NoArgv
    Ops <- MCTrim
    IdMod = 3
    UIntMod = 16
    Retention = 1
    Interval = 1
    ClockSteps = FALSE
    MaxJobs = 2
    MaxTime = 2
    MaxReady = 1
PROPERTY RefusedNeverCompletes
