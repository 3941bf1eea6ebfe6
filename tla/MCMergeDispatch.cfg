SPECIFICATION Spec
CONSTANTS
    long = long
    short = short
    Merges = {long, short}
    Workloads <- MCWorkloads
    MaxClips = 4
    MaxPid = 5
    PidsWrap = FALSE
    Durations = {1, 3}
    Fade = 2
INVARIANT TypeOK
INVARIANT SegmentsCoverClips
INVARIANT SuccessMeansOwn
INVARIANT SegmentsStay
INVARIANT EveryChildWaited
INVARIANT TempsRemoved
INVARIANT TransitionsMeet
PROPERTY Terminates
