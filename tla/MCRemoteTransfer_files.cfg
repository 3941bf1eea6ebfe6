SPECIFICATION FairSpec
CONSTANTS
    c1 = c1
    c2 = c2
    Clients <- MCTwo
    Nobody = Nobody
    ClientPids <- MCPids
    PidChoices <- MCPidChoices
    Files = 2
    FixtureSized <- MCFirst
    ServerPids <- MCServerPid
    JobsMax = 1
    MaxAttempts = 3
    MaxUploads = 4
    MaxRestarts = 1
INVARIANT TypeOK
INVARIANT HeldFilesIntact
INVARIANT ResultIsOwn
 
