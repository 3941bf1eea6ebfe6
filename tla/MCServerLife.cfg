SPECIFICATION Spec
CONSTANTS
    s1 = s1
    s2 = s2
    s3 = s3
    conf = conf
    other = other
    c1 = c1
    u1 = u1
    u2 = u2
    Servers <- MCServers
    Clients <- MCClients
    None = None
    Ports <- MCPorts
    PortOf <- MCPortOf
    UserOf <- MCUserOf
INVARIANT TypeOK
INVARIANT AdminReaches
INVARIANT OrphanOnlyAfterFailure
PROPERTY EveryDialEnds
