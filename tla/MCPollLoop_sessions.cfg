SPECIFICATION Spec
CONSTANTS
    c1 = c1
    c2 = c2
    c3 = c3
    Clients <- MCThreeClients
    None = None
    Messages <- MCTwoMessages
    MaxClients = 2
    HasUnix = TRUE
    HasInotify = TRUE
SYMMETRY MCSymmetry
INVARIANT TypeOK
INVARIANT VectorIsExact
PROPERTY PassServesEachOnce
