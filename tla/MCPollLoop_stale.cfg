SPECIFICATION Spec
CONSTANTS
    c1 = c1
    c2 = c2
    c3 = c3
    Clients <- MCTwoClients
    None = None
    Messages <- MCAllMessages
    MaxClients = 1
    HasUnix = TRUE
    HasInotify = TRUE
INVARIANT DispatchesOnlyReady
