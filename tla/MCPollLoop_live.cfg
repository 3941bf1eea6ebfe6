SPECIFICATION FairSpec
CONSTANTS
    c1 = c1
    c2 = c2
    c3 = c3
    Clients <- MCTwoClients
    None = None
    Messages <- MCLiveMessages
    MaxClients = 2
    HasUnix = TRUE
    HasInotify = TRUE
PROPERTY EveryRequestAnswered
PROPERTY EveryConnectionTaken
PROPERTY StopsOnRequest
