SPECIFICATION FairSpec
CONSTANTS
    c1 = c1
    c2 = c2
    n1 = n1
    n2 = n2
    Clients <- MCClients
    None = None
    Names <- MCNames
    NameChoices <- MCNameChoices
    BodyLen = 2
    Extra = 2
    BufLen = 5
INVARIANT TypeOK
INVARIANT StoredIsWhole
INVARIANT RestResultIsOwn
PROPERTY EveryConnectionEnds
