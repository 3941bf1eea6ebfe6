SPECIFICATION Spec
CONSTANTS
    Ops <- AllOps
    NoOp = NoOp
    HeaderLen = 2
    BodyLen = 2
    TableLen = 5
    FileLen = 4
    Cap = 4
INVARIANT TypeOK
INVARIANT InStep
INVARIANT TransferWhole
PROPERTY EveryOpEnds
PROPERTY ImplementsRequestReply
