CONSTANTS
    tx1 = tx1
    tx2 = tx2
    tx3 = tx3
    NGuardian = 2
    NChild = 2
    Colleague <- OneColleague
    Family <- TwoChildren
    Tx <- ThreeClients
    NLeave = 2
    Span <- OneSpan
    MaxPending = 1
    Reuse = FALSE
SYMMETRY Connections
SPECIFICATION Spec
INVARIANTS AccessFollowsLinks NoFormerChild LeavesKeepApart
CHECK_DEADLOCK FALSE
PROPERTIES AskedWhileLinked FirstAnswerStands
