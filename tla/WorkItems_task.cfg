CONSTANTS
    t1 = t1
    t2 = t2
    NPerson = 3
    NItem = 1
    Tx <- TwoTx
    Giver <- GiverOne
    Requests = {}
    Reach = {2, 3}
    Broad = {2}
    Remover = {1}
    Removable = {3}
    Reuse = TRUE
SPECIFICATION Spec
SYMMETRY TxSymmetry2
INVARIANTS
    RemovedNotCounted
    StatusFollowsAssignees
PROPERTIES
    LastFinishCloses
    ClosedItemNotEdited
    FinishedStaysFinished
