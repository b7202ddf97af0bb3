CONSTANTS
    t1 = t1
    t2 = t2
    NPerson = 3
    NItem = 2
    Tx <- TwoTx
    Giver <- GiverOne
    Requests = {2}
    Reach = {2, 3}
    Broad = {}
    Remover = {1}
    Removable = {2, 3}
    Reuse = FALSE
SPECIFICATION FairSpec
INVARIANTS
    NoCircularWait
PROPERTIES
    EveryRequestEnds
CHECK_DEADLOCK FALSE
