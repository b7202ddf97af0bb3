CONSTANTS
    t1 = t1
    t2 = t2
    c1 = c1
    NPerson = 3
    NItem = 1
    Tx <- TwoClients
    Checker = c1
    Level <- ByOrder
    TopLevel = 3
    Giver <- GiverOne
    Requests = {1}
    Reach = {2}
    Broad = {}
    Remover = {2}
    Removable = {3}
    Reuse = TRUE
SPECIFICATION CenterSpec
INVARIANTS
    RemovedNotCounted
CHECK_DEADLOCK FALSE
