CONSTANTS
    t1 = t1
    t2 = t2
    c1 = c1
    NPerson = 4
    NItem = 1
    Tx <- OneClient
    Checker = c1
    Level <- ByOrder
    TopLevel = 3
    Giver <- GiverOne
    Requests = {1}
    Reach = {2}
    Broad = {}
    Remover = {4}
    Removable = {2, 3}
    Reuse = TRUE
SPECIFICATION CenterFairSpec
INVARIANTS
    CheckSeesTodo
    ClockFollowsStatus
PROPERTIES
    AddedAreActive
    NobodyLeftAlone
