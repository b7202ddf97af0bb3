CONSTANTS
    tx1 = tx1
    tx2 = tx2
    tx3 = tx3
    form1 = form1
    form2 = form2
    NStaff = 3
    NMessage = 2
    FirstHolds <- School
    Appointable <- NewOffice
    Revocable <- Ending
    Removable = {1, 2}
    Form <- Forms
    RateLimit = 1
    Tx <- Clients
    Reuse = FALSE
SYMMETRY Symmetries
SPECIFICATION Spec
INVARIANTS AddresseesThere RateKept NoTwin NoCircularWait
PROPERTIES NobodyLeftOut AnswerStands
CHECK_DEADLOCK FALSE
