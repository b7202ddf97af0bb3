CONSTANTS
    p1 = p1
    p2 = p2
    Giver = Giver
    Person <- TwoAssignees
    Deadline <- InNightOrAfter
    Lead = 5
    MaxLead = 5
    Ahead = 2
    Grace = 2
    Period = 1
    QuietStart = 5
    QuietEnd = 8
    MaxTime = 9
    MaxChange = 2
SPECIFICATION Spec
INVARIANTS
    OneNudge
    ToldInTime
SYMMETRY Symmetry
CHECK_DEADLOCK FALSE
