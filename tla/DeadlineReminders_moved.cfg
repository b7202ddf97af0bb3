CONSTANTS
    p1 = p1
    p2 = p2
    Giver = Giver
    Person <- OneAssignee
    Deadline <- EarlyOrLate
    Lead = 3
    MaxLead = 3
    Ahead = 2
    Grace = 2
    Period = 1
    QuietStart = 0
    QuietEnd = 0
    MaxTime = 6
    MaxChange = 2
SPECIFICATION Spec
INVARIANTS
    MovedDeadlineReminded
CHECK_DEADLOCK FALSE
