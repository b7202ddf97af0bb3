CONSTANTS
    w1 = w1
    w2 = w2
    NOrg = 2
    Steady <- FirstOrg
    Worker <- TwoWorkers
    Period = 2
    MaxTime = 6
    MaxCrash = 1
    MinutesPerHour = 2
    HoursPerDay = 3
    DaysPerMonth = 2
    MonthsPerYear = 2
    DaysPerWeek = 3
    Changes <- MidnightAndLater
SPECIFICATION FairSpec
INVARIANTS
    OneJobPerTick
    FiredForAll
    NoBurst
    NextFireIsFirst
PROPERTIES
    CatchesUp
CHECK_DEADLOCK FALSE
