CONSTANTS
    f1 = f1
    f2 = f2
    p1 = p1
    h1 = h1
    h2 = h2
    e1 = e1
    e2 = e2
    NewHolder = NewHolder
    NoHolder = NoHolder
    File <- TwoFiles
    Person <- OnePerson
    Uploader <- AllByOne
    Holder <- TwoHolders
    Editor <- TwoEditors
    DailyFiles = 1
    MaxFiles = 1
    ExpireLimit = 50
    BrakeMin = 10
SPECIFICATION FairSpec
INVARIANTS
    KnownHasBytes
    OneHome
    SetWithinLimit
    QuotaHolds
PROPERTIES
    NoBytesForEver
CHECK_DEADLOCK FALSE
