SPECIFICATION ServicesSpec
CONSTANTS
    Null = Null
    Worlds <- AllWorlds
    Documents = {"a", "b", "c", "d", "e", "f", "g", "x"}
    NoUuid = {"x"}
    MaxTotal = 5
    PageSize = 2
    BatchSize = 3
    Concurrency = 2
    RefusalLimit = 2
    MaxRequests <- Requests
    MaxOthers = 1
    MaxExpiries = 2
    MaxMishaps = 1
    ana = ana
    dan = dan
    x = x
    y = y
    None = None
    Owners = {ana, dan}
    Rows = {x, y}
    MaxFails = 1
    Env = {"power", "restore", "damage"}
    MaxVersion = 3
    LookupVersion = 2
    Absent = Absent
    MaxFailures = 1
    MaxRows = 1
    MaxEpisodes = 3
    MaxTroubles = 1
    Owner = {o1, o2}
    NoTick = NoTick
    MaxDays = 3
    MaxUpsets = 1
    Call = {c1, c2, c3}
    NoCall = NoCall
    Threshold = 2
    MaxTime = 4
SYMMETRY Interchangeable
INVARIANT AnswerIsExact
PROPERTY SavedWhileCounted
INVARIANT NoRowLost
INVARIANTS HandlesAreWhole UpgradeLeavesACopy
INVARIANTS RepeatsAreExcused OneReportADay PatAloneNeverOpens
CHECK_DEADLOCK FALSE
