SPECIFICATION ClientsSpec
CONSTANTS
    p1 = p1
    p2 = p2
    p3 = p3
    p4 = p4
    a = a
    b = b
    None = None
    Procs = {p1, p2, p3, p4}
    HostOf <- TwoHosts
    MaxMisses = 3
    StaleAge = 6
    Drain = 2
    Env = {"miss", "crash"}
    Tabs = {t1, t2}
    Reqs = {r1}
    Retries = 0
    MaxTokens = 2
    Windows = {w1}
    Alerts = {a1, a2}
    Views = {v1, v2}
    Nobody = Nobody
    MaxStreams = 1
    MaxClicks = 1
    MaxBreaks = 2
    Users = {u1, u2, u3}
    Calls = {c1, c2}
    i1 = i1
    Queries = {q1, q2, q3}
    Shapes <- SomeShapes
    Ids = {i1}
    NoId = NoId
    OwnerCap = 2
    TokenCap = 1
    MaxTrips = 1
    MaxPauses = 1
    Writers = {x1, x2}
    DrainCap = 6
    MailCap = 1
    SettleCap = 6
    ShellCap = 15
    Searches = {s1, s2}
    NCourts = 3
    Raw <- RawRows
    Distinct <- DistinctRows
    MaxRows = 4
    Workers = 2
    MaxFallbacks = 1
    MonthEnds <- TwoMonths
    Files <- SomeFiles
    NChosen = 2
    Limit = 2
    MaxSplits = 1
    Parallel = 2
SYMMETRY Interchangeable
INVARIANT OneHolder
INVARIANTS SignedOutStays RetryIsServed
INVARIANTS ListCatchesUp AdminRemains KeyMeansOneRun CapsHold
INVARIANTS ReleasedMeansQuiet ForcedOnlyByReport AnswerIsAccounted DoneTellsAll
CHECK_DEADLOCK FALSE
