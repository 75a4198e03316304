\* Fair scheduling, two trees, eviction run again and again, runners killed.
SPECIFICATION HookSpec
CONSTANTS
    s1 = s1  s2 = s2  s3 = s3  p1 = p1  p2 = p2  e1 = e1
    Key = {"k1", "k2"}
    Session = {s1, s2}
    Proc <- MCProc
    ProcOf <- OneEach
    Evictor = {e1}
    Mortal = {p1, p2}
    OverlappingRuns = TRUE
    RunDeadline = 2
    TreeTtl = 1
    Budget = 2
    MaxNow = 1
    Free = Free
    NoKey = NoKey
PROPERTIES NobodyWaitsForEver ShrinksToBudget
CHECK_DEADLOCK FALSE
