\* Two targets of one run and a run in another process, with eviction.
SPECIFICATION Spec
CONSTANTS
    s1 = s1  s2 = s2  s3 = s3  p1 = p1  p2 = p2  e1 = e1
    Key = {"k1"}
    Session = {s1, s2, s3}
    Proc <- MCProc
    ProcOf <- TwoInOne
    Evictor = {e1}
    Mortal = {p1, p2}
    OverlappingRuns = FALSE
    RunDeadline = 2
    TreeTtl = 1
    Budget = 1
    MaxNow = 3
    Free = Free
    NoKey = NoKey
INVARIANTS InUseIntact SentinelMeansBuilt NoLeakedPin FileRepresentsUse
PROPERTY ImplementsTreeStore
CHECK_DEADLOCK FALSE
