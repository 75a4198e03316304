\* Two sessions of one process, one releasing while the other checks out.
SPECIFICATION Spec
CONSTANTS
    s1 = s1  s2 = s2  s3 = s3  p1 = p1  p2 = p2  e1 = e1
    Key = {"k1"}
    Session = {s1, s2}
    Proc <- MCProc
    ProcOf <- PairInOne
    Evictor = {e1}
    Mortal = {}
    OverlappingRuns = TRUE
    RunDeadline = 2
    TreeTtl = 1
    Budget = 1
    MaxNow = 1
    Free = Free
    NoKey = NoKey
INVARIANT FileRepresentsUse
CHECK_DEADLOCK FALSE
