\* Two POST /run-acts at the same time.
SPECIFICATION Spec
CONSTANTS
    r1 = r1  r2 = r2  x1 = x1  q1 = q1  q2 = q2
    Run = {r1, r2}
    Traversal = {q1}
    External = {}
    Given <- NoUrls
    Honoured = {"reduced", "auth"}
    Test <- MCTest
    Needs <- MCNeeds
    Excludes <- MCExcludes
    Serial = FALSE
    Nobody = Nobody
INVARIANT EnvGoneAfter
CHECK_DEADLOCK FALSE
