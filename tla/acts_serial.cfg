\* One run after another, beside a run of external SUTs; auth is not honoured.
SPECIFICATION FairSpec
CONSTANTS
    r1 = r1  r2 = r2  x1 = x1  q1 = q1  q2 = q2
    Run = {r1, r2, x1}
    Traversal = {q1, q2}
    External = {x1}
    Given <- OneGiven
    Honoured = {"reduced"}
    Test <- MCTest
    Needs <- MCNeeds
    Excludes <- MCExcludes
    Serial = TRUE
    Nobody = Nobody
INVARIANTS EnvRestored VerdictsLabelled
PROPERTIES VerdictsStay Answered
CHECK_DEADLOCK FALSE
