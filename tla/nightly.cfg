SPECIFICATION Spec
CONSTANTS
    N = 3
    Line = {"main", "head"}
    LineOf <- MCLineOf
    Symbolic = {"head"}
    Sha = {"x", "y", "z", "w"}
    Tip0 <- MCTip0
    LangOf <- MCLangOf
    Retries = 2
    MaxMoves = 2
    None = None
    Served <- MCServed
    Placeholder <- MCPlaceholder
    ScenarioFile = {"s1"}
    BindingLists <- MCBindingLists
    Reports <- MCReports
    Limit <- MCLimit
    MaxJobs = 2
INVARIANTS OneShaPerRef StepsFindTheirInputs WindowKept EntryIsTheRun
PROPERTY ItkNightEnds
CHECK_DEADLOCK FALSE
