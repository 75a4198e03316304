\* Every kind of step, over HTTP and over gRPC.
SPECIFICATION FairSpec
CONSTANTS
    None = None
    Suites <- MCSuites
    Capabilities = {}
    Behaviors = {"tck-a"}
    Variables = {"url"}
    MaxEvents = 3
    MaxDelivered = 2
INVARIANTS FailBlamesSut ErrorBlamesHarness PassMeansConforming
PROPERTY Answered
CHECK_DEADLOCK FALSE
