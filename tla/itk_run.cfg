\* A request with any of five batches beside a request for a pair.
SPECIFICATION FairSpec
CONSTANTS
    None = None
    SUT = "sut"
    Lines <- MCLines
    Speaks <- MCSpeaks
    SdkOf <- MCSdkOf
    Rules <- MCRules
    Request = {"first", "second"}
    Batch <- MCBatch
    Posts <- MCPosts
INVARIANTS ClusterUnderLock LossReported GreenMeansTested WalksAuthoredEdges ResultsKept
PROPERTY Answered
CHECK_DEADLOCK FALSE
