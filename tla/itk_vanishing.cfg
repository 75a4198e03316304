\* A graph that cannot be walked, run as subtests.
SPECIFICATION Spec
CONSTANTS
    None = None
    SUT = "sut"
    Lines <- MCLines
    Speaks <- MCSpeaks
    SdkOf <- MCSdkOf
    Rules <- MCRules
    Request = {"first"}
    Batch <- VanishBatch
    Posts <- HandPosts
INVARIANT GreenMeansTested
CHECK_DEADLOCK FALSE
