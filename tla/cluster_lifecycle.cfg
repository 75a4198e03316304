\* A mounted SUT and two checkouts on two workers; one of them is wrapped, and
\* its agent may outlive a SIGTERM.
SPECIFICATION FairSpec
CONSTANTS
    N = 3
    Mount = {1}
    Workers = 2
    Port <- MCPort
    Wrapped = {2}
    Stubborn = {2}
INVARIANTS NothingLeft AgentsArePinned OutcomesComplete
PROPERTY BlockEnds
CHECK_DEADLOCK FALSE
