\* Every small graph and some larger ones, walked over one transport; pushes of
\* small ones over none, one and two.
SPECIFICATION TSpec
CONSTANTS
    None = None
    Input <- MCInput
    Case <- MCCase
INVARIANTS EulerPromise PassWalksGraph
PROPERTY Ends
CHECK_DEADLOCK FALSE
