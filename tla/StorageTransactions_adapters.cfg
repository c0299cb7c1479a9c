CONSTANTS
    Null = Null
    s1 = s1
    s2 = s2
    s3 = s3
    Session = {s1, s2, s3}
    FirstSession = s1
    Handler = {h1, h2, h3}
    Callbacks <- MCCallbacks
    Adapters <- MCAdapters
    MaxTries = 2
SPECIFICATION Spec
SYMMETRY MCSymmetry
INVARIANTS
    DeadlockNeedsBackfill
    NobodyWaitsForEver
PROPERTIES
    ImplementsRows
CHECK_DEADLOCK FALSE
