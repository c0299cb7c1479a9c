CONSTANTS
    Null = Null
    s1 = s1
    s2 = s2
    s3 = s3
    Session = {s1, s2, s3}
    FirstSession = s1
    Handler = {h1, h2}
    Callbacks <- MCCallbacks
    Adapters <- MCPrismaOnMySQL
    MaxTries = 2
SPECIFICATION Spec
SYMMETRY MCSymmetry
PROPERTY PropagatedInFull
CHECK_DEADLOCK FALSE
