\* Two pages a table, payments that are updated, two pruners, and a rotation
\* that dies once.
CONSTANTS
    Key = {"new", "old", "lost"}
    Configs <- MCConfigs
    InitialRows <- MCInitialRows
    Limit = 2
    AbortAfter = 2
    MaxLogs = 2
    PruneBatch = 2
    Writer = {w1, w2}
    Pruner = {p1, p2}
    Batch <- MCBatch
    Null = Null
    MaxText = 1
    MaxId = 3
    MaxRuns = 2
SPECIFICATION FairSpec
INVARIANTS
    ExitZeroMeansRotated
    LogChain
PROPERTIES
    ContentKept
    RotationEnds
CHECK_DEADLOCK FALSE
