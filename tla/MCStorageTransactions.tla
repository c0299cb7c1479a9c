------------------------ MODULE MCStorageTransactions ------------------------
EXTENDS StorageTransactions, TLC

PostgreSQL == [lockThenRead |-> FALSE, repeatableRead |-> FALSE, abortedByError |-> TRUE, queue |-> FALSE]
MySQL == [lockThenRead |-> FALSE, repeatableRead |-> TRUE, abortedByError |-> FALSE, queue |-> FALSE]
MySQLPrisma == [MySQL EXCEPT !.lockThenRead = TRUE]
SQLite == [lockThenRead |-> FALSE, repeatableRead |-> FALSE, abortedByError |-> FALSE, queue |-> TRUE]

MCAdapters == {PostgreSQL, MySQL, SQLite}
MCPrismaOnMySQL == {MySQLPrisma}

CONSTANTS s1, s2, s3
MCCallbacks ==
    {[session |-> s1, status |-> "failed", id |-> 1], [session |-> s1, status |-> "completed", id |-> 2],
     [session |-> s2, status |-> "failed", id |-> 3]}

MCSymmetry == Permutations(Handler)
==============================================================================
