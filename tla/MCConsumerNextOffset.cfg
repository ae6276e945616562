CONSTANTS
    Partitions <- MCPartitions
    LogEnd = 2
    CommitOffsetCount = 2
    ReportsNextOffset = TRUE

SPECIFICATION Spec

INVARIANT NoSkip
