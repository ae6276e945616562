CONSTANTS
    Partitions <- MCPartitions
    LogEnd = 2
    CommitOffsetCount = 2
    ReportsNextOffset = FALSE

SPECIFICATION Spec

INVARIANT NoSkip
INVARIANT NoRedelivery
PROPERTY ContractSpec
PROPERTY CommitMonotone
