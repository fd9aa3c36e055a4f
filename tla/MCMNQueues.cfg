SPECIFICATION FairSpec
CONSTANTS
    NNodes = 4
    NBuckets = 4
    BitsPerNode = 8
    CellWriteEndurances = {4, 7, 12}
    Width = 6
    WfUnit = 4
    JobChoices <- MCJobs
    NIterationsChoices <- MCIterations
    NPromotionsToEventTrace = 2
INVARIANTS
    TypeOK
    QueuesPartitionNodes
    LowestActiveIsLowest
    MappingConsistent
    WearAccounting
    WornOutIsJustified
    TransfersTally
    NoRebalanceBudget
PROPERTIES
    ImplementsWearLevelling
    WearsOut
CHECK_DEADLOCK FALSE
