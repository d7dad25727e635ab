SPECIFICATION FairSpec
CONSTANTS
    MaxItems = 3
    PoolThreads = 2
INVARIANTS InSubmissionOrder ReadOnlyHonoured FilesAccountedFor
PROPERTIES EveryRequestAnswered
CHECK_DEADLOCK FALSE
