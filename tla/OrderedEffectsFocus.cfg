SPECIFICATION Spec
CONSTANTS
    MaxItems = 3
    PoolThreads = 2
INVARIANTS ReleaseFollowsPress
CHECK_DEADLOCK FALSE
