SPECIFICATION FairSpec
CONSTANTS
    Keys = {"a", "b"}
    MaxTyped = 3
    MaxAsked = 2
    MaxQueued = 1
    MaxLosses = 1
    MaxTypedAtEnd = 2
INVARIANTS InputInOrder ConsumedStaysConsumed StagedOwned
PROPERTIES KeyboardUnlocks
CHECK_DEADLOCK FALSE
