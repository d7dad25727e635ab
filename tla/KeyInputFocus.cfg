SPECIFICATION Spec
CONSTANTS
    Keys = {"a", "b"}
    MaxTyped = 3
    MaxAsked = 1
    MaxQueued = 1
    MaxLosses = 1
    MaxTypedAtEnd = 0
INVARIANTS NoStaleIdentity
CHECK_DEADLOCK FALSE
