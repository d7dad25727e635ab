SPECIFICATION FairSpec
CONSTANTS
    Capacity = 3
    ReadBudget = 2
    FinalLimit = 3
    MaxProduced = 5
INVARIANTS FinalOutputShown PidIsOurs
PROPERTIES ImplementsSession ShutdownCompletes ChildObserved
CHECK_DEADLOCK FALSE
