SPECIFICATION FairSpec
CONSTANTS
    Sessions = {s1, s2}
    Requests = {r1, r2}
    Versions = {1, 2}
    MaxEntries = 1
    MaxInFlight = 1
    MaxEdits = 2
    GoesOnPrepared = FALSE
INVARIANTS PreparedFresh GateHolds FailedLeavesNothing
PROPERTIES LaunchEnds
CHECK_DEADLOCK FALSE
