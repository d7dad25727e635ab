SPECIFICATION FairSpec
CONSTANTS
    Panes = {p1, p2}
    NoPane = NoPane
    MaxEntries = 2
    MaxBytes = 2
    Sizes <- MCSizes
    MaxRequests <- MCMaxRequests
INVARIANTS RequestNeverLost DialogFollowsQueue
PROPERTIES ImplementsConsent NobodyIsStuck
CHECK_DEADLOCK FALSE
