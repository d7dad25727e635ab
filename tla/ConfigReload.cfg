SPECIFICATION FairSpec
CONSTANTS
    Ghostty = Ghostty
    Frontend = Frontend
    BaseContents <- MCBaseContents
    MaxEdits = 1
    MaxRequests = 1
INVARIANTS QuietIsCurrent
PROPERTIES NeverStaleScheme ReadyIsTrue Converges
CHECK_DEADLOCK FALSE
