SPECIFICATION Spec
CONSTANTS
    MaxPanes = 2
    Animated = {}
    MaxWindows = 2
    MaxLost = 0
    QuitAfterLastWindow = TRUE
PROPERTIES QuitNeedsConsent
CHECK_DEADLOCK FALSE
