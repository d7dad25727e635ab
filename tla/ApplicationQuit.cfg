SPECIFICATION FairSpec
CONSTANTS
    MaxPanes = 3
    Animated = {1, 2}
    MaxWindows = 2
    MaxLost = 1
    QuitAfterLastWindow = TRUE
INVARIANTS WaitsAreLive DialogsAreLive QuitIsAnswerable
PROPERTIES ClosedWithConsent ImplementsQuit ClosingEnds
CHECK_DEADLOCK FALSE
