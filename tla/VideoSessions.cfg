SPECIFICATION Spec
CONSTANTS
    MaxRequests = 2
    MaxControls = 1
CHECK_DEADLOCK FALSE
INVARIANTS
    PlaybackIsOwned
    FullscreenHasAnOwner
PROPERTIES
    OnlyTheNewestLoads
    RetiredSurfaceIsHidden
    EveryOpenReturns
