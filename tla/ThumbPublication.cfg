SPECIFICATION Spec
CONSTANTS
    Assets = {a1, a2}
    Callers = {c1, c2}
    MaxVersion = 2
    MaxChanges = 1
    MaxClears = 1
    PageSize = 1
    InFlight = 1
    Returns = FALSE
    Demands = TRUE
SYMMETRY Symmetry
CHECK_DEADLOCK FALSE
INVARIANTS
    RowsAreTrue
    PublishedFileSurvives
    ClearSticks
    EveryAssetAnsweredOnce
