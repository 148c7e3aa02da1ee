SPECIFICATION Spec
CONSTANTS
    Assets = {a1}
    Callers = {c1, c2, c3}
    MaxVersion = 1
    MaxChanges = 0
    MaxClears = 0
    PageSize = 1
    InFlight = 1
    Returns = FALSE
    Demands = TRUE
SYMMETRY Symmetry
CHECK_DEADLOCK FALSE
INVARIANT LostRaceIsAReindex
