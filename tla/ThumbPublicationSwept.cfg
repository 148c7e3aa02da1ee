SPECIFICATION Spec
CONSTANTS
    Assets = {a1}
    Callers = {c1, c2}
    MaxVersion = 1
    MaxChanges = 0
    MaxClears = 1
    PageSize = 1
    InFlight = 1
    Returns = FALSE
    Demands = FALSE
SYMMETRY Symmetry
CHECK_DEADLOCK FALSE
INVARIANT UnderminedResultsAreDropped
