\* Every request is made once, so the system stops when all are answered.
CONSTANTS
    s1 = s1
    s2 = s2
    p1 = p1
    a1 = a1
    a2 = a2
    t1 = t1
    t2 = t2
    Starts <- TwoStarts
    Pages = {p1}
    Assets <- Assets2
    Tags = {t1, t2}
    TagSets <- SomeTagSets
    Groups = {"none", "album"}
    Filters <- SomeFilters
    Libraries <- FewLibraries
    MaxSessions = 2
    MaxIds = 2
    MaxRevision = 2
    MaxEpoch = 2
SPECIFICATION Spec
INVARIANTS ReadyIsItsSnapshot CurrentSessionsAreRight DroppedIsObsolete CacheWithinBudget
PROPERTIES ReadyInArrivalOrder
SYMMETRY Symmetry
CHECK_DEADLOCK FALSE
