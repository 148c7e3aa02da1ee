SPECIFICATION SwapSpec
CONSTANTS
    b1 = b1
    b2 = b2
    Bundles <- OneBundle
    Original = Original
    Absent = Absent
    Fresh = Fresh
    Torn = Torn
    MaxFailures = 1
    MaxCrashes = 1
INVARIANTS
    WorkLostOnlyAfterWarning
