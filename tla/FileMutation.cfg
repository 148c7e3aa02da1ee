SPECIFICATION Spec
CONSTANTS
    a1 = a1
    a2 = a2
    p1 = p1
    p2 = p2
    p3 = p3
    Assets <- TwoAssets
    Paths <- ThreePaths
    NoFile = NoFile
    Foreign = Foreign
    Nowhere = Nowhere
    MaxItems = 2
    MaxBatches = 2
    MaxFailures = 2
    MaxCrashes = 2
    MaxMeddlings = 1
SYMMETRY Symmetry
INVARIANTS
    FilesAreSafe
    RowsNameTheirFiles
    CrashesNeverRefuse
PROPERTIES
    ReportsAreTrue
CHECK_DEADLOCK FALSE
