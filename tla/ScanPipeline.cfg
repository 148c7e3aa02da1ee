\* The scans are bounded, so the system stops after the last one.
SPECIFICATION FairSpecOfFullFolders
CONSTANTS
    f1 = f1
    f2 = f2
    f3 = f3
    f4 = f4
    r1 = r1
    r2 = r2
    Files <- FourFiles
    Roots <- NestedRoots
    Below <- NestedFolders
    NotUtf8 = {f4}
    Workers = 2
    MaxScanWorkers = 2
    TaskCapacity = 1
    BatchSize = 2
    NoRow = NoRow
    MaxScans = 2
    MaxPanics = 1
    MaxChanges = 1
INVARIANTS ScanIsExact MetadataIsCurrent
PROPERTIES PresentFilesKeepRows EveryScanEnds
CHECK_DEADLOCK FALSE
