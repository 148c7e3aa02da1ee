SPECIFICATION FairSwapSpec
CONSTANTS
    b1 = b1
    b2 = b2
    Bundles <- TwoBundles
    Original = Original
    Absent = Absent
    Fresh = Fresh
    Torn = Torn
    MaxFailures = 3
    MaxCrashes = 3
INVARIANTS
    AlwaysRecoverable
    CrashesLoseNoWork
PROPERTIES
    ImplementsAtomicRestore
    RestartRecovers
