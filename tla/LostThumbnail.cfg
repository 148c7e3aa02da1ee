\* Exports after a thumbnail file was lost.
SPECIFICATION Spec
CHECK_DEADLOCK FALSE
CONSTANTS
    LowerTable <- MCLower
    CanonicalTable <- MCCanonical
    TrimTable <- MCTrim
    TokenTable <- MCTokens
    Found <- MCCurrent
    MaxInterrupts = 0
    Drives <- MCDrives
    Directories <- MCDirectories
    Links <- MCLinks
    Profile <- MCProfile
    Targets <- MCTargets
    Files <- MCFiles
    Thumbnails <- MCThumbnails
    TagLists <- MCTagLists
    MaxEntries = 5
    MaxEdits = 1
    MaxExports = 1
    MaxImports = 0
INVARIANT
    MissingThumbnailsBecomeNull
