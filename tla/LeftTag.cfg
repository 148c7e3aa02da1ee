\* The upgrade of a library that holds a tag nobody uses, nothing else.
SPECIFICATION Spec
CHECK_DEADLOCK FALSE
CONSTANTS
    LowerTable <- MCLower
    CanonicalTable <- MCCanonical
    TrimTable <- MCTrim
    TokenTable <- MCTokens
    Found <- MCLeftTag
    MaxInterrupts = 0
    Drives <- MCDrives
    Directories <- MCDirectories
    Links <- MCLinks
    Profile <- MCProfile
    Targets <- MCTargets
    Files <- MCFiles
    Thumbnails <- MCThumbnails
    TagLists <- MCTagLists
    MaxEntries = 5
    MaxEdits = 0
    MaxExports = 0
    MaxImports = 0
INVARIANT
    UpgradedTagsAreNormalized
