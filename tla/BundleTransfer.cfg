\* From the start of any release's library to exports and imports.
SPECIFICATION Spec
CHECK_DEADLOCK FALSE
CONSTANTS
    LowerTable <- MCLower
    CanonicalTable <- MCCanonical
    TrimTable <- MCTrim
    TokenTable <- MCTokens
    Found <- MCFound
    MaxInterrupts = 1
    Drives <- MCDrives
    Directories <- MCDirectories
    Links <- MCLinks
    Profile <- MCProfile
    Targets <- MCTargets
    Files <- MCFiles
    Thumbnails <- MCThumbnails
    TagLists <- MCTagLists
    MaxEntries = 5
    MaxEdits = 1
    MaxExports = 1
    MaxImports = 1
INVARIANTS
    UpgradeConverges
    PublishedArchiveIsWhole
    CompleteExportsRestore
PROPERTIES
    UpgradeKeepsTheLibrary
    ImportKeepsTheContents
    ImportKeepsThePlaces
