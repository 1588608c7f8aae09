SPECIFICATION Spec
CONSTANTS
    LibDirs <- AllDirs
    MaxRelease = 2
    MaxSteps = 2
INVARIANTS
    RootfsTypeOK
    LibraryIsFound
    ProviderIsAlone
    RecordsMatchPayload
PROPERTY
    OnlyPruningBreaks
CHECK_DEADLOCK FALSE
