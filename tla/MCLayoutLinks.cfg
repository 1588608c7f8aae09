SPECIFICATION Spec
CONSTANTS
    LibDirs <- AllDirs
    MaxRelease = 2
    MaxSteps = 1
INVARIANT SonameKept
CHECK_DEADLOCK FALSE
