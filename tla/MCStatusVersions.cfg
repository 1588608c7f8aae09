SPECIFICATION Spec
CONSTANTS
    LibDirs <- Multiarch
    MaxRelease = 2
    MaxSteps = 1
INVARIANT StatusIsBuilt
CHECK_DEADLOCK FALSE
