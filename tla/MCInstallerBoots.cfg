SPECIFICATION Spec
CONSTANTS
    NumDevices = 1
    MayLack = {}
    MaxFaults = 0
    MaxAttempts = 1
INVARIANT InstalledKernelInPlace
CHECK_DEADLOCK FALSE
