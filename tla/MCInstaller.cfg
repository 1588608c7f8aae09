SPECIFICATION Spec
CONSTANTS
    NumDevices = 2
    MayLack = {"bash", "umount"}
    MaxFaults = 2
    MaxAttempts = 2
INVARIANTS
    InstallTypeOK
    BootedAsRecorded
    
    FormattedInstallIsClean
    SearchReleases
CHECK_DEADLOCK FALSE
