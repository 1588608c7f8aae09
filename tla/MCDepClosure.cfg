\* The computation ends, so it may stop.
SPECIFICATION FairSpec
CONSTANTS
    Names = {"a", "b", "c", "systemd", "pam-systemd"}
    Indexes <- AllIndexes
    Entries <- AllEntries
    Manifests <- AllManifests
    Excluded = {"systemd"}
    Forbidden = {"systemd", "pam-systemd"}
INVARIANTS
    ClosureExact
    RuntimeInSysroot
    NothingForbidden
PROPERTIES
    ClosureEnds
CHECK_DEADLOCK FALSE
