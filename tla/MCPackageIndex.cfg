SPECIFICATION FairSpec
CONSTANTS
    NumVersions = 2
    SizeOf <- ShrinkingSize
    Retries = 2
    Ranges = {TRUE, FALSE}
    Lossy = {TRUE, FALSE}
    MaxFaults = 4
    UnpackCut = TRUE
INVARIANTS
    IndexIsOneRelease
    IndexMatchesArchive
    CachedInPlace
PROPERTIES
    PartialDataIsKept
    FetchConverges
