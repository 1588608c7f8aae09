SPECIFICATION Spec
CONSTANTS
    Releases <- TwoReleases
    Revisions <- TwoRevisions
    MaxBuilds = 3
    MaxFaults = 2
INVARIANTS
    BootTypeOK
    PublishedIndexTrue
    MetaHasItsImage
    BootLinkResolves
    VersionIsCanonical
