SPECIFICATION Spec
CONSTANTS
    NumStages = 1
    Packages = {"a", "b"}
    Archives <- MCArchives
    Manifests = {"base", "grown"}
    NumReleases = 2
    PlanOf <- OneStagePlans
    PoolOf <- OneStagePool
    Rejected = {}
    Excluded = {}
    Pruned = {}
    LabelHas404 = {"b"}
    Truncates = {}
    NoPackage = NoPackage
    NoArchive = NoArchive
    MaxFaults = 1
INVARIANTS ResumeCompletes
