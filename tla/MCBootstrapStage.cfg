\* Both stages, every disturbance.
SPECIFICATION FairSpec
CONSTANTS
    NumStages = 2
    Packages = {"a", "b", "x"}
    Archives <- MCArchives
    Manifests = {"base", "grown", "pruned", "typo"}
    NumReleases = 2
    PlanOf <- TwoStagePlans
    PoolOf <- TwoStagePool
    Rejected <- TypoRejected
    Excluded = {"x"}
    Pruned = {"x"}
    LabelHas404 = {"b"}
    Truncates = {"a1", "b1"}
    NoPackage = NoPackage
    NoArchive = NoArchive
    MaxFaults = 3
INVARIANTS
    SeedingInv
    SeededUnlessExposed
    StagesAgree
PROPERTIES
    WorkIsKept
    
    RerunOnlyVerifies
