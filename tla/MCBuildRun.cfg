SPECIFICATION FairSpec
CONSTANTS
    Ports <- ThreePorts
    Needs <- ThreeNeeds
    Links <- ThreeLinks
    HostTools = {"tool"}
    Critical = {"core"}
    Seeds = {"lib"}
    Kernels = {"k1", "k2"}
    Requests <- AllOrLib
    MaxFaults = 3
INVARIANTS
    BuildTypeOK
    DependenciesInPlace
    ImageOfOneRun
    ImageIsComplete
    LinkIsWhole
PROPERTIES
    BuildConverges
