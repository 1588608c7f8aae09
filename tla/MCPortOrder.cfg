\* The computation ends, so it may stop.
SPECIFICATION FairSpec
CONSTANTS
    Names = {"a", "b", "c", "z"}
    Ports = {"a", "b", "c"}
    Graphs <- AllGraphs
    Requests <- AllRequests
INVARIANTS
    DependenciesFirst
    ListedOrderKept
PROPERTIES
    Resolves
    ImplementsBuildOrder
CHECK_DEADLOCK FALSE
