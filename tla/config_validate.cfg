SPECIFICATION MCSpec
CONSTANTS
    None = None
    W = 2
    MaxVersions = 3
    Ports = {1, 2}
    Storages = {"data", "data_replica", "master"}
    NodeName <- MCNodeName
    MaxReplicas = 2
    Elsewhere = Elsewhere
    Bad = Bad
INVARIANTS
    NeverUnwrapsNone
    AcceptedPartitionsHeights
    FirstFaultIsNamed
    SimInv
    PhasesStartFresh
    NodesKeepApart
    ConfigsInPlace
    MigratesWithItsVersion
    ResyncIsAccepted
    SoakStopsWithNodes
CHECK_DEADLOCK FALSE
