SPECIFICATION Spec
CONSTANTS
    None = None
    BySignal = BySignal
    N = 3
    Stop <- MCStopEach
    Migrating = {1}
    Slack = 1
    Paths = {p1, p2}
    FailCodes = {3}
    MaxHeight = 6
    MaxStarts = 2
    MaxSignals = 1
    MaxEdits = 1
INVARIANTS
    ManagerInv
    CheckpointNamesRunner
    UpgradedNearStop
    MigratedBeforeRun
    ZeroMeansDone
PROPERTIES
    NoNodeLeftBehind
    BinaryPinned
    ImplementsUpgradeSequence ImplementsManagerProcess
CHECK_DEADLOCK FALSE
