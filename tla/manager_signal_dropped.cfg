SPECIFICATION Spec
CONSTANTS
    None = None
    BySignal = BySignal
    N = 3
    Stop <- MCStop
    Migrating = {1}
    Slack = 1
    Paths = {p1}
    FailCodes = {3}
    MaxHeight = 5
    MaxStarts = 2
    MaxSignals = 1
    MaxEdits = 0
PROPERTIES
    NoLaunchAfterDroppedSignal
CHECK_DEADLOCK FALSE
