SPECIFICATION FairSpec
CONSTANTS
    None = None
    BySignal = BySignal
    N = 2
    Stop <- MCStopAll
    Migrating = {1}
    Slack = 1
    Paths = {p1}
    FailCodes = {3}
    MaxHeight = 4
    MaxStarts = 2
    MaxSignals = 1
    MaxEdits = 0
PROPERTIES
    ExitIsHandled
    OvershootIsStopped
    CompletionHandsOver
    PendingIsForwarded
CHECK_DEADLOCK FALSE
