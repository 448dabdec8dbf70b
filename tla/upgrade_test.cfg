SPECIFICATION FairSpec
CONSTANTS
    M = 3
    MockDa = MockDa
    Cases = 2
    MaxInterrupts = 2
INVARIANTS UpgradeTestInv NothingRunsOnClearedStorage PhaseStartsOnItsData NoContainerLeft NoProcessLeft
PROPERTIES TermBeforeKill OneFailureEndsAll
