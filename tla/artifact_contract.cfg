SPECIFICATION Spec
CONSTANTS
    None = None
    Torn = Torn
    LocalHead = LocalHead
    u1 = u1
    u2 = u2
    c1 = c1
    c2 = c2
    c3 = c3
    m1 = m1
    Urls = {u1, u2}
    Commits = {c1, c2, c3}
    CommitsOf <- MCCommitsOf
    Targets <- MCTargets
    Jobs <- MCJobs
    DefaultUrl = u1
    SetupUrls = {u1, u2}
    Rollup <- MCRollup
    Soak <- MCSoak
    MockDa <- MCMockDa
    SetupTargets <- MCSetupTargets
    BuildCalls <- MCBuildCalls
    TestCases <- MCTestCases
    Migrations = {m1}
    VersionSpecs <- MCVersionSpecs
    MaxRuns = 2
INVARIANTS
    GetsItsBinaries
CHECK_DEADLOCK FALSE
