SPECIFICATION FairSpec
CONSTANTS
    K = 2
    Stop <- MCStop
    Safety = 3
    Extra = 2
    Workers = 2
    Salt0 = 5
    SaltBits = 3
    Pace = 1
    Warmup = 1
    None = None

PROPERTY ResyncSoaksLastVersion
