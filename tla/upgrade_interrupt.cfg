SPECIFICATION FairSpec
CONSTANTS
    M = 2
    MockDa = MockDa
    Cases = 2
    MaxInterrupts = 2

PROPERTY InterruptIsGraceful
