SPECIFICATION FairSpec
CONSTANTS
    StallLimit = 1
    CountMod = 3
    ZeroStable = 1
    LockPasses = 2
    PhaseTicks = 1
    RampSteps = 0
PROPERTIES
    StallIsRetried
    StopReachesBridge
