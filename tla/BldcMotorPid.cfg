SPECIFICATION WatchSpec
CONSTANTS
    StallLimit = 1
    CountMod = 3
    ZeroStable = 2
    LockPasses = 2
    PhaseTicks = 1
    RampSteps = 1
PROPERTIES
    PidWaitsForSpeed
