SPECIFICATION Spec
CONSTANTS
    FilterLen = 2
    ZeroStable = 2
    StallLimit = 10
    CountMod = 14
    DelayDiv = 5
    MinDwell = 3
    MaxDwell = 3
    SpeedCap = 5
    Coast = {2}
    Glitches = {0}
INVARIANTS
    StallNotMissed
PROPERTIES
    CommutatesShownCode
