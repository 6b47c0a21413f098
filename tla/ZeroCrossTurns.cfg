SPECIFICATION Spec
CONSTANTS
    FilterLen = 2
    ZeroStable = 2
    StallLimit = 11
    CountMod = 13
    DelayDiv = 7
    MinDwell = 3
    MaxDwell = 4
    SpeedCap = 12
    Coast = {3}
    Glitches = {}
PROPERTIES
    TwoTurnsFirst
