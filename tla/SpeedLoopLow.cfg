SPECIFICATION Spec
CONSTANTS
    Kp = 1
    Ki = 1
    MaxDuty = 5
    OutMax = 4
    MinDuty = 2
    RampDuty = 3
    DefaultSpeed = 1
    Wanted = {1, 3}
    Natural = {2}
    Readings = {0, 4}
    LpfOld = 1
    LpfNew = 1
PROPERTIES
    LowOutputGetsLeastDuty
