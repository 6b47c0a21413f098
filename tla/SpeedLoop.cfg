SPECIFICATION FairSpec
CONSTANTS
    Kp = 1
    Ki = 1
    MaxDuty = 3
    OutMax = 3
    MinDuty = 2
    RampDuty = 3
    DefaultSpeed = 1
    Wanted = {1, 3}
    Natural = {2}
    Readings = {2}
    LpfOld = 0
    LpfNew = 1
PROPERTIES
    CleanStart
    SetPointFollows
    ControllerEngages
