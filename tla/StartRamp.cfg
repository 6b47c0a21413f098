SPECIFICATION Spec
CONSTANTS
    FirstPhase = 900
    LastPhase = 180
    StallLimit = 15000
    MaxDuty = 2047
    EarlyTicks = {1}
    CoolDown = 2200
    CommandTicks = {1, 2, 1000}
    StoreTicks = {1800, 2200}
    VoltsCap = 16
PROPERTIES
    ShortestBeforeStall
