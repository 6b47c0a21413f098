SPECIFICATION OtaSpec
CONSTANTS
    OtaMaxJobs = 1
    OtaMaxResets = 1
    OtaMaxOffers = 1
    OtaDay = 6
    OtaWindows = {}
INVARIANT OtaFlagMeansRollback
CHECK_DEADLOCK FALSE
