SPECIFICATION ServicesSpec
CONSTANTS
    RtcRings = {"critical", "non_critical"}
    RtcSize <- SmallRings
    RtcHeader <- SmallHeaders
    RtcData = {2}
    RtcMetas = 2
    RtcMaxMade = 3
    InsRoom = 1
    InsReadBuf = 1
    InsMaxMade = 2
    InsMaxId = 2
    RptCallers = {"mqtt", "local"}
    RptValues = {"v0", "v1"}
    RptFirst = "v0"
    RptMaxBudget = 1
    RptBudget = 0
    RptRevive = 1
    RptMaxUpdates = 3
    RptMaxGranted = 2
    WqContexts = {"a", "b"}
    WqTasks = {"t1", "t2"}
    WqSize = 2
    WqMaxMade = 2
    AgtUsers = {"u1", "u2"}
    AgtMaxStarts = 2
    AgtMaxResets = 1
    AgtMaxId = 3
    DatSlots = 2
    DatDays = 2
    DatYears = 2
    DatWeekSets <- WeekSets
    DatMonthSets <- MonthSets
    SchKinds = {"relative", "day_once", "date_once", "date_until", "repeat"}
    SchDelay = 2
    SchPeriod = 3
    SchLast = 3
    SchWrap = 3
    SchRoom = 1
    SchMaxTime = 6
    SchMaxCommands = 3
    SchMaxResets = 1
    OtaMaxJobs = 2
    OtaMaxResets = 2
    OtaMaxOffers = 2
    OtaDay = 6
    OtaWindows <- Windows
    WifiMaxRetries = 2
    WifiTries = 3
    WifiMaxDrops = 2
    WifiMaxEvents = 5
    FanCallers = {"mqtt", "local"}
    FanSpeeds = {300, 800}
    FanFirst = 300
    GluLoopTopics = {"params"}
    GluWorkTopics = {"ota"}
    GluSlots = 2
    GluParts = 2
    GluMaxCalls = 3
    GluMaxDrops = 1
    GluMaxMessages = 2
    ClmIds = {"n1", "n2"}
    ClmParts = 2
    ClmMaxResets = 2
    ClmMaxTries = 2
INVARIANTS
    ServicesTypeOK
    InsLostOnlyByRace
    RptStaleOnlyByClash
    RptBudgetBound
    WqQueueOutlivesTask
    AgtKnownUser
    DatNextIsEarliest
    SchEnabledArmed
    SchOnceThenOff
    OtaSuccessIsTrue
    OtaWakesInWindow
    FanShownIsTrue
    GluResubscribed
    GluWholeMessages
    LocServesAlone
    ClmCredentialsFit
PROPERTIES
    RtcFifoSpec
    WqTaskServes
    AgtParamsFollow
    WifiMainGoesOn
    LocServes
    ClmGoesOn
CHECK_DEADLOCK FALSE
