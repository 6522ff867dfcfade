SPECIFICATION FairGardenSpec
CONSTANTS
    MinuteLen = 1
    MinutesPerHour = 3
    HoursPerDay = 1
    Threads = {"scheduler", "web", "ui"}
    NoCall = NoCall
    SchedulerThread = "scheduler"
    LightStartHour = 0
    LightStartMin = 1
    LightDuration = 0
    PumpRunTime = 1
    FeedSleep = 0
    FeedWindow = 0
    MaxLag = 0
    BootTimes = {0}
    MaxTime = 3
    MaxRestarts = 0
    WebThreads = {"web"}
    UiThreads = {"ui"}
    ManualRunTime = 0
    StartSleep = 1
    Together = {{"info", "pump"}}
INVARIANT GardenTypeOK
PROPERTY ManualRunEnds
