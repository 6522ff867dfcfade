SPECIFICATION GardenSpec
CONSTANTS
    MinuteLen = 1
    MinutesPerHour = 5
    HoursPerDay = 1
    Threads = {"scheduler", "web", "ui"}
    NoCall = NoCall
    SchedulerThread = "scheduler"
    LightStartHour = 0
    LightStartMin = 3
    LightDuration = 0
    PumpRunTime = 1
    FeedSleep = 1
    FeedWindow = 2
    MaxLag = 0
    BootTimes = {0}
    MaxTime = 7
    MaxRestarts = 1
    WebThreads = {"web"}
    UiThreads = {"ui"}
    ManualRunTime = 1
    StartSleep = 2
    Together = {{"info"}, {"settings"}, {"prime"}, {"start"}, {"light"}, {"update"}}
INVARIANT PumpHeals
INVARIANT FeederIsOwned
