SPECIFICATION GardenSpec
CONSTANTS
    MinuteLen = 1
    MinutesPerHour = 10
    HoursPerDay = 1
    Threads = {"scheduler", "ui"}
    NoCall = NoCall
    SchedulerThread = "scheduler"
    LightStartHour = 0
    LightStartMin = 3
    LightDuration = 3
    PumpRunTime = 2
    FeedSleep = 0
    FeedWindow = 1
    MaxLag = 1
    BootTimes = {3}
    MaxTime = 10
    MaxRestarts = 0
    WebThreads = {}
    UiThreads = {"ui"}
    ManualRunTime = 1
    StartSleep = 2
    Together = {{"pump"}}
INVARIANT PumpStops
