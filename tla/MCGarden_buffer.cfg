SPECIFICATION GardenSpec
CONSTANTS
    MinuteLen = 1
    MinutesPerHour = 5
    HoursPerDay = 1
    Threads = {"scheduler", "web"}
    NoCall = NoCall
    SchedulerThread = "scheduler"
    LightStartHour = 0
    LightStartMin = 3
    LightDuration = 3
    PumpRunTime = 2
    FeedSleep = 0
    FeedWindow = 1
    MaxLag = 1
    BootTimes = {0, 2}
    MaxTime = 6
    MaxRestarts = 0
    WebThreads = {"web"}
    UiThreads = {}
    ManualRunTime = 1
    StartSleep = 2
    Together = {{"info"}}
PROPERTY AtMostOneDosePerDay
