SPECIFICATION Spec
CONSTANTS
    MinuteLen = 2
    MinutesPerHour = 9
    HoursPerDay = 2
    Threads = {"scheduler"}
    NoCall = NoCall
    SchedulerThread = "scheduler"
    LightStartHour = 1
    LightStartMin = 1
    LightDuration = 4
    PumpRunTime = 8
    FeedSleep = 3
    FeedWindow = 4
    MaxLag = 1
    BootTimes = {0, 8, 17, 21, 30, 35}
    MaxTime = 74
    MaxRestarts = 0
INVARIANT LightGoesOff
