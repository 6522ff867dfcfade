SPECIFICATION Spec
CONSTANTS
    MinuteLen = 1
    MinutesPerHour = 5
    HoursPerDay = 1
    Threads = {"scheduler"}
    NoCall = NoCall
    SchedulerThread = "scheduler"
    LightStartHour = 0
    LightStartMin = 1
    LightDuration = 2
    PumpRunTime = 2
    FeedSleep = 1
    FeedWindow = 2
    MaxLag = 12
    BootTimes = {0, 1, 2, 3, 4}
    MaxTime = 12
    MaxRestarts = 1
INVARIANT RelaysFollowFlags
PROPERTY DosesDaily
PROPERTY AtMostOneDosePerDay
