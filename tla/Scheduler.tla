----------------------------- MODULE Scheduler ------------------------------
(***************************************************************************)
(* Scheduler.cpp on top of Hardware.cpp: the scheduler thread, the flags   *)
(* it shares with the other threads, the clock it reads, and the service   *)
(* manager that restarts a process that died.  One action is one access to *)
(* the flags, so that a condition on two of them, and a flag that is       *)
(* written and read again, are several; a call into Hardware is the        *)
(* callee's own steps.  Reading the clock is taken together with the       *)
(* access that follows it, and localtime with the fields set right after.  *)
(*                                                                         *)
(* `now' is what time(nullptr) returns.  usleep(s) ends at any moment at   *)
(* which s whole seconds have gone by; MaxLag is how far behind the end of *)
(* its last sleep the thread may be, so that a MaxLag beyond MaxTime says  *)
(* nothing about the machine's speed.                                      *)
(***************************************************************************)
EXTENDS GardenTime, Hardware

CONSTANTS
    SchedulerThread,
    LightStartHour, LightStartMin,  \* Settings, in hours and minutes
    LightDuration,                  \* Settings, in minutes
    PumpRunTime,                    \* Settings, in seconds
    FeedSleep,      \* whole seconds of DailyMLFood / MLPSEC
    FeedWindow,     \* the same quotient, rounded
    MaxLag,         \* see above
    BootTimes,      \* bound: the times at which the device is switched on
    MaxTime,        \* bound: the clock stops here
    MaxRestarts     \* bound: crashes of the process

ASSUME SettingsAssumption ==
    /\ SchedulerThread \in Threads
    /\ LightStartHour \in Nat /\ LightStartMin \in Nat
    /\ LightDuration \in Nat /\ PumpRunTime \in Nat
    /\ FeedSleep \in Nat /\ FeedWindow \in {FeedSleep, FeedSleep + 1}
    /\ BootTimes \subseteq Nat
    /\ MaxLag \in Nat /\ MaxTime \in Nat /\ MaxRestarts \in Nat
    /\ NoCall \notin Calls

VARIABLES
    now,                \* the system clock
    pc,                 \* where schedulerLoop is
    wakeAt,             \* earliest end of the current, or last, usleep
    currentTime, shouldLightBeOn, pOn,   \* locals of schedulerLoop
    readAt,             \* `n' of IsPumpOn and `now' of feedingTime
    tm,                 \* the static buffer localtime returns
    lightOn, pumpOn, feeding, lightOverride, pumpToggleRunOff,
    fedAt,              \* history: when a daily dose was last started
    fedByMe,            \* history: by the process that runs now
    bootedAt,           \* history: when the running process was started
    restarts            \* history: how often it was restarted

locals == <<currentTime, shouldLightBeOn, pOn, readAt>>
flags == <<lightOn, pumpOn, feeding, lightOverride, pumpToggleRunOff>>
history == <<fedAt, fedByMe, bootedAt, restarts>>
vars == <<now, pc, wakeAt, locals, tm, flags, history, hardwareVars>>

Never == -1

(* Where schedulerLoop may be, a manual run's places, which only Garden    *)
(* gets to, among them.                                                    *)
ManualPlaces == {"manualTest", "manualOff", "manualClear",
                 "toggleTest", "toggleOff", "toggleClear"}

Places == {"top", "lightStart", "lightTest", "lightCompare", "lightOverridden",
           "lightSet", "lightCall", "pumpStart", "pumpManual", "pumpHour",
           "pumpTest", "toggleCheck", "pumpCompare", "pumpToggle", "pumpSet",
           "pumpCall", "feedStart", "feedTest", "feed", "feeding", "feedSleep",
           "rest", "sleep"} \cup ManualPlaces

TypeOK ==
    /\ HardwareTypeOK
    /\ pc \in Places
    /\ now \in Nat /\ wakeAt \in Nat /\ bootedAt \in Nat /\ restarts \in Nat
    /\ currentTime \in Nat /\ readAt \in Nat /\ tm \in Nat
    /\ fedAt \in Nat \cup {Never} /\ pumpToggleRunOff \in Nat \cup {Never}
    /\ shouldLightBeOn \in BOOLEAN /\ pOn \in BOOLEAN /\ lightOn \in BOOLEAN
    /\ pumpOn \in BOOLEAN /\ feeding \in BOOLEAN /\ lightOverride \in BOOLEAN
    /\ fedByMe \in BOOLEAN

(* A new process: members have their initialisers, locals are not yet set. *)
ProcessStart ==
    /\ pc' = "top" /\ wakeAt' = now /\ bootedAt' = now
    /\ currentTime' = 0 /\ readAt' = 0 /\ tm' = 0
    /\ shouldLightBeOn' = FALSE /\ pOn' = FALSE
    /\ lightOn' = FALSE /\ pumpOn' = FALSE /\ feeding' = FALSE
    /\ lightOverride' = FALSE /\ pumpToggleRunOff' = Never
    /\ fedByMe' = FALSE

Init ==
    /\ HardwareInit
    /\ now \in BootTimes
    /\ pc = "top" /\ wakeAt = now /\ bootedAt = now
    /\ currentTime = 0 /\ readAt = 0 /\ tm = 0
    /\ shouldLightBeOn = FALSE /\ pOn = FALSE
    /\ lightOn = FALSE /\ pumpOn = FALSE /\ feeding = FALSE
    /\ lightOverride = FALSE /\ pumpToggleRunOff = Never
    /\ fedAt = Never /\ fedByMe = FALSE /\ restarts = 0

-----------------------------------------------------------------------------
(* schedulerLoop is at place p and not inside a Hardware call.             *)
Running(p) == pc = p /\ Idle(SchedulerThread)

(* currentTime = time(nullptr)                                             *)
ReadClock ==
    /\ Running("top")
    /\ currentTime' = now
    /\ pc' = "lightStart"
    /\ UNCHANGED <<now, wakeAt, shouldLightBeOn, pOn, readAt, tm, flags,
                   history, hardwareVars>>

(* IsLightOn reads the clock again to find today's start.                  *)
LightStart ==
    /\ Running("lightStart")
    /\ tm' = TimeOfDay(now, LightStartHour, LightStartMin)
    /\ pc' = "lightTest"
    /\ UNCHANGED <<now, wakeAt, locals, flags, history, hardwareVars>>

(* IsLightOn compares its argument, and clears lightOn when it says no.    *)
LightWindow(t) == InWindow(t, tm, LightDuration * MinuteLen)

LightTest ==
    /\ Running("lightTest")
    /\ shouldLightBeOn' = LightWindow(currentTime)
    /\ lightOn' = (lightOn /\ LightWindow(currentTime))
    /\ pc' = "lightCompare"
    /\ UNCHANGED <<now, wakeAt, currentTime, pOn, readAt, tm, pumpOn, feeding,
                   lightOverride, pumpToggleRunOff, history, hardwareVars>>

(* if (shouldLightBeOn != lightOn && !lightOverride): lightOn is read ...  *)
LightDiffers ==
    /\ Running("lightCompare")
    /\ shouldLightBeOn # lightOn
    /\ pc' = "lightOverridden"
    /\ UNCHANGED <<now, wakeAt, locals, tm, flags, history, hardwareVars>>

(* Mutation: the test of the override is negated.                          *)
MaySwitchLightNegated == lightOverride

MaySwitchLight == ~lightOverride

(* ... and then lightOverride.                                             *)
LightGoesAhead ==
    /\ Running("lightOverridden")
    /\ MaySwitchLight
    /\ pc' = "lightSet"
    /\ UNCHANGED <<now, wakeAt, locals, tm, flags, history, hardwareVars>>

LightStays ==
    /\ \/ Running("lightCompare") /\ shouldLightBeOn = lightOn
       \/ Running("lightOverridden") /\ ~MaySwitchLight
    /\ pc' = "pumpStart"
    /\ UNCHANGED <<now, wakeAt, locals, tm, flags, history, hardwareVars>>

LightSet ==
    /\ Running("lightSet")
    /\ lightOn' = shouldLightBeOn
    /\ pc' = "lightCall"
    /\ UNCHANGED <<now, wakeAt, locals, tm, pumpOn, feeding, lightOverride,
                   pumpToggleRunOff, history, hardwareVars>>

(* The member, not the local, picks the branch.                            *)
LightSwitches ==
    /\ Running("lightCall")
    /\ Invoke(SchedulerThread, IF lightOn THEN "LightsOn" ELSE "LightsOff")
    /\ pc' = "pumpStart"
    /\ UNCHANGED <<now, wakeAt, locals, tm, flags, history>>

-----------------------------------------------------------------------------
(* IsPumpOn.  While a manual run is on its end decides, which Garden adds; *)
(* nobody starts one here.  Otherwise the start of the hour does.          *)
PumpStart ==
    /\ Running("pumpStart")
    /\ readAt' = now
    /\ pc' = IF pumpOn THEN "pumpManual" ELSE "pumpHour"
    /\ UNCHANGED <<now, wakeAt, currentTime, shouldLightBeOn, pOn, tm, flags,
                   history, hardwareVars>>

NoManualRun ==
    /\ Running("pumpManual")
    /\ pumpToggleRunOff = Never
    /\ pc' = "pumpHour"
    /\ UNCHANGED <<now, wakeAt, locals, tm, flags, history, hardwareVars>>

PumpHour ==
    /\ Running("pumpHour")
    /\ tm' = HourStart(readAt)
    /\ readAt' = 0          \* out of scope
    /\ pc' = "pumpTest"
    /\ UNCHANGED <<now, wakeAt, currentTime, shouldLightBeOn, pOn, flags,
                   history, hardwareVars>>

(* Mutation: the window is closed where it should be half-open.            *)
PumpWindowClosed(t) == tm <= t /\ t <= tm + PumpRunTime

PumpWindow(t) == InWindow(t, tm, PumpRunTime)

PumpTest ==
    /\ Running("pumpTest")
    /\ pOn' = PumpWindow(currentTime)
    /\ pc' = "toggleCheck"
    /\ UNCHANGED <<now, wakeAt, currentTime, shouldLightBeOn, readAt, tm, flags,
                   history, hardwareVars>>

(* No manual run to end.                                                   *)
ToggleGoesOn ==
    /\ Running("toggleCheck")
    /\ pumpToggleRunOff = Never
    /\ pc' = "pumpCompare"
    /\ UNCHANGED <<now, wakeAt, locals, tm, flags, history, hardwareVars>>

(* if (pOn != pumpOn && pumpToggleRunOff==-1): pumpOn is read ...          *)
PumpDiffers ==
    /\ Running("pumpCompare")
    /\ pOn # pumpOn
    /\ pc' = "pumpToggle"
    /\ UNCHANGED <<now, wakeAt, locals, tm, flags, history, hardwareVars>>

(* ... and then pumpToggleRunOff.                                          *)
PumpGoesAhead ==
    /\ Running("pumpToggle")
    /\ pumpToggleRunOff = Never
    /\ pc' = "pumpSet"
    /\ UNCHANGED <<now, wakeAt, locals, tm, flags, history, hardwareVars>>

(* The locals of schedulerLoop are not read again in this iteration.       *)
LeaveScope == currentTime' = 0 /\ shouldLightBeOn' = FALSE /\ pOn' = FALSE

PumpStays ==
    /\ \/ Running("pumpCompare") /\ pOn = pumpOn
       \/ Running("pumpToggle") /\ pumpToggleRunOff # Never
    /\ pc' = "feedStart"
    /\ LeaveScope
    /\ UNCHANGED <<now, wakeAt, readAt, tm, flags, history, hardwareVars>>

PumpSet ==
    /\ Running("pumpSet")
    /\ pumpOn' = pOn
    /\ pc' = "pumpCall"
    /\ UNCHANGED <<now, wakeAt, locals, tm, lightOn, feeding, lightOverride,
                   pumpToggleRunOff, history, hardwareVars>>

(* Mutation: the else branch, which turns the pump off, is missing.        *)
PumpSwitchesOnOnly ==
    /\ Running("pumpCall")
    /\ IF pumpOn THEN Invoke(SchedulerThread, "PumpsOn") ELSE UNCHANGED hardwareVars
    /\ pc' = "feedStart"
    /\ LeaveScope
    /\ UNCHANGED <<now, wakeAt, readAt, tm, flags, history>>

(* Again the member picks the branch.                                      *)
PumpSwitches ==
    /\ Running("pumpCall")
    /\ Invoke(SchedulerThread, IF pumpOn THEN "PumpsOn" ELSE "PumpsOff")
    /\ pc' = "feedStart"
    /\ LeaveScope
    /\ UNCHANGED <<now, wakeAt, readAt, tm, flags, history>>

-----------------------------------------------------------------------------
(* feedingTime                                                             *)
FeedStart ==
    /\ Running("feedStart")
    /\ readAt' = now
    /\ tm' = Midnight(now)
    /\ pc' = "feedTest"
    /\ UNCHANGED <<now, wakeAt, currentTime, shouldLightBeOn, pOn, flags, history,
                   hardwareVars>>

(* Mutation: the window is truncated to whole seconds instead of rounded.  *)
FeedTestTruncated ==
    /\ Running("feedTest")
    /\ pc' = IF InWindow(readAt, tm, FeedSleep) THEN "feed" ELSE "rest"
    /\ readAt' = 0
    /\ UNCHANGED <<now, wakeAt, currentTime, shouldLightBeOn, pOn, tm, flags, history,
                   hardwareVars>>

FeedTest ==
    /\ Running("feedTest")
    /\ pc' = IF InWindow(readAt, tm, FeedWindow) THEN "feed" ELSE "rest"
    /\ readAt' = 0          \* out of scope
    /\ UNCHANGED <<now, wakeAt, currentTime, shouldLightBeOn, pOn, tm, flags, history,
                   hardwareVars>>

(* doFeeding: FeedOn, usleep, FeedOff.                                     *)
Feed ==
    /\ Running("feed")
    /\ feeding' = TRUE
    /\ Invoke(SchedulerThread, "FeedOn")
    /\ pc' = "feeding"
    /\ UNCHANGED <<now, wakeAt, locals, tm, lightOn, pumpOn, lightOverride,
                   pumpToggleRunOff, history>>

(* Mutation: usleep is given a fraction of a second.                       *)
FeedRunsShort ==
    /\ Running("feeding")
    /\ wakeAt' = now
    /\ pc' = "feedSleep"
    /\ UNCHANGED <<now, locals, tm, flags, history, hardwareVars>>

FeedRuns ==
    /\ Running("feeding")
    /\ wakeAt' = now + FeedSleep
    /\ pc' = "feedSleep"
    /\ UNCHANGED <<now, locals, tm, flags, history, hardwareVars>>

FeedEnds ==
    /\ Running("feedSleep")
    /\ wakeAt <= now
    /\ Invoke(SchedulerThread, "FeedOff")
    /\ pc' = "rest"
    /\ UNCHANGED <<now, wakeAt, locals, tm, flags, history>>

(* Mutation: the loop does not sleep between two iterations.               *)
RestNot ==
    /\ Running("rest")
    /\ wakeAt' = now
    /\ pc' = "sleep"
    /\ UNCHANGED <<now, locals, tm, flags, history, hardwareVars>>

(* usleep(1000000) at the end of an iteration                              *)
Rest ==
    /\ Running("rest")
    /\ wakeAt' = now + 1
    /\ pc' = "sleep"
    /\ UNCHANGED <<now, locals, tm, flags, history, hardwareVars>>

Wake ==
    /\ Running("sleep")
    /\ wakeAt <= now
    /\ pc' = "top"
    /\ UNCHANGED <<now, wakeAt, locals, tm, flags, history, hardwareVars>>

-----------------------------------------------------------------------------
(* StateChange::Change, which every function that writes a relay ends      *)
(* with, puts the time of the change through localtime's buffer.           *)
WritesRelay(t) == At(t, "write") /\ call[t].op \in Relays
Notes(t) == tm' = IF WritesRelay(t) THEN now ELSE tm

(* The scheduler's own steps inside Hardware.  The dose starts, for the    *)
(* history, when the pin is raised.                                        *)
RaisesFeed(t) == At(t, "write") /\ call[t].op = "FeedOn"

SchedulerHardware ==
    /\ HardwareStep(SchedulerThread)
    /\ Notes(SchedulerThread)
    /\ fedAt' = IF RaisesFeed(SchedulerThread) THEN now ELSE fedAt
    /\ fedByMe' = (fedByMe \/ RaisesFeed(SchedulerThread))
    /\ UNCHANGED <<now, pc, wakeAt, locals, flags, bootedAt, restarts>>

SchedulerStep ==
    \/ ReadClock \/ LightStart \/ LightTest
    \/ LightDiffers \/ LightGoesAhead \/ LightStays \/ LightSet \/ LightSwitches
    \/ PumpStart \/ NoManualRun \/ PumpHour \/ PumpTest \/ ToggleGoesOn
    \/ PumpDiffers \/ PumpGoesAhead \/ PumpStays \/ PumpSet \/ PumpSwitches
    \/ FeedStart \/ FeedTest \/ Feed \/ FeedRuns \/ FeedEnds
    \/ Rest \/ Wake \/ SchedulerHardware

(* Time goes by, as long as the scheduler is not MaxLag behind.            *)
Tick ==
    /\ now < MaxTime
    /\ now < wakeAt + MaxLag
    /\ now' = now + 1
    /\ UNCHANGED <<pc, wakeAt, locals, tm, flags, history, hardwareVars>>

(* Build/HydroGarden.service restarts a process that died, at any point.   *)
Crash ==
    /\ restarts < MaxRestarts
    /\ restarts' = restarts + 1
    /\ ProcessStart
    /\ HardwareLost
    /\ UNCHANGED <<now, fedAt>>

(* The end of the modelled time: the bound, not the program, stops here.   *)
TimeIsUp ==
    /\ now = MaxTime
    /\ UNCHANGED vars

Next == SchedulerStep \/ Tick \/ Crash \/ TimeIsUp

Spec == Init /\ [][Next]_vars
=============================================================================
