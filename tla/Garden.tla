------------------------------- MODULE Garden -------------------------------
(***************************************************************************)
(* The scheduler together with the threads that share its flags, the pins  *)
(* and localtime's buffer without any lock: the web server's threads, each *)
(* of which answers GET /info with Info::GetInfo and GET /settings with    *)
(* getSettings, and the thread of the touch screen, which runs one LVGL    *)
(* callback at a time.  As committed, main forces headless mode, so that   *)
(* UiThreads is empty; the screen is what the branch it skips would run.   *)
(*                                                                         *)
(* The calls a callback makes into Hardware, and its naps, are a script    *)
(* the thread works off.                                                   *)
(***************************************************************************)
EXTENDS Scheduler, Sequences

CONSTANTS
    WebThreads, UiThreads,
    ManualRunTime,      \* seconds of a manual pump run
    StartSleep,         \* seconds the "Start New Garden" button feeds
    Together            \* bound: what a behaviour may be asked, each at most once

Clients == WebThreads \cup UiThreads

(* GET /info and GET /settings; the status task and the screen's buttons   *)
Requests == {"info", "settings", "update", "light", "pump", "start", "prime"}

ASSUME ClientsAssumption ==
    /\ Clients \subseteq Threads \ {SchedulerThread}
    /\ WebThreads \cap UiThreads = {}
    /\ ManualRunTime \in Nat /\ StartSleep \in Nat
    /\ Together \subseteq SUBSET Requests

VARIABLES
    place,      \* where each client thread is
    readNow,    \* its local copy of the clock, 0 when out of use
    askedAt,    \* `n' of its IsPumpOn, 0 when out of use
    script,     \* what it has left to do: Hardware calls and naps
    napUntil,   \* earliest end of its current nap
    asked,      \* history: the clicks, updates and requests so far
    quiet       \* history: the seconds since a client last overwrote what
                \* the scheduler was about to read, up to Patience

clientVars == <<place, readNow, askedAt, script, napUntil, asked>>
gardenVars == <<vars, clientVars, quiet>>

(* The rest of an iteration, dose and sleep included, and the next one's   *)
(* share up to the pump are over by then: what a client left in the buffer *)
(* has been read, and what came of it put right.                           *)
Patience == MaxLag + FeedSleep + MaxLag + 1 + MaxLag + 1

ClientPlaces == {"idle", "pumpTimes", "isPumpOn", "pumpManual", "manualTest",
                 "manualOff", "manualClear", "pumpHour", "lightTimes", "isLightOn",
                 "isLightOnTest", "feedTime", "settings", "setOff", "setOn",
                 "turnedOff", "turnedOn", "offTest", "onTest", "offOverride",
                 "offFollow", "onOverride", "onFollow", "runNow", "runUntil", "runOn"}
Naps == {"nap", "start", "awake"}

GardenTypeOK ==
    /\ TypeOK
    /\ place \in [Clients -> ClientPlaces]
    /\ readNow \in [Clients -> Nat]
    /\ askedAt \in [Clients -> Nat]
    /\ script \in [Clients -> Seq(Operations \cup Naps)]
    /\ napUntil \in [Clients -> Nat]
    /\ asked \subseteq Requests
    /\ quiet \in 0 .. Patience

GardenInit ==
    /\ Init
    /\ place = [t \in Clients |-> "idle"]
    /\ readNow = [t \in Clients |-> 0]
    /\ askedAt = [t \in Clients |-> 0]
    /\ script = [t \in Clients |-> <<>>]
    /\ napUntil = [t \in Clients |-> 0]
    /\ asked = {}
    /\ quiet = Patience

schedulerLocals == <<pc, wakeAt, locals>>

(* Thread t is at place p, with nothing left to do in its script.          *)
Free(t, p) == place[t] = p /\ script[t] = <<>> /\ Idle(t)
Go(t, p) == place' = [place EXCEPT ![t] = p]
Do(t, steps) == script' = [script EXCEPT ![t] = steps]

(* A click or a request comes in.                                          *)
Request(r) ==
    /\ r \notin asked
    /\ asked' = asked \cup {r}
    /\ \E some \in Together : asked' \subseteq some

(* Every reader of localtime's buffer has it filled first, so that what a  *)
(* client leaves there only counts while somebody else stands between his  *)
(* own localtime and the use of its result.                                *)
SchedulerReads == pc \in {"lightTest", "pumpTest", "feedTest"}
Reads(t) == place[t] \in {"isLightOnTest", "offTest", "onTest"}

Leaves(t, times) ==
    IF SchedulerReads \/ \E u \in Clients \ {t} : Reads(u)
      THEN tm' \in times
      ELSE tm' = tm

(* One step of a script.                                                   *)
ScriptCall(t) ==
    /\ script[t] # <<>> /\ Head(script[t]) \in Operations
    /\ Invoke(t, Head(script[t]))
    /\ Do(t, Tail(script[t]))
    /\ UNCHANGED <<now, schedulerLocals, tm, flags, history, place, readNow, askedAt,
                   napUntil, asked>>

NapLength == [nap |-> 1, start |-> StartSleep]

ScriptNap(t) ==
    /\ script[t] # <<>> /\ Head(script[t]) \in {"nap", "start"} /\ Idle(t)
    /\ napUntil' = [napUntil EXCEPT ![t] = now + NapLength[Head(script[t])]]
    /\ Do(t, Tail(script[t]))
    /\ UNCHANGED <<vars, place, readNow, askedAt, asked>>

ScriptWake(t) ==
    /\ script[t] # <<>> /\ Head(script[t]) = "awake" /\ Idle(t)
    /\ napUntil[t] <= now
    /\ napUntil' = [napUntil EXCEPT ![t] = 0]
    /\ Do(t, Tail(script[t]))
    /\ UNCHANGED <<vars, place, readNow, askedAt, asked>>

-----------------------------------------------------------------------------
(* Info::GetInfo on a web thread.  The announced times only matter here    *)
(* for what they leave in localtime's buffer, ctime's included.            *)
GetInfo(t) ==
    /\ Free(t, "idle") /\ Request("info")
    /\ readNow' = [readNow EXCEPT ![t] = now]
    /\ Leaves(t, {now})
    /\ Go(t, "pumpTimes")
    /\ UNCHANGED <<now, schedulerLocals, flags, history, hardwareVars, askedAt,
                   script, napUntil>>

(* What the GetNext functions leave: the time as localtime breaks it down, *)
(* then one field after the other overwritten, then the result.            *)
PumpTimes ==
    {now, HourStart(now) + SecondOf(now), HourStart(now), GetNextPumpOn(now),
     GetNextPumpOff(now, PumpRunTime)}

LightTimes ==
    LET start == TimeOfDay(now, LightStartHour, LightStartMin) + SecondOf(now)
    IN  {now, TimeOfDay(now, LightStartHour, 0) + MinuteOf(now) + SecondOf(now), start,
         GetNextLightOn(now, LightStartHour, LightStartMin),
         GetNextLightOff(now, LightStartHour, LightStartMin, LightDuration)}

FeedTimes ==
    {now, Midnight(now) + MinuteOf(now) + SecondOf(now), Midnight(now) + SecondOf(now),
     GetNextFeeding(now)}

(* getSettings puts the time of every message of this process's log        *)
(* through the buffer, too.                                                *)
LogTimes == bootedAt .. now

LeavesInBuffer(p) ==
    CASE p = "pumpTimes"  -> PumpTimes
      [] p = "lightTimes" -> LightTimes
      [] p = "feedTime"   -> FeedTimes
      [] p = "settings"   -> LogTimes \cup LightTimes \cup PumpTimes \cup FeedTimes

After(p) ==
    CASE p = "pumpTimes" -> "isPumpOn" [] p = "lightTimes" -> "isLightOn"
      [] p = "feedTime" -> "idle" [] p = "settings" -> "settings"

Announcing == {"pumpTimes", "lightTimes", "feedTime", "settings"}

AnnounceTimes(t) ==
    \E p \in Announcing :
        /\ Free(t, p)
        /\ Leaves(t, LeavesInBuffer(p))
        /\ place' \in {place, [place EXCEPT ![t] = After(p)]}
        /\ UNCHANGED <<now, schedulerLocals, flags, history, hardwareVars,
                       readNow, askedAt, script, napUntil, asked>>

(* sched->IsPumpOn(now), with its side effects on a manual run             *)
InfoIsPumpOn(t) ==
    /\ Free(t, "isPumpOn")
    /\ askedAt' = [askedAt EXCEPT ![t] = now]
    /\ Go(t, IF pumpOn THEN "pumpManual" ELSE "pumpHour")
    /\ UNCHANGED <<vars, readNow, script, napUntil, asked>>

InfoPumpManual(t) ==
    /\ Free(t, "pumpManual")
    /\ Go(t, IF pumpToggleRunOff # Never THEN "manualTest" ELSE "pumpHour")
    /\ UNCHANGED <<vars, readNow, askedAt, script, napUntil, asked>>

InfoManualTest(t) ==
    /\ Free(t, "manualTest")
    /\ Go(t, IF askedAt[t] > pumpToggleRunOff THEN "manualOff" ELSE "lightTimes")
    /\ askedAt' = [askedAt EXCEPT ![t] = 0]
    /\ UNCHANGED <<vars, readNow, script, napUntil, asked>>

InfoManualOff(t) ==
    /\ Free(t, "manualOff")
    /\ pumpOn' = FALSE
    /\ Go(t, "manualClear")
    /\ UNCHANGED <<now, schedulerLocals, tm, lightOn, feeding, lightOverride,
                   pumpToggleRunOff, history, hardwareVars, readNow, askedAt, script,
                   napUntil, asked>>

InfoManualClear(t) ==
    /\ Free(t, "manualClear")
    /\ pumpToggleRunOff' = Never
    /\ Go(t, "lightTimes")
    /\ UNCHANGED <<now, schedulerLocals, tm, lightOn, pumpOn, feeding, lightOverride,
                   history, hardwareVars, readNow, askedAt, script, napUntil, asked>>

InfoPumpHour(t) ==
    /\ Free(t, "pumpHour")
    /\ Leaves(t, {HourStart(askedAt[t])})
    /\ askedAt' = [askedAt EXCEPT ![t] = 0]
    /\ Go(t, "lightTimes")
    /\ UNCHANGED <<now, schedulerLocals, flags, history, hardwareVars, readNow,
                   script, napUntil, asked>>

(* sched->IsLightOn(now), with its side effect on lightOn                  *)
InfoIsLightOn(t) ==
    /\ Free(t, "isLightOn")
    /\ tm' = TimeOfDay(now, LightStartHour, LightStartMin)
    /\ Go(t, "isLightOnTest")
    /\ UNCHANGED <<now, schedulerLocals, flags, history, hardwareVars, readNow,
                   askedAt, script, napUntil, asked>>

InfoIsLightOnTest(t) ==
    /\ Free(t, "isLightOnTest")
    /\ lightOn' = (lightOn /\ LightWindow(readNow[t]))
    /\ readNow' = [readNow EXCEPT ![t] = 0]
    /\ Do(t, <<"Sense", "Sense">>)      \* FeedLevel, WaterLevel
    /\ Go(t, "feedTime")
    /\ UNCHANGED <<now, schedulerLocals, tm, pumpOn, feeding, lightOverride,
                   pumpToggleRunOff, history, hardwareVars, askedAt, napUntil, asked>>

(* GET /settings, with a body that asks for any of the logs, the announced *)
(* times and the two levels.                                               *)
GetSettings(t) ==
    /\ Free(t, "idle") /\ Request("settings")
    /\ Go(t, "settings")
    /\ UNCHANGED <<vars, readNow, askedAt, script, napUntil>>

SettingsLevels(t) ==
    /\ Free(t, "settings")
    /\ \E levels \in {<<>>, <<"Sense">>, <<"Sense", "Sense">>} : Do(t, levels)
    /\ Go(t, "idle")
    /\ UNCHANGED <<vars, readNow, askedAt, napUntil, asked>>

-----------------------------------------------------------------------------
(* The screen's status task: the clock label and the two level sensors.    *)
UpdateUI(t) ==
    /\ Free(t, "idle") /\ Request("update")
    /\ Leaves(t, {now})
    /\ \E levels \in {<<>>, <<"Sense", "Sense">>} : Do(t, levels)
    /\ UNCHANGED <<now, schedulerLocals, flags, history, hardwareVars, place,
                   readNow, askedAt, napUntil>>

(* lightToggle_cb: SetLight, whose argument nobody reads.  It flips        *)
(* lightOn and then asks IsLightOn, side effect included, whether that     *)
(* goes against the schedule.                                              *)
SetLight(t) ==
    /\ Free(t, "idle") /\ Request("light")
    /\ Go(t, IF lightOn THEN "setOff" ELSE "setOn")
    /\ UNCHANGED <<vars, readNow, askedAt, script, napUntil>>

SetLightFlips(t) ==
    /\ Free(t, "setOff") \/ Free(t, "setOn")
    /\ lightOn' = (place[t] = "setOn")
    /\ Do(t, IF place[t] = "setOn" THEN <<>> ELSE <<"LightsOff">>)
    /\ Go(t, IF place[t] = "setOn" THEN "turnedOn" ELSE "turnedOff")
    /\ UNCHANGED <<now, schedulerLocals, tm, pumpOn, feeding, lightOverride,
                   pumpToggleRunOff, history, hardwareVars, readNow, askedAt, napUntil,
                   asked>>

SetLightAsks(t) ==
    /\ Free(t, "turnedOff") \/ Free(t, "turnedOn")
    /\ readNow' = [readNow EXCEPT ![t] = now]
    /\ tm' = TimeOfDay(now, LightStartHour, LightStartMin)
    /\ Go(t, IF place[t] = "turnedOff" THEN "offTest" ELSE "onTest")
    /\ UNCHANGED <<now, schedulerLocals, flags, history, hardwareVars, askedAt, script,
                   napUntil, asked>>

Answers ==
    [offTest |-> [yes |-> "offOverride", no |-> "offFollow"],
     onTest  |-> [yes |-> "onFollow",    no |-> "onOverride"]]

SetLightTest(t) ==
    \E p \in {"offTest", "onTest"} :
        /\ Free(t, p)
        /\ lightOn' = (lightOn /\ LightWindow(readNow[t]))
        /\ Go(t, IF LightWindow(readNow[t]) THEN Answers[p].yes ELSE Answers[p].no)
        /\ readNow' = [readNow EXCEPT ![t] = 0]
        /\ UNCHANGED <<now, schedulerLocals, tm, pumpOn, feeding, lightOverride,
                       pumpToggleRunOff, history, hardwareVars, askedAt, script,
                       napUntil, asked>>

SetLightOverrides(t) ==
    \E p \in {"offOverride", "offFollow", "onOverride", "onFollow"} :
        /\ Free(t, p)
        /\ lightOverride' = (p \in {"offOverride", "onOverride"})
        /\ Do(t, IF p \in {"onOverride", "onFollow"} THEN <<"LightsOn">> ELSE <<>>)
        /\ Go(t, "idle")
        /\ UNCHANGED <<now, schedulerLocals, tm, lightOn, pumpOn, feeding,
                       pumpToggleRunOff, history, hardwareVars, readNow, askedAt,
                       napUntil, asked>>

(* pumpToggle_cb: DoPumpToggleRun                                          *)
DoPumpToggleRun(t) ==
    /\ Free(t, "idle") /\ Request("pump") /\ ~pumpOn
    /\ Do(t, <<"PumpsOn">>)
    /\ Go(t, "runNow")
    /\ UNCHANGED <<vars, readNow, askedAt, napUntil>>

RunNow(t) ==
    /\ Free(t, "runNow")
    /\ readNow' = [readNow EXCEPT ![t] = now]
    /\ Go(t, "runUntil")
    /\ UNCHANGED <<vars, script, askedAt, napUntil, asked>>

RunUntil(t) ==
    /\ Free(t, "runUntil")
    /\ pumpToggleRunOff' = readNow[t] + ManualRunTime
    /\ readNow' = [readNow EXCEPT ![t] = 0]
    /\ Go(t, "runOn")
    /\ UNCHANGED <<now, schedulerLocals, tm, lightOn, pumpOn, feeding, lightOverride,
                   history, hardwareVars, script, askedAt, napUntil, asked>>

RunOn(t) ==
    /\ Free(t, "runOn")
    /\ pumpOn' = TRUE
    /\ Go(t, "idle")
    /\ UNCHANGED <<now, schedulerLocals, tm, lightOn, feeding, lightOverride,
                   pumpToggleRunOff, history, hardwareVars, readNow, script, askedAt,
                   napUntil, asked>>

(* feed_start_cb and prime_cb                                              *)
StartNewGarden(t) ==
    /\ Free(t, "idle") /\ Request("start")
    /\ Do(t, <<"PumpsOn", "FeedOn", "start", "awake", "FeedOff", "PumpsOff">>)
    /\ UNCHANGED <<vars, place, readNow, askedAt, napUntil>>

(* Mutation: the feeder is not turned off again.                           *)
PrimePumpOn(t) ==
    /\ Free(t, "idle") /\ Request("prime")
    /\ Do(t, <<"FeedOn", "nap", "awake">>)
    /\ UNCHANGED <<vars, place, readNow, askedAt, napUntil>>

PrimePump(t) ==
    /\ Free(t, "idle") /\ Request("prime")
    /\ Do(t, <<"FeedOn", "nap", "awake", "FeedOff">>)
    /\ UNCHANGED <<vars, place, readNow, askedAt, napUntil>>

-----------------------------------------------------------------------------
(* The scheduler's share of a manual run.  IsPumpOn lets its end decide    *)
(* whether the pump is on, and clears the flags when it is over ...        *)
ManualRun ==
    /\ Running("pumpManual")
    /\ pumpToggleRunOff # Never
    /\ pc' = "manualTest"
    /\ UNCHANGED <<now, wakeAt, locals, tm, flags, history, hardwareVars, clientVars>>

ManualTest ==
    /\ Running("manualTest")
    /\ pOn' = (readAt <= pumpToggleRunOff)
    /\ pc' = IF readAt <= pumpToggleRunOff THEN "toggleCheck" ELSE "manualOff"
    /\ readAt' = 0
    /\ UNCHANGED <<now, wakeAt, currentTime, shouldLightBeOn, tm, flags, history,
                   hardwareVars, clientVars>>

ManualOff ==
    /\ Running("manualOff")
    /\ pumpOn' = FALSE
    /\ pc' = "manualClear"
    /\ UNCHANGED <<now, wakeAt, locals, tm, lightOn, feeding, lightOverride,
                   pumpToggleRunOff, history, hardwareVars, clientVars>>

ManualClear ==
    /\ Running("manualClear")
    /\ pumpToggleRunOff' = Never
    /\ pc' = "toggleCheck"
    /\ UNCHANGED <<now, wakeAt, locals, tm, lightOn, pumpOn, feeding, lightOverride,
                   history, hardwareVars, clientVars>>

(* ... and schedulerLoop looks at its end once more, twice in one line.    *)
ToggleSeen ==
    /\ Running("toggleCheck")
    /\ pumpToggleRunOff # Never
    /\ pc' = "toggleTest"
    /\ UNCHANGED <<now, wakeAt, locals, tm, flags, history, hardwareVars, clientVars>>

ToggleTest ==
    /\ Running("toggleTest")
    /\ pc' = IF pumpToggleRunOff < currentTime THEN "toggleOff" ELSE "pumpCompare"
    /\ UNCHANGED <<now, wakeAt, locals, tm, flags, history, hardwareVars, clientVars>>

ToggleOff ==
    /\ Running("toggleOff")
    /\ pumpOn' = FALSE
    /\ pc' = "toggleClear"
    /\ UNCHANGED <<now, wakeAt, locals, tm, lightOn, feeding, lightOverride,
                   pumpToggleRunOff, history, hardwareVars, clientVars>>

(* Mutation: the end of the manual run is not cleared.                     *)
ToggleEndsUncleared ==
    /\ Running("toggleClear")
    /\ Invoke(SchedulerThread, "PumpsOff")
    /\ pc' = "pumpCompare"
    /\ UNCHANGED <<now, wakeAt, locals, tm, flags, history, clientVars>>

ToggleEnds ==
    /\ Running("toggleClear")
    /\ pumpToggleRunOff' = Never
    /\ Invoke(SchedulerThread, "PumpsOff")
    /\ pc' = "pumpCompare"
    /\ UNCHANGED <<now, wakeAt, locals, tm, lightOn, pumpOn, feeding, lightOverride,
                   history, clientVars>>

ManualStep ==
    \/ ManualRun \/ ManualTest \/ ManualOff \/ ManualClear
    \/ ToggleSeen \/ ToggleTest \/ ToggleOff \/ ToggleEnds

LoopStep == SchedulerStep /\ UNCHANGED clientVars

-----------------------------------------------------------------------------
ClientHardware(t) ==
    /\ HardwareStep(t)
    /\ Leaves(t, IF WritesRelay(t) THEN {now} ELSE {tm})
    /\ UNCHANGED <<now, schedulerLocals, flags, history, clientVars>>

WebStep(t) ==
    GetInfo(t) \/ AnnounceTimes(t) \/ InfoIsPumpOn(t) \/ InfoPumpManual(t)
      \/ InfoManualTest(t) \/ InfoManualOff(t) \/ InfoManualClear(t) \/ InfoPumpHour(t)
      \/ InfoIsLightOn(t) \/ InfoIsLightOnTest(t) \/ GetSettings(t) \/ SettingsLevels(t)

UiStep(t) ==
    UpdateUI(t) \/ SetLight(t) \/ SetLightFlips(t) \/ SetLightAsks(t) \/ SetLightTest(t)
      \/ SetLightOverrides(t) \/ DoPumpToggleRun(t) \/ RunNow(t) \/ RunUntil(t)
      \/ RunOn(t) \/ StartNewGarden(t) \/ PrimePump(t)

ScriptStep(t) ==
    ScriptCall(t) \/ ScriptNap(t) \/ ScriptWake(t) \/ ClientHardware(t)

ClientStep ==
    /\ \/ \E t \in WebThreads : WebStep(t)
       \/ \E t \in UiThreads : UiStep(t)
       \/ \E t \in Clients : ScriptStep(t)
    /\ quiet' = IF SchedulerReads /\ tm' # tm THEN 0 ELSE quiet

SchedulerRuns == (LoopStep \/ ManualStep) /\ UNCHANGED quiet

TimePasses ==
    /\ Tick
    /\ quiet' = IF quiet < Patience THEN quiet + 1 ELSE Patience
    /\ UNCHANGED clientVars

(* The clients' threads die with the process.                              *)
GardenCrash ==
    /\ Crash
    /\ place' = [t \in Clients |-> "idle"]
    /\ script' = [t \in Clients |-> <<>>]
    /\ readNow' = [t \in Clients |-> 0]
    /\ askedAt' = [t \in Clients |-> 0]
    /\ napUntil' = [t \in Clients |-> 0]
    /\ quiet' = Patience
    /\ UNCHANGED asked

GardenNext ==
    \/ SchedulerRuns
    \/ TimePasses
    \/ TimeIsUp /\ UNCHANGED <<clientVars, quiet>>
    \/ GardenCrash
    \/ ClientStep

GardenSpec == GardenInit /\ [][GardenNext]_gardenVars

(* The operating system runs the scheduler, and the clock goes on.  Nobody *)
(* owes the program a click or a request, and no fairness is assumed of    *)
(* the threads that handle them: they may stop between any two steps.      *)
FairGardenSpec ==
    /\ GardenSpec
    /\ WF_gardenVars(SchedulerRuns)
    /\ WF_gardenVars(TimePasses)
=============================================================================
