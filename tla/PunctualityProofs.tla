------------------------- MODULE PunctualityProofs --------------------------
(***************************************************************************)
(* Proofs of the scheduler's deadlines: the pump, the light and the daily  *)
(* dose are seen to in time by a thread that is at most MaxLag late, for   *)
(* every calendar, every setting that leaves the dose room in its hour,    *)
(* and any crashes.                                                        *)
(***************************************************************************)
EXTENDS SchedulerProofs

-----------------------------------------------------------------------------
(* What is known of the clock and the loop at every place.                 *)
LightDecided == {"lightCompare", "lightOverridden", "lightSet", "lightCall"}
PumpDecided == {"toggleCheck", "pumpCompare", "pumpToggle", "pumpSet", "pumpCall"}
Looking == {"lightStart", "lightTest", "pumpStart", "pumpManual", "pumpHour", "pumpTest"}
             \cup LightDecided \cup PumpDecided

Calling(op) == ~Idle(SchedulerThread) /\ call[SchedulerThread].op = op

(* An iteration that a dose held up begins no later than this and so ends  *)
(* in the first hour of the day; `spare' is what is left until then.       *)
HeldUp(spare) == wakeAt + spare <= Midnight(now) + FeedWindow + FeedSleep + 2 * MaxLag

(* The loop is at most MaxLag behind, and slept as long as it was told to. *)
Awake ==
    /\ now <= wakeAt + MaxLag
    /\ pc \notin {"sleep", "feedSleep"} => wakeAt <= now
    /\ pc = "sleep" => wakeAt <= now + 1
    /\ pc = "feedSleep" => wakeAt <= now + FeedSleep
    /\ pc \in {"feed", "feeding"} => wakeAt < Midnight(now) + FeedWindow
    /\ pc = "feedSleep" => wakeAt < Midnight(now) + FeedWindow + FeedSleep + MaxLag

(* A decision is made with a clock read since the loop woke up, and with a *)
(* start of the hour, or of the light, read since then.                    *)
Fresh ==
    /\ pc \in Looking => wakeAt <= currentTime /\ currentTime <= now
    /\ pc = "lightTest" =>
         /\ TimeOfDay(currentTime, LightStartHour, LightStartMin) <= tm
         /\ tm <= TimeOfDay(now, LightStartHour, LightStartMin)
    /\ pc \in {"pumpManual", "pumpHour"} => currentTime <= readAt /\ readAt <= now
    /\ pc = "pumpTest" => HourStart(currentTime) <= tm /\ tm <= HourStart(now)
    /\ pc = "feedTest" =>
         wakeAt <= readAt /\ readAt <= now /\ tm = Midnight(readAt)

(* From the comparison with the flag to the call the flag only changes     *)
(* where it is set, and no manual run is there to be ended.                *)
Settled ==
    /\ pc \notin ManualPlaces
    /\ pc \in {"lightOverridden", "lightSet"} => shouldLightBeOn # lightOn
    /\ pc = "lightCall" => lightOn = shouldLightBeOn
    /\ pc \in {"pumpToggle", "pumpSet"} => pOn # pumpOn
    /\ pc = "pumpCall" => pumpOn = pOn

(* Where the loop calls what.                                              *)
CallPlaces ==
    /\ Calling("LightsOn") \/ Calling("LightsOff") => pc = "pumpStart"
    /\ Calling("PumpsOn") \/ Calling("PumpsOff") => pc = "feedStart"
    /\ Calling("FeedOn") => pc = "feeding"
    /\ Calling("FeedOff") => pc = "rest"

ClockInv ==
    /\ FlagsInv /\ ~lightOverride /\ bootedAt <= now
    /\ Awake /\ Fresh /\ Settled /\ CallPlaces

-----------------------------------------------------------------------------
(* The loop has yet to act on what fell due at time d; this iteration      *)
(* will, and began soon enough.                                            *)
Catching(d) ==
    \/ wakeAt <= d + MaxLag
    \/ HeldUp(0) /\ wakeAt <= d + FeedSleep + 2 * MaxLag

(* This iteration looked before time d; the next one will act.             *)
Missed(d) ==
    IF pc \in {"feedSleep", "rest"}
      THEN wakeAt < d \/ (HeldUp(MaxLag + 1) /\ wakeAt < d + FeedSleep + MaxLag)
      ELSE wakeAt < d

PumpAhead == {"sleep", "top", "lightStart", "lightTest", "pumpStart", "pumpManual",
              "pumpHour", "pumpTest"} \cup LightDecided
LightAhead == {"sleep", "top", "lightStart", "lightTest"}

(* From time d on the pump should be on (level TRUE) or off, and op is the *)
(* call that makes it so.                                                  *)
PumpOverdue(d, level, op) ==
    /\ pc \in PumpDecided =>
         IF pOn = level THEN pumpOn # level \/ pc = "pumpCall" => Catching(d)
                        ELSE wakeAt < d
    /\ pc \notin PumpDecided /\ pumpOn # level =>
         IF pc \in PumpAhead THEN Catching(d) ELSE Missed(d)
    /\ Calling(op) => Catching(d)

PumpUpInv ==
    bootedAt <= HourStart(now) /\ now < HourStart(now) + PumpRunTime
      => PumpOverdue(HourStart(now), TRUE, "PumpsOn")

PumpDownInv == PumpOverdue(HourStart(now) + PumpRunTime, FALSE, "PumpsOff")

(* The same for the light, which only ever comes on.                       *)
LightOverdue(d) ==
    /\ pc \in LightDecided =>
         IF shouldLightBeOn THEN ~lightOn \/ pc = "lightCall" => Catching(d)
                            ELSE wakeAt < d
    /\ pc \notin LightDecided /\ ~lightOn =>
         IF pc \in LightAhead THEN Catching(d) ELSE Missed(d)
    /\ Calling("LightsOn") => Catching(d)

LightInv ==
    bootedAt <= TodaysLight /\ InWindow(now, TodaysLight, LightDuration * MinuteLen)
      => LightOverdue(TodaysLight)

(* Today's dose has not been started yet.                                  *)
DoseOverdue ==
    /\ pc \notin {"feeding", "feedSleep", "rest"} => wakeAt <= Midnight(now) + MaxLag
    /\ pc = "feeding" => Calling("FeedOn") /\ wakeAt <= Midnight(now) + MaxLag
    /\ pc # "feedSleep"
    /\ pc = "rest" => wakeAt < Midnight(now)

DoseDueInv ==
    LoopDelay <= FeedWindow /\ bootedAt <= Midnight(now) /\ ~FedToday => DoseOverdue

DeadlineInv ==
    DoseFitsTheHour => ClockInv /\ PumpUpInv /\ PumpDownInv /\ LightInv /\ DoseDueInv
-----------------------------------------------------------------------------
(* Rounding down to a multiple of d gives the largest one that fits.       *)
LEMMA LargestMultiple ==
  ASSUME NEW d \in Nat \ {0}, NEW t \in Nat, NEW n \in Nat, d * n <= t
  PROVE  d * n <= t - (t % d)
<1> DEFINE q == t \div d
<1>1. q \in Nat /\ t = d * q + (t % d) /\ t % d \in 0 .. d - 1
  OBVIOUS
<1> HIDE DEF q
<1>2. n <= q
  <2> SUFFICES ASSUME q + 1 <= n PROVE FALSE
    BY <1>1
  <2>1. d * (q + 1) <= d * n
    BY <1>1
  <2>2. d * (q + 1) = d * q + d
    BY <1>1
  <2> QED
    BY <1>1, <2>1, <2>2
<1>3. d * n <= d * q
  BY <1>1, <1>2
<1>4. d * q \in Nat /\ d * n \in Nat
  BY <1>1
<1> QED
  BY <1>1, <1>3, <1>4

(* ... within d of the number, ...                                         *)
LEMMA RoundDownNear ==
  ASSUME NEW d \in Nat \ {0}, NEW t \in Nat
  PROVE  t < t - (t % d) + d
<1>1. t % d \in 0 .. d - 1
  OBVIOUS
<1> QED
  BY <1>1

LEMMA IsMultiple ==
  ASSUME NEW d \in Nat \ {0}, NEW t \in Nat
  PROVE  \E q \in Nat : t - (t % d) = d * q
<1>1. t = d * (t \div d) + (t % d) /\ t \div d \in Nat /\ t % d \in Nat
  OBVIOUS
<1>2. d * (t \div d) \in Nat
  BY <1>1
<1>3. t - (t % d) = d * (t \div d)
  BY <1>1, <1>2
<1> QED
  BY <1>1, <1>3

(* ... and stays the same until the next multiple.                         *)
LEMMA RoundDownTick ==
  ASSUME NEW d \in Nat \ {0}, NEW t \in Nat
  PROVE  (t + 1) - ((t + 1) % d) \in {t - (t % d), t + 1}
<1> DEFINE r == t - (t % d)
           s == (t + 1) - ((t + 1) % d)
<1>0. t + 1 \in Nat /\ t <= t + 1
  OBVIOUS
<1>1. r \in Nat /\ s \in Nat /\ s <= t + 1 /\ r <= s
  <2>1. r \in Nat
    BY RoundDown
  <2>2. s \in Nat /\ s <= t + 1
    BY <1>0, RoundDown
  <2>3. r <= s
    BY <1>0, RoundDownMonotone
  <2> QED
    BY <2>1, <2>2, <2>3
<1>2. ASSUME s <= t PROVE s <= r
  <2>1. PICK q \in Nat : s = d * q
    BY <1>0, IsMultiple
  <2> HIDE DEF s
  <2>2. d * q <= t
    BY <1>2, <2>1
  <2>3. d * q <= r
    BY <2>2, LargestMultiple
  <2> QED
    BY <2>1, <2>3
<1> HIDE DEF r, s
<1>3. s \in {r, t + 1}
  BY <1>1, <1>2
<1> QED
  BY <1>3 DEF r, s

LEMMA RoundDownSame ==
  ASSUME NEW d \in Nat \ {0}, NEW t \in Nat, NEW u \in Nat,
         t - (t % d) <= u, u <= t
  PROVE  u - (u % d) = t - (t % d)
<1> DEFINE r == t - (t % d)
           s == u - (u % d)
<1>1. r \in Nat /\ s \in Nat /\ s <= r
  BY RoundDown, RoundDownMonotone
<1>2. r <= s
  <2>1. PICK q \in Nat : r = d * q
    BY IsMultiple
  <2> HIDE DEF r
  <2>2. d * q <= u
    BY <2>1 DEF r
  <2>3. d * q <= s
    BY <2>2, LargestMultiple
  <2> QED
    BY <2>1, <2>3
<1> HIDE DEF r, s
<1>3. r = s
  BY <1>1, <1>2
<1> QED
  BY <1>3 DEF r, s

-----------------------------------------------------------------------------
(* Midnights and starts of hours.                                          *)
LEMMA HoursAndDays ==
  ASSUME NEW t \in Nat
  PROVE  /\ Midnight(t) \in Nat /\ HourStart(t) \in Nat
         /\ Midnight(t) <= HourStart(t) /\ HourStart(t) <= t
         /\ t < HourStart(t) + HourLen
         /\ HourStart(t + 1) \in {HourStart(t), t + 1}
         /\ Midnight(t + 1) \in {Midnight(t), t + 1}
         /\ t < Midnight(t) + HourLen => HourStart(t) = Midnight(t)
<1>1. HourLen \in Nat \ {0} /\ DayLen \in Nat \ {0}
  BY UnitsPositive
<1>2. /\ HourStart(t) \in Nat /\ HourStart(t) <= t /\ t < HourStart(t) + HourLen
      /\ HourStart(t + 1) \in {HourStart(t), t + 1}
  BY <1>1, RoundDown, RoundDownNear, RoundDownTick DEF HourStart
<1>3. /\ Midnight(t) \in Nat /\ Midnight(t) <= t
      /\ Midnight(t + 1) \in {Midnight(t), t + 1}
  BY <1>1, RoundDown, RoundDownTick DEF Midnight
<1>4. \E p \in Nat : Midnight(t) = HourLen * p
  <2>1. PICK q \in Nat : Midnight(t) = DayLen * q
    BY <1>1, IsMultiple DEF Midnight
  <2>2. \A a, b, c \in Nat : (a * b) * c = a * (b * c) /\ b * c \in Nat
    OBVIOUS
  <2>3. DayLen * q = HourLen * (HoursPerDay * q) /\ HoursPerDay * q \in Nat
    BY <1>1, <2>2, CalendarAssumption DEF DayLen
  <2> QED
    BY <2>1, <2>3
<1>5. Midnight(t) <= HourStart(t)
  BY <1>1, <1>3, <1>4, LargestMultiple DEF HourStart
<1>6. ASSUME t < Midnight(t) + HourLen PROVE HourStart(t) = Midnight(t)
  <2>1. PICK p \in Nat : Midnight(t) = HourLen * p
    BY <1>4
  <2>2. PICK q \in Nat : HourStart(t) = HourLen * q
    BY <1>1, IsMultiple DEF HourStart
  <2>3. ~(p + 1 <= q)
    <3> SUFFICES ASSUME p + 1 <= q PROVE FALSE
      OBVIOUS
    <3>1. \A a, b, c \in Nat : b <= c => a * b <= a * c
      OBVIOUS
    <3>2. HourLen * (p + 1) <= HourLen * q
      BY <1>1, <3>1
    <3>3. HourLen * (p + 1) = HourLen * p + HourLen
      BY <1>1
    <3> QED
      BY <1>1, <1>2, <1>3, <1>6, <2>1, <2>2, <3>2, <3>3
  <2>4. q <= p
    BY <2>3
  <2>5. HourLen * q <= HourLen * p
    BY <1>1, <2>4
  <2> QED
    BY <1>2, <1>3, <1>5, <2>1, <2>2, <2>5
<1> QED
  BY <1>2, <1>3, <1>5, <1>6

(* A time of this hour, or of this day, so far.                            *)
LEMMA SameHour ==
  ASSUME NEW t \in Nat, NEW u \in Nat, HourStart(t) <= u, u <= t
  PROVE  HourStart(u) = HourStart(t)
BY UnitsPositive, RoundDownSame DEF HourStart

LEMMA SameDay ==
  ASSUME NEW t \in Nat, NEW u \in Nat, Midnight(t) <= u, u <= t
  PROVE  Midnight(u) = Midnight(t)
BY UnitsPositive, RoundDownSame DEF Midnight

LEMMA HourStartMonotone ==
  ASSUME NEW t \in Nat, NEW u \in Nat, t <= u
  PROVE  HourStart(t) <= HourStart(u)
BY UnitsPositive, RoundDownMonotone DEF HourStart
-----------------------------------------------------------------------------
(* What the proofs below need of the types.                                *)
LEMMA ClockTypes ==
  ASSUME TypeOK
  PROVE  /\ now \in Nat /\ wakeAt \in Nat /\ currentTime \in Nat /\ readAt \in Nat
         /\ tm \in Nat /\ bootedAt \in Nat
         /\ Midnight(now) \in Nat /\ HourStart(now) \in Nat
         /\ Midnight(now) <= now /\ HourStart(now) <= now
         /\ MaxLag \in Nat /\ FeedSleep \in Nat /\ FeedWindow \in Nat
         /\ FeedSleep <= FeedWindow /\ HourLen \in Nat
         /\ pc \in Places
<1>1. now \in Nat
  BY DEF TypeOK
<1>2. /\ Midnight(now) \in Nat /\ HourStart(now) \in Nat
      /\ Midnight(now) <= now /\ HourStart(now) <= now
  BY <1>1, CalendarTypes, UnitsPositive, RoundDown DEF HourStart
<1>3. /\ MaxLag \in Nat /\ FeedSleep \in Nat /\ FeedWindow \in Nat
      /\ FeedSleep <= FeedWindow /\ HourLen \in Nat
  BY SettingsAssumption, UnitsPositive
<1> QED
  BY <1>1, <1>2, <1>3 DEF TypeOK

(* Only the passing of time, and a restart, change these.                  *)
LEMMA ClockStands ==
  ASSUME SchedulerStep
  PROVE  UNCHANGED <<now, bootedAt, lightOverride>>
BY DEF SchedulerStep, ReadClock, LightStart, LightTest, LightDiffers, LightGoesAhead,
   LightStays, LightSet, LightSwitches, PumpStart, NoManualRun, PumpHour, PumpTest,
   ToggleGoesOn, PumpDiffers, PumpGoesAhead, PumpStays, PumpSet, PumpSwitches,
   FeedStart, FeedTest, Feed, FeedRuns, FeedEnds, Rest, Wake, SchedulerHardware, flags,
   history

(* The places an iteration goes through without a sleep.                   *)
Busy == Places \ {"sleep", "feedSleep", "feed", "feeding"}

(* A step within an iteration leaves the loop as far behind as it was.     *)
LEMMA AwakeBusy ==
  ASSUME Awake, pc \in Busy, pc' \in Busy, UNCHANGED <<now, wakeAt>>
  PROVE  Awake'
BY DEF Awake, Busy

LEMMA AwakeStep ==
  ASSUME ClockInv, [Next]_vars
  PROVE  Awake'
<1>t. TypeOK /\ TypeOK' /\ Awake /\ Fresh /\ CallPlaces
  BY TypeStep DEF ClockInv, FlagsInv
<1>n. /\ now \in Nat /\ wakeAt \in Nat /\ readAt \in Nat /\ pc \in Places
      /\ Midnight(now) \in Nat /\ MaxLag \in Nat /\ FeedSleep \in Nat /\ FeedWindow \in Nat
  BY <1>t, ClockTypes
<1> USE DEF Running
<1>1. CASE ReadClock
  BY <1>1, <1>t, AwakeBusy DEF ReadClock, Busy, Places, ManualPlaces
<1>2. CASE LightStart
  BY <1>2, <1>t, AwakeBusy DEF LightStart, Busy, Places, ManualPlaces
<1>3. CASE LightTest
  BY <1>3, <1>t, AwakeBusy DEF LightTest, Busy, Places, ManualPlaces
<1>4. CASE LightStays
  BY <1>4, <1>t, AwakeBusy DEF LightStays, Busy, Places, ManualPlaces
<1>5. CASE LightSwitches
  BY <1>5, <1>t, AwakeBusy DEF LightSwitches, Busy, Places, ManualPlaces
<1>6. CASE PumpStart
  BY <1>6, <1>t, AwakeBusy DEF PumpStart, Busy, Places, ManualPlaces
<1>7. CASE PumpTest
  BY <1>7, <1>t, AwakeBusy DEF PumpTest, Busy, Places, ManualPlaces
<1>8. CASE ToggleGoesOn
  BY <1>8, <1>t, AwakeBusy DEF ToggleGoesOn, Busy, Places, ManualPlaces
<1>9. CASE PumpStays
  BY <1>9, <1>t, AwakeBusy DEF PumpStays, Busy, Places, ManualPlaces
<1>10. CASE PumpSwitches
  BY <1>10, <1>t, AwakeBusy DEF PumpSwitches, Busy, Places, ManualPlaces
<1>11. CASE FeedStart
  BY <1>11, <1>t, AwakeBusy DEF FeedStart, Busy, Places, ManualPlaces
<1>12. CASE FeedTest
  <2>1. CASE pc' = "feed"
    <3>1. /\ InWindow(readAt, Midnight(readAt), FeedWindow)
          /\ wakeAt <= readAt /\ readAt <= now /\ UNCHANGED <<now, wakeAt>>
      BY <1>12, <1>t, <2>1 DEF FeedTest, Fresh
    <3>2. Midnight(readAt) \in Nat /\ Midnight(readAt) <= Midnight(now)
      BY <1>n, <3>1, MidnightMonotone, CalendarTypes
    <3>3. wakeAt < Midnight(now) + FeedWindow
      BY <1>n, <3>1, <3>2 DEF InWindow
    <3> QED
      BY <1>n, <1>t, <1>12, <2>1, <3>1, <3>3 DEF FeedTest, Awake
  <2> QED
    BY <1>12, <1>t, <2>1, AwakeBusy DEF FeedTest, Busy, Places, ManualPlaces
<1>13. CASE Feed
  BY <1>13, <1>t DEF Feed, Awake
<1>14. CASE FeedRuns
  BY <1>14, <1>t, <1>n DEF FeedRuns, Awake
<1>15. CASE FeedEnds
  BY <1>15, <1>t, <1>n DEF FeedEnds, Awake
<1>16. CASE Rest
  BY <1>16, <1>t, <1>n DEF Rest, Awake
<1>17. CASE Wake
  BY <1>17, <1>t, <1>n DEF Wake, Awake
<1>18. CASE SchedulerHardware
  BY <1>18, <1>t DEF SchedulerHardware, Awake
<1>19. CASE Tick
  <2>1. now' = now + 1 /\ now < wakeAt + MaxLag /\ UNCHANGED <<pc, wakeAt>>
    BY <1>19 DEF Tick
  <2>2. Midnight(now') \in Nat /\ Midnight(now) <= Midnight(now')
    BY <1>n, <2>1, MidnightMonotone, CalendarTypes
  <2> QED
    BY <1>n, <1>t, <2>1, <2>2 DEF Awake
<1>20. CASE Crash
  BY <1>20, <1>n DEF Crash, ProcessStart, Awake
<1>21. CASE TimeIsUp \/ UNCHANGED vars
  BY <1>21, <1>t DEF TimeIsUp, vars, Awake
<1>22. CASE LightDiffers \/ LightGoesAhead \/ LightSet
  BY <1>22, <1>t, AwakeBusy
     DEF LightDiffers, LightGoesAhead, LightSet, Busy, Places, ManualPlaces
<1>23. CASE NoManualRun \/ PumpHour
  BY <1>23, <1>t, AwakeBusy DEF NoManualRun, PumpHour, Busy, Places, ManualPlaces
<1>24. CASE PumpDiffers \/ PumpGoesAhead \/ PumpSet
  BY <1>24, <1>t, AwakeBusy
     DEF PumpDiffers, PumpGoesAhead, PumpSet, Busy, Places, ManualPlaces
<1> QED
  BY <1>1, <1>2, <1>3, <1>4, <1>5, <1>6, <1>7, <1>8, <1>9, <1>10, <1>11, <1>12,
     <1>13, <1>14, <1>15, <1>16, <1>17, <1>18, <1>19, <1>20, <1>21, <1>22, <1>23,
     <1>24
     DEF Next, SchedulerStep

LEMMA LightStartMonotone ==
  ASSUME NEW t \in Nat, NEW u \in Nat, t <= u
  PROVE  TimeOfDay(t, LightStartHour, LightStartMin)
           <= TimeOfDay(u, LightStartHour, LightStartMin)
<1>1. Midnight(t) \in Nat /\ Midnight(u) \in Nat /\ Midnight(t) <= Midnight(u)
  BY MidnightMonotone, CalendarTypes
<1>2. LightStartHour * HourLen \in Nat /\ LightStartMin * MinuteLen \in Nat
  BY UnitsPositive, CalendarAssumption, SettingsAssumption
<1> QED
  BY <1>1, <1>2 DEF TimeOfDay

LEMMA FreshStep ==
  ASSUME ClockInv, [Next]_vars
  PROVE  Fresh'
<1>t. TypeOK /\ TypeOK' /\ Awake /\ Fresh /\ CallPlaces
  BY TypeStep DEF ClockInv, FlagsInv
<1>n. /\ now \in Nat /\ wakeAt \in Nat /\ readAt \in Nat /\ currentTime \in Nat
      /\ tm \in Nat /\ HourStart(now) \in Nat /\ HourStart(currentTime) \in Nat
      /\ TimeOfDay(now, LightStartHour, LightStartMin) \in Nat
      /\ TimeOfDay(currentTime, LightStartHour, LightStartMin) \in Nat
  BY <1>t, ClockTypes, CalendarTypes
<1> USE DEF Running
<1>1. CASE ReadClock
  BY <1>1, <1>t, <1>n DEF ReadClock, Fresh, Awake, Looking, LightDecided, PumpDecided
<1>2. CASE LightStart
  <2>1. currentTime <= now /\ wakeAt <= currentTime
    BY <1>2, <1>t DEF LightStart, Fresh, Looking, LightDecided, PumpDecided
  <2>2. TimeOfDay(currentTime, LightStartHour, LightStartMin)
          <= TimeOfDay(now, LightStartHour, LightStartMin)
    BY <1>n, <2>1, LightStartMonotone
  <2> QED
    BY <1>2, <1>n, <2>1, <2>2
       DEF LightStart, Fresh, Looking, LightDecided, PumpDecided, locals
<1>3. CASE PumpStart
  <2>1. currentTime <= now /\ wakeAt <= currentTime
    BY <1>3, <1>t DEF PumpStart, Fresh, Looking, LightDecided, PumpDecided
  <2> QED
    BY <1>3, <1>n, <2>1 DEF PumpStart, Fresh, Looking, LightDecided, PumpDecided, locals
<1>4. CASE FeedStart
  BY <1>4, <1>t, <1>n DEF FeedStart, Fresh, Awake, Looking, LightDecided, PumpDecided
<1>5. CASE LightTest
  BY <1>5, <1>t DEF LightTest, Fresh, Looking, LightDecided, PumpDecided, locals
<1>6. CASE LightStays
  BY <1>6, <1>t DEF LightStays, Fresh, Looking, LightDecided, PumpDecided, locals
<1>7. CASE LightSwitches
  BY <1>7, <1>t DEF LightSwitches, Fresh, Looking, LightDecided, PumpDecided, locals
<1>8. CASE PumpTest
  BY <1>8, <1>t DEF PumpTest, Fresh, Looking, LightDecided, PumpDecided, locals
<1>9. CASE ToggleGoesOn
  BY <1>9, <1>t DEF ToggleGoesOn, Fresh, Looking, LightDecided, PumpDecided, locals
<1>10. CASE PumpStays
  BY <1>10, <1>t
     DEF PumpStays, Fresh, Looking, LightDecided, PumpDecided, locals, LeaveScope
<1>11. CASE PumpSwitches
  BY <1>11, <1>t
     DEF PumpSwitches, Fresh, Looking, LightDecided, PumpDecided, locals, LeaveScope
<1>12. CASE FeedTest
  BY <1>12, <1>t DEF FeedTest, Fresh, Looking, LightDecided, PumpDecided, locals
<1>13. CASE Feed
  BY <1>13, <1>t DEF Feed, Fresh, Looking, LightDecided, PumpDecided, locals
<1>14. CASE FeedRuns
  BY <1>14, <1>t DEF FeedRuns, Fresh, Looking, LightDecided, PumpDecided, locals
<1>15. CASE FeedEnds
  BY <1>15, <1>t DEF FeedEnds, Fresh, Looking, LightDecided, PumpDecided, locals
<1>16. CASE Rest
  BY <1>16, <1>t DEF Rest, Fresh, Looking, LightDecided, PumpDecided, locals
<1>17. CASE Wake
  BY <1>17, <1>t DEF Wake, Fresh, Looking, LightDecided, PumpDecided, locals
<1>18. CASE SchedulerHardware
  <2>1. ~Idle(SchedulerThread) /\ UNCHANGED <<now, pc, wakeAt, currentTime, readAt>>
    BY <1>18, <1>t, HardwareStepEffect DEF SchedulerHardware, locals
  <2>2. tm' = tm \/ pc \notin {"lightTest", "pumpTest", "feedTest"}
    <3>1. call[SchedulerThread].op \in Relays
      BY <2>1 DEF ClockInv, FlagsInv
    <3> QED
      BY <1>t, <2>1, <3>1 DEF CallPlaces, Calling, Relays
  <2> QED
    BY <1>t, <2>1, <2>2 DEF Fresh
<1>19. CASE Tick
  <2>1. now' = now + 1 /\ UNCHANGED <<pc, wakeAt, currentTime, readAt, tm>>
    BY <1>19 DEF Tick, locals
  <2>2. now' \in Nat /\ now <= now'
    BY <1>n, <2>1
  <2>3. HourStart(now') \in Nat /\ HourStart(now) <= HourStart(now')
    BY <1>n, <2>2, HourStartMonotone, CalendarTypes
  <2>4. /\ TimeOfDay(now', LightStartHour, LightStartMin) \in Nat
        /\ TimeOfDay(now, LightStartHour, LightStartMin)
             <= TimeOfDay(now', LightStartHour, LightStartMin)
    BY <1>n, <2>2, LightStartMonotone, CalendarTypes
  <2> QED
    BY <1>n, <1>t, <2>1, <2>2, <2>3, <2>4 DEF Fresh
<1>20. CASE Crash
  BY <1>20, <1>n DEF Crash, ProcessStart, Fresh, Looking, LightDecided, PumpDecided
<1>21. CASE TimeIsUp \/ UNCHANGED vars
  BY <1>21, <1>t DEF TimeIsUp, vars, Fresh, locals
<1>22. CASE LightDiffers \/ LightGoesAhead \/ LightSet
  BY <1>22, <1>t DEF LightDiffers, LightGoesAhead, LightSet, Fresh, Looking,
     LightDecided, PumpDecided, locals
<1>23. CASE NoManualRun
  BY <1>23, <1>t DEF NoManualRun, Fresh, Looking, LightDecided, PumpDecided, locals
<1>24. CASE PumpHour
  <2>1. /\ wakeAt <= currentTime /\ currentTime <= readAt /\ readAt <= now
    BY <1>24, <1>t DEF PumpHour, Fresh, Looking
  <2>2. HourStart(currentTime) <= HourStart(readAt) /\ HourStart(readAt) <= HourStart(now)
    BY <1>n, <2>1, HourStartMonotone
  <2>3. currentTime <= now
    BY <1>n, <2>1
  <2> QED
    BY <1>24, <2>1, <2>2, <2>3 DEF PumpHour, Fresh, Looking, LightDecided, PumpDecided
<1>25. CASE PumpDiffers \/ PumpGoesAhead \/ PumpSet
  BY <1>25, <1>t DEF PumpDiffers, PumpGoesAhead, PumpSet, Fresh, Looking,
     LightDecided, PumpDecided, locals
<1> QED
  BY <1>1, <1>2, <1>3, <1>4, <1>5, <1>6, <1>7, <1>8, <1>9, <1>10, <1>11, <1>12,
     <1>13, <1>14, <1>15, <1>16, <1>17, <1>18, <1>19, <1>20, <1>21, <1>22, <1>23,
     <1>24, <1>25
     DEF Next, SchedulerStep

(* The flags and what was decided about them.                              *)
LEMMA SettledStep ==
  ASSUME ClockInv, [Next]_vars
  PROVE  Settled'
<1>t. Settled /\ pumpToggleRunOff = Never
  BY DEF ClockInv, FlagsInv
<1> USE DEF Running, flags, locals, Settled, ManualPlaces
<1>1. CASE ReadClock
  BY <1>1, <1>t DEF ReadClock
<1>2. CASE LightStart
  BY <1>2, <1>t DEF LightStart
<1>3. CASE LightTest
  BY <1>3, <1>t DEF LightTest
<1>4. CASE LightDiffers
  BY <1>4, <1>t DEF LightDiffers
<1>5. CASE LightGoesAhead
  BY <1>5, <1>t DEF LightGoesAhead
<1>6. CASE LightStays
  BY <1>6, <1>t DEF LightStays
<1>7. CASE LightSet
  BY <1>7, <1>t DEF LightSet
<1>8. CASE LightSwitches
  BY <1>8, <1>t DEF LightSwitches
<1>9. CASE PumpStart
  BY <1>9, <1>t DEF PumpStart
<1>10. CASE NoManualRun
  BY <1>10, <1>t DEF NoManualRun
<1>11. CASE PumpHour
  BY <1>11, <1>t DEF PumpHour
<1>12. CASE PumpTest
  BY <1>12, <1>t DEF PumpTest
<1>13. CASE ToggleGoesOn
  BY <1>13, <1>t DEF ToggleGoesOn
<1>14. CASE PumpDiffers
  BY <1>14, <1>t DEF PumpDiffers
<1>15. CASE PumpGoesAhead
  BY <1>15, <1>t DEF PumpGoesAhead
<1>16. CASE PumpStays
  BY <1>16, <1>t DEF PumpStays
<1>17. CASE PumpSet
  BY <1>17, <1>t DEF PumpSet
<1>18. CASE PumpSwitches
  BY <1>18, <1>t DEF PumpSwitches
<1>19. CASE FeedStart
  BY <1>19, <1>t DEF FeedStart
<1>20. CASE FeedTest
  BY <1>20, <1>t DEF FeedTest
<1>21. CASE Feed
  BY <1>21, <1>t DEF Feed
<1>22. CASE FeedRuns
  BY <1>22, <1>t DEF FeedRuns
<1>23. CASE FeedEnds
  BY <1>23, <1>t DEF FeedEnds
<1>24. CASE Rest
  BY <1>24, <1>t DEF Rest
<1>25. CASE Wake
  BY <1>25, <1>t DEF Wake
<1>26. CASE SchedulerHardware
  BY <1>26, <1>t DEF SchedulerHardware
<1>27. CASE Tick
  BY <1>27, <1>t DEF Tick
<1>28. CASE Crash
  BY <1>28, <1>t DEF Crash, ProcessStart
<1>29. CASE TimeIsUp \/ UNCHANGED vars
  BY <1>29, <1>t DEF TimeIsUp, vars
<1> QED
  BY <1>1, <1>2, <1>3, <1>4, <1>5, <1>6, <1>7, <1>8, <1>9, <1>10, <1>11, <1>12,
     <1>13, <1>14, <1>15, <1>16, <1>17, <1>18, <1>19, <1>20, <1>21, <1>22, <1>23,
     <1>24, <1>25, <1>26, <1>27, <1>28, <1>29
     DEF Next, SchedulerStep

(* A call goes on until it is over, and the loop stays where it is.        *)
LEMMA CallPlacesStep ==
  ASSUME ClockInv, [Next]_vars
  PROVE  CallPlaces'
<1>t. TypeOK /\ CallPlaces
  BY DEF ClockInv, FlagsInv
<1>r. Relays \subseteq Operations
  BY DEF Operations
<1> USE DEF Running, CallPlaces, Calling
<1>1. CASE LightSwitches
  <2>1. PICK op \in {"LightsOn", "LightsOff"} : Invoke(SchedulerThread, op)
    BY <1>1 DEF LightSwitches
  <2>2. call'[SchedulerThread].op = op
    BY <1>t, <1>r, <2>1, InvokeEffect DEF Relays
  <2> QED
    BY <1>1, <2>1, <2>2 DEF LightSwitches
<1>2. CASE PumpSwitches
  <2>1. PICK op \in {"PumpsOn", "PumpsOff"} : Invoke(SchedulerThread, op)
    BY <1>2 DEF PumpSwitches
  <2>2. call'[SchedulerThread].op = op
    BY <1>t, <1>r, <2>1, InvokeEffect DEF Relays
  <2> QED
    BY <1>2, <2>1, <2>2 DEF PumpSwitches
<1>3. CASE Feed
  <2>1. PICK op \in {"FeedOn"} : Invoke(SchedulerThread, op)
    BY <1>3 DEF Feed
  <2>2. call'[SchedulerThread].op = op
    BY <1>t, <1>r, <2>1, InvokeEffect DEF Relays
  <2> QED
    BY <1>3, <2>1, <2>2 DEF Feed
<1>4. CASE FeedEnds
  <2>1. PICK op \in {"FeedOff"} : Invoke(SchedulerThread, op)
    BY <1>4 DEF FeedEnds
  <2>2. call'[SchedulerThread].op = op
    BY <1>t, <1>r, <2>1, InvokeEffect DEF Relays
  <2> QED
    BY <1>4, <2>1, <2>2 DEF FeedEnds
<1>5. CASE ReadClock
  BY <1>5 DEF ReadClock, Idle, hardwareVars
<1>6. CASE LightStart
  BY <1>6 DEF LightStart, Idle, hardwareVars
<1>7. CASE LightTest
  BY <1>7 DEF LightTest, Idle, hardwareVars
<1>8. CASE LightStays
  BY <1>8 DEF LightStays, Idle, hardwareVars
<1>9. CASE PumpStart
  BY <1>9 DEF PumpStart, Idle, hardwareVars
<1>10. CASE PumpTest
  BY <1>10 DEF PumpTest, Idle, hardwareVars
<1>11. CASE ToggleGoesOn
  BY <1>11 DEF ToggleGoesOn, Idle, hardwareVars
<1>12. CASE PumpStays
  BY <1>12 DEF PumpStays, Idle, hardwareVars
<1>13. CASE FeedStart
  BY <1>13 DEF FeedStart, Idle, hardwareVars
<1>14. CASE FeedTest
  BY <1>14 DEF FeedTest, Idle, hardwareVars
<1>15. CASE FeedRuns
  BY <1>15 DEF FeedRuns, Idle, hardwareVars
<1>16. CASE Rest
  BY <1>16 DEF Rest, Idle, hardwareVars
<1>17. CASE Wake
  BY <1>17 DEF Wake, Idle, hardwareVars
<1>18. CASE SchedulerHardware
  BY <1>18, <1>t, HardwareStepEffect DEF SchedulerHardware
<1>19. CASE Crash
  BY <1>19, SettingsAssumption DEF Crash, HardwareLost, Idle
<1>20. CASE Tick \/ TimeIsUp \/ UNCHANGED vars
  BY <1>20, <1>t DEF Tick, TimeIsUp, vars, hardwareVars, Idle
<1>21. CASE LightDiffers \/ LightGoesAhead \/ LightSet
  BY <1>21 DEF LightDiffers, LightGoesAhead, LightSet, Idle, hardwareVars
<1>22. CASE NoManualRun \/ PumpHour
  BY <1>22 DEF NoManualRun, PumpHour, Idle, hardwareVars
<1>23. CASE PumpDiffers \/ PumpGoesAhead \/ PumpSet
  BY <1>23 DEF PumpDiffers, PumpGoesAhead, PumpSet, Idle, hardwareVars
<1> QED
  BY <1>1, <1>2, <1>3, <1>4, <1>5, <1>6, <1>7, <1>8, <1>9, <1>10, <1>11, <1>12,
     <1>13, <1>14, <1>15, <1>16, <1>17, <1>18, <1>19, <1>20, <1>21, <1>22, <1>23
     DEF Next, SchedulerStep

LEMMA ClockStep ==
  ASSUME ClockInv, [Next]_vars
  PROVE  ClockInv'
<1>1. FlagsInv'
  BY FlagsStep DEF ClockInv
<1>t. TypeOK
  BY DEF ClockInv, FlagsInv
<1>2. ~lightOverride' /\ bootedAt' <= now'
  <2>1. CASE SchedulerStep
    <3>1. UNCHANGED <<lightOverride, bootedAt, now>>
      BY <2>1, ClockStands
    <3> QED
      BY <3>1 DEF ClockInv
  <2>2. CASE Tick
    <3>1. UNCHANGED <<lightOverride, bootedAt>> /\ now' = now + 1
      BY <2>2 DEF Tick, flags, history
    <3> QED
      BY <3>1, <1>t, ClockTypes DEF ClockInv
  <2>3. CASE Crash
    BY <2>3, <1>t, ClockTypes DEF Crash, ProcessStart
  <2>4. CASE TimeIsUp \/ UNCHANGED vars
    BY <2>4 DEF TimeIsUp, vars, flags, history, ClockInv
  <2> QED
    BY <2>1, <2>2, <2>3, <2>4 DEF Next
<1> QED
  BY <1>1, <1>2, AwakeStep, FreshStep, SettledStep, CallPlacesStep DEF ClockInv
-----------------------------------------------------------------------------
(* The step from one deadline's state to the next, whatever flag it is     *)
(* about.  A look that came too early is followed by one that does not ... *)
LEMMA MissedRests ==
  ASSUME ClockInv, NEW d \in Nat, Missed(d), Rest
  PROVE  Catching(d)'
<1>1. /\ pc = "rest" /\ wakeAt' = now + 1 /\ now' = now /\ now <= wakeAt + MaxLag
  BY DEF Rest, Running, ClockInv, Awake
<1>2. /\ now \in Nat /\ wakeAt \in Nat /\ Midnight(now) \in Nat /\ MaxLag \in Nat
      /\ FeedSleep \in Nat /\ FeedWindow \in Nat
  BY ClockTypes DEF ClockInv, FlagsInv
<1> QED
  BY <1>1, <1>2 DEF Missed, Catching, HeldUp

(* ... and is not forgotten while the dose is given.                       *)
LEMMA MissedFeeds ==
  ASSUME ClockInv, NEW d \in Nat, Missed(d), FeedRuns
  PROVE  Missed(d)'
<1>1. /\ pc = "feeding" /\ pc' = "feedSleep" /\ wakeAt' = now + FeedSleep /\ now' = now
      /\ now <= wakeAt + MaxLag /\ wakeAt < Midnight(now) + FeedWindow
  BY DEF FeedRuns, Running, ClockInv, Awake
<1>2. /\ now \in Nat /\ wakeAt \in Nat /\ Midnight(now) \in Nat /\ MaxLag \in Nat
      /\ FeedSleep \in Nat /\ FeedWindow \in Nat
  BY ClockTypes DEF ClockInv, FlagsInv
<1> QED
  BY <1>1, <1>2 DEF Missed, HeldUp

(* What has fallen due stays so while time goes by; ...                    *)
LEMMA TickKeeps ==
  ASSUME ClockInv, NEW d \in Nat, Tick
  PROVE  (Catching(d) => Catching(d)') /\ (Missed(d) => Missed(d)')
<1>1. now' = now + 1 /\ UNCHANGED <<pc, wakeAt>>
  BY DEF Tick
<1>2. /\ now \in Nat /\ wakeAt \in Nat /\ Midnight(now) \in Nat /\ MaxLag \in Nat
      /\ FeedSleep \in Nat /\ FeedWindow \in Nat
  BY ClockTypes DEF ClockInv, FlagsInv
<1>3. now' \in Nat /\ now <= now'
  BY <1>1, <1>2
<1>4. Midnight(now') \in Nat /\ Midnight(now) <= Midnight(now')
  BY <1>2, <1>3, MidnightMonotone, CalendarTypes
<1> QED
  BY <1>1, <1>2, <1>4 DEF Catching, Missed, HeldUp

(* ... and what falls due only now, or later, is in time.                  *)
LEMMA TickInTime ==
  ASSUME ClockInv, NEW d \in Nat, Tick, now' <= d
  PROVE  /\ Catching(d)'
         /\ pc' \notin {"sleep", "feedSleep"} => wakeAt' < d
         /\ pc' # "sleep" => Missed(d)'
<1>1. now' = now + 1 /\ UNCHANGED <<pc, wakeAt>> /\ ClockInv'
  BY ClockStep DEF Tick, Next
<1>2. /\ now \in Nat /\ wakeAt \in Nat /\ MaxLag \in Nat
      /\ FeedSleep \in Nat /\ FeedWindow \in Nat
  BY ClockTypes DEF ClockInv, FlagsInv
<1>3. Midnight(now') \in Nat
  BY <1>1, <1>2, CalendarTypes
<1>4. CASE pc = "feedSleep"
  <2>1. wakeAt <= now + FeedSleep
        /\ wakeAt < Midnight(now') + FeedWindow + FeedSleep + MaxLag
    BY <1>1, <1>4 DEF ClockInv, Awake
  <2> QED
    BY <1>1, <1>2, <1>3, <1>4, <2>1 DEF Catching, Missed, HeldUp
<1>5. CASE pc = "sleep"
  <2>1. wakeAt <= now + 1
    BY <1>5 DEF ClockInv, Awake
  <2> QED
    BY <1>1, <1>2, <1>5, <2>1 DEF Catching
<1>6. CASE pc \notin {"sleep", "feedSleep"}
  <2>1. wakeAt <= now
    BY <1>6 DEF ClockInv, Awake
  <2> QED
    BY <1>1, <1>2, <1>6, <2>1 DEF Catching, Missed
<1> QED
  BY <1>4, <1>5, <1>6

(* A loop that is catching up has a little more than its lag to go.        *)
LEMMA CatchingIsSoon ==
  ASSUME DoseFitsTheHour, ClockInv, NEW d \in Nat, Catching(d)
  PROVE  now < d + Delay
<1>1. /\ now \in Nat /\ wakeAt \in Nat /\ Midnight(now) \in Nat /\ MaxLag \in Nat
      /\ FeedSleep \in Nat /\ FeedWindow \in Nat /\ HourLen \in Nat
  BY ClockTypes DEF ClockInv, FlagsInv
<1>2. now <= wakeAt + MaxLag
  BY DEF ClockInv, Awake
<1>3. CASE wakeAt <= d + MaxLag
  BY <1>1, <1>2, <1>3 DEF Delay, LoopDelay
<1>4. CASE HeldUp(0) /\ wakeAt <= d + FeedSleep + 2 * MaxLag
  <2>1. now < Midnight(now) + HourLen
    BY <1>1, <1>2, <1>4 DEF HeldUp, DoseFitsTheHour
  <2>2. HourStart(now) = Midnight(now)
    BY <1>1, <2>1, HoursAndDays
  <2> QED
    BY <1>1, <1>2, <1>4, <2>2 DEF Delay, LoopDelay
<1> QED
  BY <1>3, <1>4 DEF Catching

LEMMA MissedIsCatching ==
  ASSUME ClockInv, NEW d \in Nat, Missed(d)
  PROVE  Catching(d)
<1>1. /\ wakeAt \in Nat /\ Midnight(now) \in Nat /\ MaxLag \in Nat
      /\ FeedSleep \in Nat /\ FeedWindow \in Nat
  BY ClockTypes DEF ClockInv, FlagsInv
<1> QED
  BY <1>1 DEF Missed, Catching, HeldUp
-----------------------------------------------------------------------------
(* The pump.                                                               *)
PumpCall(level) == IF level THEN "PumpsOn" ELSE "PumpsOff"
PumpPast == {"feedStart", "feedTest", "feed", "feeding", "rest"}

(* Steps that have nothing to do with the pump.                            *)
LEMMA PumpQuiet ==
  ASSUME NEW d \in Nat, NEW level \in BOOLEAN, PumpOverdue(d, level, PumpCall(level)),
         UNCHANGED <<now, wakeAt, pumpOn, pOn>>, ~Calling(PumpCall(level))',
         \/ pc \in PumpAhead /\ pc' \in PumpAhead
         \/ pc \in PumpPast \ {"rest"} /\ pc' \in PumpPast
  PROVE  PumpOverdue(d, level, PumpCall(level))'
<1>1. CASE pc \in PumpAhead /\ pc' \in PumpAhead
  BY <1>1 DEF PumpOverdue, PumpDecided, PumpAhead, LightDecided, Catching, HeldUp
<1>2. CASE pc \in PumpPast \ {"rest"} /\ pc' \in PumpPast
  BY <1>2 DEF PumpOverdue, PumpDecided, PumpAhead, LightDecided, PumpPast, Missed
<1> QED
  BY <1>1, <1>2

(* Calls to other functions.                                               *)
LEMMA OtherCall ==
  ASSUME TypeOK, NEW op \in Relays, Invoke(SchedulerThread, op), NEW other, other # op
  PROVE  ~Calling(other)'
BY InvokeEffect DEF Calling, Operations

LEMMA PumpOverdueStep ==
  ASSUME ClockInv, NEW d \in Nat, NEW level \in BOOLEAN,
         PumpOverdue(d, level, PumpCall(level)), SchedulerStep,
         PumpTest => pOn' = level \/ currentTime < d
  PROVE  PumpOverdue(d, level, PumpCall(level))'
<1> DEFINE op == PumpCall(level)
<1>t. /\ TypeOK /\ Awake /\ Fresh /\ Settled /\ pumpToggleRunOff = Never
  BY DEF ClockInv, FlagsInv
<1>n. /\ now \in Nat /\ wakeAt \in Nat /\ currentTime \in Nat
      /\ pumpOn \in BOOLEAN /\ pOn \in BOOLEAN
  BY <1>t DEF TypeOK
<1>o. op \in {"PumpsOn", "PumpsOff"}
  BY DEF PumpCall
<1> USE DEF Running, hardwareVars, flags, locals
<1>1. CASE ReadClock
  <2>1. ~Calling(op)'
    BY <1>1 DEF ReadClock, Calling, Idle
  <2> QED
    BY <1>1, <2>1, PumpQuiet DEF ReadClock, PumpAhead, LightDecided, PumpPast
<1>2. CASE LightStart
  <2>1. ~Calling(op)'
    BY <1>2 DEF LightStart, Calling, Idle
  <2> QED
    BY <1>2, <2>1, PumpQuiet DEF LightStart, PumpAhead, LightDecided, PumpPast
<1>3. CASE LightTest
  <2>1. ~Calling(op)'
    BY <1>3 DEF LightTest, Calling, Idle
  <2> QED
    BY <1>3, <2>1, PumpQuiet DEF LightTest, PumpAhead, LightDecided, PumpPast
<1>4. CASE LightStays
  <2>1. ~Calling(op)'
    BY <1>4 DEF LightStays, Calling, Idle
  <2> QED
    BY <1>4, <2>1, PumpQuiet DEF LightStays, PumpAhead, LightDecided, PumpPast
<1>5. CASE PumpStart
  <2>1. ~Calling(op)'
    BY <1>5 DEF PumpStart, Calling, Idle
  <2> QED
    BY <1>5, <2>1, PumpQuiet DEF PumpStart, PumpAhead, LightDecided, PumpPast
<1>6. CASE FeedStart
  <2>1. ~Calling(op)'
    BY <1>6 DEF FeedStart, Calling, Idle
  <2> QED
    BY <1>6, <2>1, PumpQuiet DEF FeedStart, PumpAhead, LightDecided, PumpPast
<1>7. CASE FeedTest
  <2>1. ~Calling(op)'
    BY <1>7 DEF FeedTest, Calling, Idle
  <2> QED
    BY <1>7, <2>1, PumpQuiet DEF FeedTest, PumpAhead, LightDecided, PumpPast
<1>8. CASE LightSwitches
  <2>1. PICK o \in {"LightsOn", "LightsOff"} : Invoke(SchedulerThread, o)
    BY <1>8 DEF LightSwitches
  <2>2. ~Calling(op)'
    BY <1>t, <1>o, <2>1, OtherCall DEF Relays
  <2> QED
    BY <1>8, <2>2, PumpQuiet DEF LightSwitches, PumpAhead, LightDecided
<1>9. CASE Feed
  <2>1. ~Calling(op)'
    BY <1>9, <1>t, <1>o, OtherCall DEF Feed, Relays
  <2> QED
    BY <1>9, <2>1, PumpQuiet DEF Feed, PumpPast
<1>10. CASE PumpTest
  <2>1. /\ pc = "pumpTest" /\ pc' = "toggleCheck" /\ ~Calling(op)'
        /\ UNCHANGED <<now, wakeAt, pumpOn>> /\ wakeAt <= currentTime
    BY <1>10, <1>t
       DEF PumpTest, Calling, Idle, Fresh, Looking, LightDecided, PumpDecided
  <2>2. pumpOn # level => Catching(d)'
    BY <2>1 DEF PumpOverdue, PumpDecided, PumpAhead, LightDecided, Catching, HeldUp
  <2>3. pOn' # level => wakeAt' < d
    BY <1>n, <1>10, <2>1
  <2> QED
    BY <2>1, <2>2, <2>3 DEF PumpOverdue, PumpDecided
<1>11. CASE ToggleGoesOn
  BY <1>11 DEF ToggleGoesOn, PumpOverdue, PumpDecided, Calling, Idle, Catching, HeldUp
<1>12. CASE PumpDiffers \/ PumpGoesAhead
  BY <1>12 DEF PumpDiffers, PumpGoesAhead, PumpOverdue, PumpDecided, Calling, Idle,
     Catching, HeldUp
<1>19. CASE PumpStays
  <2>1. /\ pc = "pumpCompare" /\ pc' = "feedStart" /\ ~Calling(op)' /\ pOn = pumpOn
        /\ UNCHANGED <<now, wakeAt, pumpOn>>
    BY <1>19, <1>t DEF PumpStays, LeaveScope, Calling, Idle
  <2> QED
    BY <2>1 DEF PumpOverdue, PumpDecided, PumpAhead, LightDecided, Missed
<1>20. CASE PumpSet
  <2>1. /\ pc = "pumpSet" /\ pc' = "pumpCall" /\ ~Calling(op)' /\ pOn # pumpOn
        /\ UNCHANGED <<now, wakeAt, pOn>>
    BY <1>20, <1>t DEF PumpSet, Settled, Calling, Idle
  <2>2. pOn = level => Catching(d)'
    BY <2>1 DEF PumpOverdue, PumpDecided, Catching, HeldUp
  <2>3. pOn # level => wakeAt' < d
    BY <2>1 DEF PumpOverdue, PumpDecided
  <2> QED
    BY <2>1, <2>2, <2>3 DEF PumpOverdue, PumpDecided
<1>13. CASE PumpSwitches
  <2>1. /\ pc = "pumpCall" /\ pc' = "feedStart" /\ pumpOn = pOn
        /\ Invoke(SchedulerThread, PumpCall(pumpOn)) /\ UNCHANGED <<now, wakeAt, pumpOn>>
    BY <1>13, <1>t DEF PumpSwitches, Settled, LeaveScope, PumpCall
  <2>2. CASE pumpOn = level
    <3>1. Catching(d)'
      BY <2>1, <2>2 DEF PumpOverdue, PumpDecided, Catching, HeldUp
    <3> QED
      BY <2>1, <2>2, <3>1 DEF PumpOverdue, PumpDecided
  <2>3. CASE pumpOn # level
    <3>1. wakeAt' < d
      BY <2>1, <2>3 DEF PumpOverdue, PumpDecided
    <3>2. ~Calling(op)'
      <4>1. PumpCall(pumpOn) # op /\ PumpCall(pumpOn) \in Relays
        BY <1>n, <2>3 DEF PumpCall, Relays
      <4> QED
        BY <1>t, <2>1, <4>1, OtherCall
    <3> QED
      BY <2>1, <3>1, <3>2 DEF PumpOverdue, PumpDecided, PumpAhead, LightDecided, Missed
  <2> QED
    BY <2>2, <2>3
<1>14. CASE FeedRuns
  <2>1. pc = "feeding" /\ pc' = "feedSleep" /\ ~Calling(op)' /\ pumpOn' = pumpOn
    BY <1>14 DEF FeedRuns, Calling, Idle
  <2>2. pumpOn # level => Missed(d)'
    BY <1>14, <2>1, MissedFeeds DEF PumpOverdue, PumpDecided, PumpAhead, LightDecided
  <2> QED
    BY <2>1, <2>2 DEF PumpOverdue, PumpDecided, PumpAhead, LightDecided
<1>15. CASE FeedEnds
  <2>1. /\ pc = "feedSleep" /\ pc' = "rest" /\ UNCHANGED <<now, wakeAt, pumpOn>>
    BY <1>15 DEF FeedEnds
  <2>2. ~Calling(op)'
    BY <1>15, <1>t, <1>o, OtherCall DEF FeedEnds, Relays
  <2> QED
    BY <2>1, <2>2 DEF PumpOverdue, PumpDecided, PumpAhead, LightDecided, Missed, HeldUp
<1>16. CASE Rest
  <2>1. pc = "rest" /\ pc' = "sleep" /\ ~Calling(op)' /\ pumpOn' = pumpOn
    BY <1>16 DEF Rest, Calling, Idle
  <2>2. pumpOn # level => Catching(d)'
    BY <1>16, <2>1, MissedRests DEF PumpOverdue, PumpDecided, PumpAhead, LightDecided
  <2> QED
    BY <2>1, <2>2 DEF PumpOverdue, PumpDecided, PumpAhead, LightDecided
<1>17. CASE Wake
  <2>1. ~Calling(op)'
    BY <1>17 DEF Wake, Calling, Idle
  <2> QED
    BY <1>17, <2>1, PumpQuiet DEF Wake, PumpAhead
<1>18. CASE SchedulerHardware
  <2>1. UNCHANGED <<now, pc, wakeAt, pumpOn, pOn>>
    BY <1>18 DEF SchedulerHardware
  <2>2. Calling(op)' => Calling(op)
    BY <1>18, <1>t, HardwareStepEffect DEF SchedulerHardware, Calling
  <2> QED
    BY <2>1, <2>2 DEF PumpOverdue, Catching, Missed, HeldUp
<1>21. CASE LightDiffers \/ LightGoesAhead \/ LightSet
  <2>1. ~Calling(op)'
    BY <1>21 DEF LightDiffers, LightGoesAhead, LightSet, Calling, Idle
  <2> QED
    BY <1>21, <2>1, PumpQuiet
       DEF LightDiffers, LightGoesAhead, LightSet, PumpAhead, LightDecided
<1>22. CASE NoManualRun \/ PumpHour
  <2>1. ~Calling(op)'
    BY <1>22 DEF NoManualRun, PumpHour, Calling, Idle
  <2> QED
    BY <1>22, <2>1, PumpQuiet DEF NoManualRun, PumpHour, PumpAhead
<1> QED
  BY <1>1, <1>2, <1>3, <1>4, <1>5, <1>6, <1>7, <1>8, <1>9, <1>10, <1>11, <1>12,
     <1>13, <1>14, <1>15, <1>16, <1>17, <1>18, <1>19, <1>20, <1>21, <1>22
     DEF SchedulerStep

LEMMA PumpTick ==
  ASSUME ClockInv, NEW d \in Nat, NEW level \in BOOLEAN, Tick,
         PumpOverdue(d, level, PumpCall(level)) \/ now' <= d
  PROVE  PumpOverdue(d, level, PumpCall(level))'
<1> DEFINE op == PumpCall(level)
<1>1. UNCHANGED <<pc, wakeAt, pumpOn, pOn, call>> /\ (Calling(op)' => Calling(op))
  BY DEF Tick, flags, locals, hardwareVars, Calling, Idle
<1>2. CASE PumpOverdue(d, level, op)
  BY <1>1, <1>2, TickKeeps DEF PumpOverdue
<1>3. CASE now' <= d
  BY <1>1, <1>3, TickInTime DEF PumpOverdue, PumpDecided, PumpAhead, LightDecided
<1> QED
  BY <1>2, <1>3

(* PumpOverdue only reads d, so that a rigid d may stand for a deadline    *)
(* that the clock determines.                                              *)
LEMMA PumpUpStep ==
  ASSUME ClockInv, PumpUpInv, [Next]_vars
  PROVE  PumpUpInv'
<1>t. TypeOK /\ Fresh /\ bootedAt <= now
  BY DEF ClockInv, FlagsInv
<1>n. /\ now \in Nat /\ HourStart(now) \in Nat /\ PumpRunTime \in Nat /\ bootedAt \in Nat
      /\ MaxLag \in Nat /\ currentTime \in Nat
  BY <1>t, ClockTypes, SettingsAssumption
<1> SUFFICES ASSUME bootedAt' <= HourStart(now'), now' < HourStart(now') + PumpRunTime
             PROVE  PumpOverdue(HourStart(now), TRUE, "PumpsOn")'
  BY DEF PumpUpInv
<1> DEFINE IsDue(d) == PumpOverdue(d, TRUE, PumpCall(TRUE))
<1>c. PumpCall(TRUE) = "PumpsOn"
  BY DEF PumpCall
<1>e. \A d \in Nat : d = HourStart(now') /\ IsDue(d)' => PumpOverdue(HourStart(now), TRUE, "PumpsOn")'
  BY <1>c
<1>f. \A d \in Nat : d = HourStart(now) /\ PumpOverdue(HourStart(now), TRUE, "PumpsOn") => IsDue(d)
  BY <1>c
<1> HIDE DEF IsDue
<1>1. CASE SchedulerStep
  <2>1. UNCHANGED <<now, bootedAt>>
    BY <1>1, ClockStands
  <2>2. PICK d \in Nat : d = HourStart(now)
    BY <1>n
  <2>3. IsDue(d)
    <3>1. bootedAt <= HourStart(now) /\ now < HourStart(now) + PumpRunTime
      BY <2>1
    <3>2. PumpOverdue(HourStart(now), TRUE, "PumpsOn")
      BY <3>1 DEF PumpUpInv
    <3> QED
      BY <1>f, <2>2, <3>2
  <2>4. ASSUME PumpTest PROVE pOn' = TRUE \/ currentTime < d
    <3>0. d <= currentTime \/ currentTime < d
      BY <1>n
    <3> SUFFICES ASSUME d <= currentTime PROVE pOn' = TRUE
      BY <3>0
    <3>1. /\ HourStart(currentTime) <= tm /\ tm <= d /\ currentTime <= now
          /\ pOn' = InWindow(currentTime, tm, PumpRunTime)
      BY <1>t, <2>2, <2>4
         DEF PumpTest, Running, Fresh, Looking, PumpDecided, LightDecided,
             PumpWindow
    <3>2. HourStart(currentTime) = d
      BY <1>n, <2>2, <3>1, SameHour
    <3>3. tm = d
      BY <1>n, <1>t, <2>2, <3>1, <3>2 DEF TypeOK
    <3>4. InWindow(currentTime, tm, PumpRunTime)
      <4>1. now < HourStart(now) + PumpRunTime
        BY <2>1
      <4> QED
        BY <1>n, <2>2, <3>1, <3>3, <4>1 DEF InWindow
    <3> QED
      BY <3>1, <3>4
  <2>5. IsDue(d)'
    BY <1>1, <2>3, <2>4, PumpOverdueStep DEF IsDue
  <2> QED
    BY <1>e, <2>1, <2>2, <2>5
<1>2. CASE Tick
  <2>1. now' = now + 1 /\ bootedAt' = bootedAt /\ now' \in Nat
    BY <1>2, <1>n DEF Tick, history
  <2>2. HourStart(now') \in {HourStart(now), now'} /\ HourStart(now') \in Nat
    BY <1>n, <2>1, HoursAndDays
  <2>3. PICK d \in Nat : d = HourStart(now')
    BY <2>2
  <2>4. IsDue(d) \/ now' <= d
    <3>1. CASE HourStart(now') = HourStart(now)
      <4>1. bootedAt <= HourStart(now) /\ now < HourStart(now) + PumpRunTime
        BY <1>n, <2>1, <3>1
      <4>2. PumpOverdue(HourStart(now), TRUE, "PumpsOn")
        BY <4>1 DEF PumpUpInv
      <4> QED
        BY <1>f, <2>3, <3>1, <4>2
    <3> QED
      BY <2>1, <2>2, <2>3, <3>1
  <2>5. IsDue(d)'
    BY <1>2, <2>4, PumpTick DEF IsDue
  <2> QED
    BY <1>e, <2>3, <2>5
<1>3. CASE Crash
  <2>1. /\ pc' = "top" /\ wakeAt' = now' /\ bootedAt' = now' /\ now' = now
        /\ ~Calling("PumpsOn")'
    BY <1>3, SettingsAssumption DEF Crash, ProcessStart, HardwareLost, Calling, Idle
  <2>2. Catching(HourStart(now))'
    BY <1>n, <2>1 DEF Catching
  <2> QED
    BY <2>1, <2>2 DEF PumpOverdue, PumpDecided, PumpAhead, LightDecided
<1>4. CASE TimeIsUp \/ UNCHANGED vars
  BY <1>4 DEF TimeIsUp, vars, locals, flags, history, hardwareVars, PumpUpInv,
     PumpOverdue,
              Catching, Missed, HeldUp, Calling, Idle
<1> QED
  BY <1>1, <1>2, <1>3, <1>4 DEF Next

LEMMA PumpDownStep ==
  ASSUME ClockInv, PumpDownInv, [Next]_vars
  PROVE  PumpDownInv'
<1>t. TypeOK /\ Fresh
  BY DEF ClockInv, FlagsInv
<1>n. /\ now \in Nat /\ HourStart(now) \in Nat /\ PumpRunTime \in Nat
      /\ currentTime \in Nat /\ tm \in Nat
  BY <1>t, ClockTypes, SettingsAssumption
<1> DEFINE IsDue(d) == PumpOverdue(d, FALSE, PumpCall(FALSE))
<1>c. PumpCall(FALSE) = "PumpsOff"
  BY DEF PumpCall
<1>e. \A d \in Nat : d = HourStart(now') + PumpRunTime /\ IsDue(d)' => PumpDownInv'
  BY <1>c DEF PumpDownInv
<1>f. \A d \in Nat : d = HourStart(now) + PumpRunTime => IsDue(d)
  BY <1>c DEF PumpDownInv
<1> HIDE DEF IsDue
<1>1. CASE SchedulerStep
  <2>1. now' = now
    BY <1>1, ClockStands
  <2>2. PICK d \in Nat : d = HourStart(now) + PumpRunTime
    BY <1>n
  <2>3. ASSUME PumpTest PROVE pOn' = FALSE \/ currentTime < d
    <3>1. tm <= HourStart(now) /\ pOn' = InWindow(currentTime, tm, PumpRunTime)
      BY <1>t, <2>3 DEF PumpTest, Running, Fresh, PumpWindow
    <3>2. InWindow(currentTime, tm, PumpRunTime) => currentTime < d
      BY <1>n, <2>2, <3>1 DEF InWindow
    <3> QED
      BY <3>1, <3>2
  <2>4. IsDue(d)'
    BY <1>1, <1>f, <2>2, <2>3, PumpOverdueStep DEF IsDue
  <2> QED
    BY <1>e, <2>1, <2>2, <2>4
<1>2. CASE Tick
  <2>1. now' = now + 1 /\ now' \in Nat
    BY <1>2, <1>n DEF Tick
  <2>2. HourStart(now') \in {HourStart(now), now'} /\ HourStart(now') \in Nat
    BY <1>n, <2>1, HoursAndDays
  <2>3. PICK d \in Nat : d = HourStart(now') + PumpRunTime
    BY <1>n, <2>2
  <2>4. IsDue(d) \/ now' <= d
    BY <1>f, <1>n, <2>1, <2>2, <2>3
  <2>5. IsDue(d)'
    BY <1>2, <2>4, PumpTick DEF IsDue
  <2> QED
    BY <1>e, <2>3, <2>5
<1>3. CASE Crash
  <2>1. pc' = "top" /\ pumpOn' = FALSE /\ ~Calling("PumpsOff")'
    BY <1>3, SettingsAssumption DEF Crash, ProcessStart, HardwareLost, Calling, Idle
  <2> QED
    BY <2>1 DEF PumpDownInv, PumpOverdue, PumpDecided
<1>4. CASE TimeIsUp \/ UNCHANGED vars
  BY <1>4 DEF TimeIsUp, vars, locals, flags, hardwareVars, PumpDownInv, PumpOverdue,
              Catching, Missed, HeldUp, Calling, Idle
<1> QED
  BY <1>1, <1>2, <1>3, <1>4 DEF Next
-----------------------------------------------------------------------------
(* The light.                                                              *)
LightPast == Places \ (LightAhead \cup LightDecided)

(* Steps that have nothing to do with the light.                           *)
LEMMA LightQuiet ==
  ASSUME NEW d \in Nat, LightOverdue(d),
         UNCHANGED <<now, wakeAt, lightOn>>, ~Calling("LightsOn")',
         \/ pc \in LightAhead /\ pc' \in LightAhead
         \/ pc \in LightPast \ {"feeding", "feedSleep", "rest"} /\ pc' \in LightPast \ {"feedSleep"}
  PROVE  LightOverdue(d)'
<1>1. CASE pc \in LightAhead /\ pc' \in LightAhead
  BY <1>1 DEF LightOverdue, LightDecided, LightAhead, Catching, HeldUp
<1>2. CASE pc \in LightPast \ {"feeding", "feedSleep", "rest"} /\ pc' \in LightPast \ {"feedSleep"}
  BY <1>2
     DEF LightOverdue, LightDecided, LightAhead, LightPast, Places, ManualPlaces,
         Missed, HeldUp
<1> QED
  BY <1>1, <1>2

LEMMA LightOverdueStep ==
  ASSUME ClockInv, NEW d \in Nat, LightOverdue(d), SchedulerStep,
         LightTest => shouldLightBeOn' = TRUE \/ currentTime < d
  PROVE  LightOverdue(d)'
<1>t. TypeOK /\ Awake /\ Fresh /\ Settled /\ pumpToggleRunOff = Never /\ ~lightOverride
  BY DEF ClockInv, FlagsInv
<1>n. /\ now \in Nat /\ wakeAt \in Nat /\ currentTime \in Nat
      /\ lightOn \in BOOLEAN /\ shouldLightBeOn \in BOOLEAN /\ pc \in Places
  BY <1>t DEF TypeOK
<1> USE DEF Running, hardwareVars, flags, locals, Places, ManualPlaces
<1>1. CASE ReadClock
  <2>1. ~Calling("LightsOn")'
    BY <1>1 DEF ReadClock, Calling, Idle
  <2> QED
    BY <1>1, <2>1, LightQuiet
       DEF ReadClock, LightAhead, LightPast, LightDecided, LeaveScope
<1>2. CASE LightStart
  <2>1. ~Calling("LightsOn")'
    BY <1>2 DEF LightStart, Calling, Idle
  <2> QED
    BY <1>2, <2>1, LightQuiet
       DEF LightStart, LightAhead, LightPast, LightDecided, LeaveScope
<1>3. CASE Wake
  <2>1. ~Calling("LightsOn")'
    BY <1>3 DEF Wake, Calling, Idle
  <2> QED
    BY <1>3, <2>1, LightQuiet DEF Wake, LightAhead, LightPast, LightDecided, LeaveScope
<1>4. CASE LightTest
  <2>1. /\ pc = "lightTest" /\ pc' = "lightCompare" /\ ~Calling("LightsOn")'
        /\ UNCHANGED <<now, wakeAt>> /\ wakeAt <= currentTime
    BY <1>4, <1>t DEF LightTest, Calling, Idle, Fresh, Looking
  <2>2. shouldLightBeOn' /\ ~lightOn' => Catching(d)'
    <3>1. shouldLightBeOn' /\ ~lightOn' => ~lightOn
      BY <1>4 DEF LightTest
    <3>2. ~lightOn => Catching(d)
      BY <2>1 DEF LightOverdue, LightDecided, LightAhead
    <3> QED
      BY <2>1, <3>1, <3>2 DEF Catching, HeldUp
  <2>3. currentTime < d => wakeAt' < d
    BY <1>n, <2>1
  <2> QED
    BY <1>4, <2>1, <2>2, <2>3 DEF LightOverdue, LightDecided
<1>5. CASE LightStays
  <2>1. /\ pc = "lightCompare" /\ pc' = "pumpStart" /\ ~Calling("LightsOn")'
        /\ shouldLightBeOn = lightOn /\ UNCHANGED <<now, wakeAt, lightOn>>
    BY <1>5, <1>t DEF LightStays, MaySwitchLight, Calling, Idle
  <2> QED
    BY <2>1 DEF LightOverdue, LightDecided, LightAhead, Missed
<1>19. CASE LightDiffers \/ LightGoesAhead
  BY <1>19 DEF LightDiffers, LightGoesAhead, LightOverdue, LightDecided, Calling,
     Catching, HeldUp, Idle
<1>20. CASE LightSet
  <2>1. /\ pc = "lightSet" /\ pc' = "lightCall" /\ ~Calling("LightsOn")'
        /\ shouldLightBeOn # lightOn /\ UNCHANGED <<now, wakeAt, shouldLightBeOn>>
    BY <1>20, <1>t DEF LightSet, Settled, Calling, Idle
  <2>2. shouldLightBeOn => Catching(d)'
    BY <1>n, <2>1 DEF LightOverdue, LightDecided, Catching, HeldUp
  <2>3. ~shouldLightBeOn => wakeAt' < d
    BY <2>1 DEF LightOverdue, LightDecided
  <2> QED
    BY <2>1, <2>2, <2>3 DEF LightOverdue, LightDecided
<1>6. CASE LightSwitches
  <2>1. /\ pc = "lightCall" /\ pc' = "pumpStart" /\ UNCHANGED <<now, wakeAt, lightOn>>
        /\ lightOn = shouldLightBeOn
    BY <1>6, <1>t DEF LightSwitches, Settled
  <2>2. CASE lightOn
    <3>1. Catching(d)'
      BY <2>1, <2>2 DEF LightOverdue, LightDecided, Catching, HeldUp
    <3> QED
      BY <2>1, <2>2, <3>1 DEF LightOverdue, LightDecided
  <2>3. CASE ~lightOn
    <3>1. wakeAt' < d
      BY <2>1, <2>3 DEF LightOverdue, LightDecided
    <3>2. ~Calling("LightsOn")'
      BY <1>6, <1>t, <2>3, OtherCall DEF LightSwitches, Relays
    <3> QED
      BY <2>1, <3>1, <3>2 DEF LightOverdue, LightDecided, LightAhead, Missed
  <2> QED
    BY <2>2, <2>3
<1>7. CASE PumpStart
  <2>1. ~Calling("LightsOn")'
    BY <1>7 DEF PumpStart, Calling, Idle
  <2> QED
    BY <1>7, <2>1, LightQuiet
       DEF PumpStart, LightAhead, LightPast, LightDecided, LeaveScope
<1>8. CASE PumpTest
  <2>1. ~Calling("LightsOn")'
    BY <1>8 DEF PumpTest, Calling, Idle
  <2> QED
    BY <1>8, <2>1, LightQuiet
       DEF PumpTest, LightAhead, LightPast, LightDecided, LeaveScope
<1>9. CASE ToggleGoesOn
  <2>1. ~Calling("LightsOn")'
    BY <1>9 DEF ToggleGoesOn, Calling, Idle
  <2> QED
    BY <1>9, <2>1, LightQuiet
       DEF ToggleGoesOn, LightAhead, LightPast, LightDecided, LeaveScope
<1>10. CASE PumpStays
  <2>1. ~Calling("LightsOn")'
    BY <1>10 DEF PumpStays, Calling, Idle
  <2> QED
    BY <1>10, <2>1, LightQuiet
       DEF PumpStays, LightAhead, LightPast, LightDecided, LeaveScope
<1>11. CASE FeedStart
  <2>1. ~Calling("LightsOn")'
    BY <1>11 DEF FeedStart, Calling, Idle
  <2> QED
    BY <1>11, <2>1, LightQuiet
       DEF FeedStart, LightAhead, LightPast, LightDecided, LeaveScope
<1>12. CASE FeedTest
  <2>1. ~Calling("LightsOn")'
    BY <1>12 DEF FeedTest, Calling, Idle
  <2> QED
    BY <1>12, <2>1, LightQuiet
       DEF FeedTest, LightAhead, LightPast, LightDecided, LeaveScope
<1>13. CASE PumpSwitches
  <2>1. PICK op \in {"PumpsOn", "PumpsOff"} : Invoke(SchedulerThread, op)
    BY <1>13 DEF PumpSwitches
  <2>2. ~Calling("LightsOn")'
    BY <1>t, <2>1, OtherCall DEF Relays
  <2> QED
    BY <1>13, <2>2, LightQuiet
       DEF PumpSwitches, LightAhead, LightPast, LightDecided, LeaveScope
<1>14. CASE Feed
  <2>1. PICK op \in {"FeedOn"} : Invoke(SchedulerThread, op)
    BY <1>14 DEF Feed
  <2>2. ~Calling("LightsOn")'
    BY <1>t, <2>1, OtherCall DEF Relays
  <2> QED
    BY <1>14, <2>2, LightQuiet DEF Feed, LightAhead, LightPast, LightDecided, LeaveScope
<1>15. CASE FeedEnds
  <2>1. /\ pc = "feedSleep" /\ pc' = "rest" /\ UNCHANGED <<now, wakeAt, lightOn>>
    BY <1>15 DEF FeedEnds
  <2>2. ~Calling("LightsOn")'
    BY <1>15, <1>t, OtherCall DEF FeedEnds, Relays
  <2> QED
    BY <2>1, <2>2 DEF LightOverdue, LightDecided, LightAhead, Missed, HeldUp
<1>16. CASE FeedRuns
  <2>1. pc = "feeding" /\ pc' = "feedSleep" /\ ~Calling("LightsOn")' /\ lightOn' = lightOn
    BY <1>16 DEF FeedRuns, Calling, Idle
  <2>2. ~lightOn => Missed(d)'
    BY <1>16, <2>1, MissedFeeds DEF LightOverdue, LightDecided, LightAhead
  <2> QED
    BY <2>1, <2>2 DEF LightOverdue, LightDecided, LightAhead
<1>17. CASE Rest
  <2>1. pc = "rest" /\ pc' = "sleep" /\ ~Calling("LightsOn")' /\ lightOn' = lightOn
    BY <1>17 DEF Rest, Calling, Idle
  <2>2. ~lightOn => Catching(d)'
    BY <1>17, <2>1, MissedRests DEF LightOverdue, LightDecided, LightAhead
  <2> QED
    BY <2>1, <2>2 DEF LightOverdue, LightDecided, LightAhead
<1>18. CASE SchedulerHardware
  <2>1. UNCHANGED <<now, pc, wakeAt, lightOn, shouldLightBeOn>>
    BY <1>18 DEF SchedulerHardware
  <2>2. Calling("LightsOn")' => Calling("LightsOn")
    BY <1>18, <1>t, HardwareStepEffect DEF SchedulerHardware, Calling
  <2> QED
    BY <2>1, <2>2 DEF LightOverdue, Catching, Missed, HeldUp
<1>21. CASE NoManualRun \/ PumpHour
  <2>1. ~Calling("LightsOn")'
    BY <1>21 DEF NoManualRun, PumpHour, Calling, Idle
  <2> QED
    BY <1>21, <2>1, LightQuiet
       DEF NoManualRun, PumpHour, LightAhead, LightPast, LightDecided
<1>22. CASE PumpDiffers \/ PumpGoesAhead \/ PumpSet
  <2>1. ~Calling("LightsOn")'
    BY <1>22 DEF PumpDiffers, PumpGoesAhead, PumpSet, Calling, Idle
  <2> QED
    BY <1>22, <2>1, LightQuiet
       DEF PumpDiffers, PumpGoesAhead, PumpSet, LightAhead, LightPast, LightDecided
<1> QED
  BY <1>1, <1>2, <1>3, <1>4, <1>5, <1>6, <1>7, <1>8, <1>9, <1>10, <1>11, <1>12,
     <1>13, <1>14, <1>15, <1>16, <1>17, <1>18, <1>19, <1>20, <1>21, <1>22
     DEF SchedulerStep

LEMMA LightTick ==
  ASSUME ClockInv, NEW d \in Nat, Tick, LightOverdue(d) \/ now' <= d
  PROVE  LightOverdue(d)'
<1>1. /\ UNCHANGED <<pc, wakeAt, lightOn, shouldLightBeOn, call>>
      /\ Calling("LightsOn")' => Calling("LightsOn")
  BY DEF Tick, flags, locals, hardwareVars, Calling, Idle
<1>2. CASE LightOverdue(d)
  BY <1>1, <1>2, TickKeeps DEF LightOverdue
<1>3. CASE now' <= d
  BY <1>1, <1>3, TickInTime DEF LightOverdue, LightDecided, LightAhead
<1> QED
  BY <1>2, <1>3

LEMMA LightStep ==
  ASSUME ClockInv, LightInv, [Next]_vars
  PROVE  LightInv'
<1> DEFINE StartsAt(t) == TimeOfDay(t, LightStartHour, LightStartMin)
           Lasts == LightDuration * MinuteLen
<1>t. TypeOK /\ Fresh /\ bootedAt <= now
  BY DEF ClockInv, FlagsInv
<1>n. /\ now \in Nat /\ bootedAt \in Nat /\ currentTime \in Nat /\ tm \in Nat
      /\ MaxLag \in Nat /\ Lasts \in Nat
  BY <1>t, ClockTypes, SettingsAssumption, CalendarAssumption
<1>s. \A t \in Nat : /\ StartsAt(t) \in Nat /\ Midnight(t) \in Nat
                      /\ Midnight(t) <= StartsAt(t)
  <2> TAKE t \in Nat
  <2>1. LightStartHour * HourLen \in Nat /\ LightStartMin * MinuteLen \in Nat
    BY UnitsPositive, CalendarAssumption, SettingsAssumption
  <2>2. Midnight(t) \in Nat
    BY CalendarTypes
  <2> QED
    BY <2>1, <2>2 DEF TimeOfDay
<1>m. \A t, u \in Nat : Midnight(t) = Midnight(u) => StartsAt(t) = StartsAt(u)
  BY DEF TimeOfDay
<1>e. \A d \in Nat : d = StartsAt(now') /\ LightOverdue(d)' => LightInv'
  BY DEF LightInv, TodaysLight
<1>f. \A d \in Nat : /\ d = StartsAt(now)
                      /\ bootedAt <= d /\ d <= now /\ now < d + Lasts
                      => LightOverdue(d)
  BY DEF LightInv, TodaysLight, InWindow
<1>g. \/ /\ bootedAt' <= StartsAt(now') /\ StartsAt(now') <= now'
         /\ now' < StartsAt(now') + Lasts
      \/ LightInv'
  BY DEF LightInv, TodaysLight, InWindow
<1> HIDE DEF StartsAt, Lasts
<1> SUFFICES ASSUME bootedAt' <= StartsAt(now'), StartsAt(now') <= now',
                    now' < StartsAt(now') + Lasts
             PROVE  LightInv'
  BY <1>g
<1>1. CASE SchedulerStep
  <2>1. UNCHANGED <<now, bootedAt>>
    BY <1>1, ClockStands
  <2>2. PICK d \in Nat : d = StartsAt(now)
    BY <1>n, <1>s
  <2>3. bootedAt <= d /\ d <= now /\ now < d + Lasts
    BY <2>1, <2>2
  <2>4. LightOverdue(d)
    BY <1>f, <2>2, <2>3
  <2>5. ASSUME LightTest PROVE shouldLightBeOn' = TRUE \/ currentTime < d
    <3>0. d <= currentTime \/ currentTime < d
      BY <1>n
    <3> SUFFICES ASSUME d <= currentTime PROVE shouldLightBeOn' = TRUE
      BY <3>0
    <3>1. /\ StartsAt(currentTime) <= tm /\ tm <= d /\ currentTime <= now
          /\ shouldLightBeOn' = InWindow(currentTime, tm, Lasts)
      BY <1>t, <2>2, <2>5
         DEF LightTest, Running, Fresh, Looking, LightDecided, LightWindow,
             StartsAt, Lasts
    <3>2. Midnight(now) <= currentTime
      BY <1>n, <1>s, <2>2
    <3>3. StartsAt(currentTime) = d
      BY <1>n, <1>m, <2>2, <3>1, <3>2, SameDay
    <3>4. tm = d
      BY <1>n, <3>1, <3>3
    <3>5. InWindow(currentTime, tm, Lasts)
      BY <1>n, <2>3, <3>1, <3>4 DEF InWindow
    <3> QED
      BY <3>1, <3>5
  <2>6. LightOverdue(d)'
    BY <1>1, <2>4, <2>5, LightOverdueStep
  <2> QED
    BY <1>e, <2>1, <2>2, <2>6
<1>2. CASE Tick
  <2>1. now' = now + 1 /\ bootedAt' = bootedAt /\ now' \in Nat
    BY <1>2, <1>n DEF Tick, history
  <2>2. Midnight(now') \in {Midnight(now), now'} /\ StartsAt(now') \in Nat
    BY <1>n, <1>s, <2>1, HoursAndDays
  <2>3. PICK d \in Nat : d = StartsAt(now')
    BY <2>2
  <2>4. LightOverdue(d) \/ now' <= d
    <3>1. CASE Midnight(now') = Midnight(now)
      <4>1. d = StartsAt(now)
        BY <1>m, <1>n, <2>1, <2>3, <3>1
      <4>2. now' <= d \/ (d <= now /\ now < d + Lasts /\ bootedAt <= d)
        BY <1>n, <2>1, <2>3
      <4> QED
        BY <1>f, <4>1, <4>2
    <3>2. CASE Midnight(now') = now'
      BY <1>s, <2>1, <2>3, <3>2
    <3> QED
      BY <2>2, <3>1, <3>2
  <2>5. LightOverdue(d)'
    BY <1>2, <2>4, LightTick
  <2> QED
    BY <1>e, <2>3, <2>5
<1>3. CASE Crash
  <2>1. /\ pc' = "top" /\ wakeAt' = now' /\ bootedAt' = now' /\ now' = now
        /\ ~Calling("LightsOn")'
    BY <1>3, SettingsAssumption DEF Crash, ProcessStart, HardwareLost, Calling, Idle
  <2>2. PICK d \in Nat : d = StartsAt(now')
    BY <1>n, <1>s, <2>1
  <2>3. Catching(d)'
    BY <1>n, <2>1, <2>2 DEF Catching
  <2>4. LightOverdue(d)'
    BY <2>1, <2>3 DEF LightOverdue, LightDecided, LightAhead
  <2> QED
    BY <1>e, <2>2, <2>4
<1>4. CASE TimeIsUp \/ UNCHANGED vars
  BY <1>4 DEF TimeIsUp, vars, locals, flags, history, hardwareVars, LightInv,
     LightOverdue,
              Catching, Missed, HeldUp, Calling, Idle, TodaysLight
<1> QED
  BY <1>1, <1>2, <1>3, <1>4 DEF Next
-----------------------------------------------------------------------------
(* The dose.  Two midnights are at least an hour apart.                    *)
LEMMA DaysApart ==
  ASSUME NEW t \in Nat, NEW u \in Nat, Midnight(t) < Midnight(u)
  PROVE  Midnight(t) + HourLen <= Midnight(u)
<1>1. HourLen \in Nat \ {0} /\ DayLen \in Nat \ {0}
  BY UnitsPositive
<1>2. PICK q \in Nat : Midnight(t) = DayLen * q
  BY <1>1, IsMultiple DEF Midnight
<1>3. PICK r \in Nat : Midnight(u) = DayLen * r
  BY <1>1, IsMultiple DEF Midnight
<1>m. \A a, b, c \in Nat : b <= c => a * b <= a * c
  OBVIOUS
<1>4. q + 1 <= r
  <2> SUFFICES ASSUME r <= q PROVE FALSE
    OBVIOUS
  <2>1. DayLen * r <= DayLen * q
    BY <1>1, <1>m
  <2> QED
    BY <1>1, <1>2, <1>3, <2>1
<1>5. DayLen * (q + 1) <= DayLen * r
  BY <1>1, <1>4, <1>m
<1>6. DayLen * (q + 1) = DayLen * q + DayLen
  BY <1>1
<1>7. HourLen <= DayLen
  <2>1. HourLen * 1 <= HourLen * HoursPerDay
    BY <1>1, <1>m, CalendarAssumption
  <2> QED
    BY <1>1, <2>1 DEF DayLen
<1>8. DayLen * q \in Nat
  BY <1>1
<1> QED
  BY <1>1, <1>2, <1>3, <1>5, <1>6, <1>7, <1>8

(* A step within the day, at a place before the dose.                      *)
LEMMA DoseQuiet ==
  ASSUME DoseOverdue, UNCHANGED <<now, wakeAt>>,
         pc \notin {"feeding", "feedSleep", "rest"},
         pc' \notin {"feeding", "feedSleep", "rest"}
  PROVE  DoseOverdue'
BY DEF DoseOverdue

LEMMA DoseOverdueStep ==
  ASSUME ClockInv, LoopDelay <= FeedWindow, DoseOverdue, SchedulerStep,
         ~RaisesFeed(SchedulerThread)
  PROVE  DoseOverdue'
<1>t. /\ TypeOK /\ Fresh /\ now <= wakeAt + MaxLag
  BY DEF ClockInv, FlagsInv, Awake
<1>n. /\ now \in Nat /\ wakeAt \in Nat /\ readAt \in Nat /\ MaxLag \in Nat
      /\ FeedWindow \in Nat /\ Midnight(now) \in Nat
  BY <1>t, ClockTypes
<1> USE DEF Running
<1>1. CASE ReadClock
  BY <1>1, DoseQuiet DEF ReadClock
<1>2. CASE LightStart
  BY <1>2, DoseQuiet DEF LightStart
<1>3. CASE LightTest
  BY <1>3, DoseQuiet DEF LightTest
<1>4. CASE LightStays
  BY <1>4, DoseQuiet DEF LightStays
<1>5. CASE LightSwitches
  BY <1>5, DoseQuiet DEF LightSwitches
<1>6. CASE PumpStart
  BY <1>6, DoseQuiet DEF PumpStart
<1>7. CASE PumpTest
  BY <1>7, DoseQuiet DEF PumpTest
<1>8. CASE ToggleGoesOn
  BY <1>8, DoseQuiet DEF ToggleGoesOn
<1>9. CASE PumpStays
  BY <1>9, DoseQuiet DEF PumpStays
<1>10. CASE PumpSwitches
  BY <1>10, DoseQuiet DEF PumpSwitches
<1>11. CASE FeedStart
  BY <1>11, DoseQuiet DEF FeedStart
<1>12. CASE Wake
  BY <1>12, DoseQuiet DEF Wake
<1>13. CASE FeedTest
  <2>1. /\ pc = "feedTest" /\ UNCHANGED <<now, wakeAt>> /\ wakeAt <= Midnight(now) + MaxLag
        /\ wakeAt <= readAt /\ readAt <= now /\ tm = Midnight(readAt)
    BY <1>13, <1>t DEF FeedTest, Fresh, DoseOverdue
  <2>2. CASE InWindow(readAt, tm, FeedWindow)
    BY <1>13, <2>1, <2>2, DoseQuiet DEF FeedTest
  <2>3. CASE ~InWindow(readAt, tm, FeedWindow)
    <3>1. wakeAt < Midnight(now)
      <4> SUFFICES ASSUME Midnight(now) <= readAt PROVE FALSE
        BY <1>n, <2>1
      <4>1. tm = Midnight(now)
        BY <1>n, <2>1, SameDay
      <4>2. readAt < Midnight(now) + FeedWindow
        BY <1>n, <1>t, <2>1 DEF LoopDelay
      <4> QED
        BY <2>3, <4>1, <4>2 DEF InWindow
    <3> QED
      BY <1>13, <2>1, <2>3, <3>1 DEF FeedTest, DoseOverdue
  <2> QED
    BY <2>2, <2>3
<1>14. CASE Feed
  <2>1. Invoke(SchedulerThread, "FeedOn") /\ "FeedOn" \in Operations
    BY <1>14 DEF Feed, Operations, Relays
  <2>2. Calling("FeedOn")'
    BY <1>t, <2>1, InvokeEffect DEF Calling
  <2> QED
    BY <1>14, <2>2 DEF Feed, DoseOverdue
<1>15. CASE FeedRuns \/ FeedEnds
  BY <1>15 DEF FeedRuns, FeedEnds, DoseOverdue, Calling
<1>16. CASE Rest
  BY <1>16, <1>t, <1>n DEF Rest, DoseOverdue
<1>17. CASE SchedulerHardware
  <2>1. UNCHANGED <<now, pc, wakeAt>>
    BY <1>17 DEF SchedulerHardware
  <2>2. Calling("FeedOn") => Calling("FeedOn")'
    BY <1>17, <1>t, HardwareStepEffect DEF SchedulerHardware, Calling, RaisesFeed
  <2> QED
    BY <2>1, <2>2 DEF DoseOverdue
<1>18. CASE LightDiffers \/ LightGoesAhead \/ LightSet
  BY <1>18, DoseQuiet DEF LightDiffers, LightGoesAhead, LightSet
<1>19. CASE NoManualRun \/ PumpHour
  BY <1>19, DoseQuiet DEF NoManualRun, PumpHour
<1>20. CASE PumpDiffers \/ PumpGoesAhead \/ PumpSet
  BY <1>20, DoseQuiet DEF PumpDiffers, PumpGoesAhead, PumpSet
<1> QED
  BY <1>1, <1>2, <1>3, <1>4, <1>5, <1>6, <1>7, <1>8, <1>9, <1>10, <1>11, <1>12,
     <1>13, <1>14, <1>15, <1>16, <1>17, <1>18, <1>19, <1>20
     DEF SchedulerStep

LEMMA DoseDueStep ==
  ASSUME DoseFitsTheHour, ClockInv, DoseDueInv, [Next]_vars
  PROVE  DoseDueInv'
<1>t. TypeOK /\ Awake
  BY DEF ClockInv, FlagsInv
<1>n. /\ now \in Nat /\ wakeAt \in Nat /\ bootedAt \in Nat /\ Midnight(now) \in Nat
      /\ Midnight(now) <= now
      /\ MaxLag \in Nat /\ FeedSleep \in Nat /\ FeedWindow \in Nat /\ HourLen \in Nat
  BY <1>t, ClockTypes
<1>g. \/ LoopDelay <= FeedWindow /\ bootedAt' <= Midnight(now') /\ ~FedToday'
      \/ DoseDueInv'
  BY DEF DoseDueInv, LoopDelay
<1> SUFFICES ASSUME LoopDelay <= FeedWindow, bootedAt' <= Midnight(now'), ~FedToday'
             PROVE  DoseOverdue'
  BY <1>g DEF DoseDueInv
<1>1. CASE SchedulerStep
  <2>1. /\ UNCHANGED <<now, bootedAt>>
        /\ fedAt' = fedAt \/ (RaisesFeed(SchedulerThread) /\ fedAt' = now)
        /\ RaisesFeed(SchedulerThread) => fedAt' = now
    <3>1. ASSUME RaisesFeed(SchedulerThread) PROVE SchedulerHardware
      BY <1>1, <3>1 DEF RaisesFeed, At, SchedulerStep, Running, Invoke,
         ReadClock, LightStart, LightTest, LightDiffers, LightGoesAhead, LightStays,
         LightSet, LightSwitches, PumpStart, NoManualRun, PumpHour, PumpTest,
         ToggleGoesOn, PumpDiffers, PumpGoesAhead, PumpStays, PumpSet, PumpSwitches,
         FeedStart, FeedTest, Feed, FeedRuns, FeedEnds, Rest, Wake
    <3> QED
      BY <1>1, <3>1
         DEF SchedulerStep, ReadClock, LightStart, LightTest, LightDiffers,
             LightGoesAhead, LightStays, LightSet, LightSwitches, PumpStart,
             NoManualRun, PumpHour, PumpTest, ToggleGoesOn, PumpDiffers,
             PumpGoesAhead, PumpStays, PumpSet, PumpSwitches, FeedStart, FeedTest,
             Feed, FeedRuns, FeedEnds, Rest, Wake, SchedulerHardware, history
  <2>2. ~RaisesFeed(SchedulerThread)
    BY <1>n, <2>1 DEF FedToday, Never
  <2>3. ~FedToday
    BY <2>1, <2>2 DEF FedToday
  <2>4. DoseOverdue
    BY <2>1, <2>3 DEF DoseDueInv
  <2> QED
    BY <1>1, <2>2, <2>4, DoseOverdueStep
<1>2. CASE Tick
  <2>1. /\ now' = now + 1 /\ now < wakeAt + MaxLag /\ now' \in Nat
        /\ UNCHANGED <<pc, wakeAt, bootedAt, fedAt, call>>
    BY <1>2, <1>n DEF Tick, history, hardwareVars
  <2>2. Midnight(now') \in {Midnight(now), now'}
    BY <1>n, <2>1, HoursAndDays
  <2>3. CASE Midnight(now') = Midnight(now)
    <3>1. bootedAt <= Midnight(now) /\ ~FedToday
      BY <2>1, <2>3 DEF FedToday
    <3>2. DoseOverdue
      BY <3>1 DEF DoseDueInv
    <3> QED
      BY <2>1, <2>3, <3>2 DEF DoseOverdue, Calling, Idle
  <2>4. CASE Midnight(now') = now'
    <3>1. Midnight(now) + HourLen <= now'
      BY <1>n, <2>1, <2>4, DaysApart
    <3>2. pc # "feeding"
      BY <1>n, <1>t, <2>1, <3>1 DEF Awake, DoseFitsTheHour
    <3>3. pc # "feedSleep"
      BY <1>n, <1>t, <2>1, <3>1 DEF Awake, DoseFitsTheHour
    <3>4. wakeAt <= now \/ (pc = "sleep" /\ wakeAt <= now + 1)
      BY <1>t, <3>3 DEF Awake
    <3> QED
      BY <1>n, <2>1, <2>4, <3>2, <3>3, <3>4 DEF DoseOverdue
  <2> QED
    BY <2>2, <2>3, <2>4
<1>3. CASE Crash
  <2>1. pc' = "top" /\ wakeAt' = now' /\ bootedAt' = now' /\ now' = now
    BY <1>3 DEF Crash, ProcessStart
  <2> QED
    BY <1>n, <2>1 DEF DoseOverdue
<1>4. CASE TimeIsUp \/ UNCHANGED vars
  BY <1>4 DEF TimeIsUp, vars, locals, flags, history, hardwareVars, DoseDueInv,
     DoseOverdue,
              FedToday, Calling, Idle
<1> QED
  BY <1>1, <1>2, <1>3, <1>4 DEF Next

-----------------------------------------------------------------------------
LEMMA DeadlineInit == Init => DeadlineInv
<1> SUFFICES ASSUME Init PROVE DeadlineInv
  OBVIOUS
<1>1. /\ FlagsInv /\ ~lightOverride /\ now \in Nat /\ MaxLag \in Nat
      /\ pc = "top" /\ wakeAt = now /\ bootedAt = now /\ pumpOn = FALSE /\ ~lightOn
      /\ Idle(SchedulerThread)
  BY FlagsInit, SettingsAssumption DEF Init, HardwareInit, Idle
<1>2. ClockInv
  BY <1>1
     DEF ClockInv, Awake, Fresh, Settled, ManualPlaces, CallPlaces, Calling,
         Looking, LightDecided, PumpDecided
<1>3. \A d \in Nat : now <= d => Catching(d)
  BY <1>1 DEF Catching
<1>4. PumpUpInv
  <2> SUFFICES ASSUME bootedAt <= HourStart(now)
               PROVE  PumpOverdue(HourStart(now), TRUE, "PumpsOn")
    BY DEF PumpUpInv
  <2>1. Catching(HourStart(now))
    BY <1>1, <1>3, CalendarTypes
  <2> QED
    BY <1>1, <2>1 DEF PumpOverdue, PumpAhead, PumpDecided, LightDecided, Calling
<1>5. PumpDownInv
  BY <1>1 DEF PumpDownInv, PumpOverdue, PumpDecided, Calling
<1>6. LightInv
  BY <1>1, <1>3, CalendarTypes DEF LightInv, LightOverdue, LightDecided,
     LightAhead, Calling, TodaysLight
<1>7. DoseDueInv
  BY <1>1, CalendarTypes DEF DoseDueInv, DoseOverdue
<1> QED
  BY <1>2, <1>4, <1>5, <1>6, <1>7 DEF DeadlineInv

LEMMA DeadlineStep == DeadlineInv /\ [Next]_vars => DeadlineInv'
<1> SUFFICES ASSUME DeadlineInv, [Next]_vars, DoseFitsTheHour
             PROVE  (ClockInv /\ PumpUpInv /\ PumpDownInv /\ LightInv /\ DoseDueInv)'
  BY DEF DeadlineInv, DoseFitsTheHour
<1>1. ClockInv /\ PumpUpInv /\ PumpDownInv /\ LightInv /\ DoseDueInv
  BY DEF DeadlineInv
<1> QED
  BY <1>1, ClockStep, PumpUpStep, PumpDownStep, LightStep, DoseDueStep

LEMMA DeadlinesKept == Spec => []DeadlineInv
BY DeadlineInit, DeadlineStep, PTL DEF Spec

-----------------------------------------------------------------------------
(* A flag that is not what it should be, or a call that is to make it so   *)
(* or is about to, is only there while the loop is catching up.            *)
LEMMA PumpIsCatching ==
  ASSUME ClockInv, NEW d \in Nat, NEW level \in BOOLEAN, NEW op,
         PumpOverdue(d, level, op),
         pumpOn # level \/ Calling(op) \/ pc = "pumpCall"
  PROVE  Catching(d)
<1>1. wakeAt \in Nat /\ MaxLag \in Nat
  BY ClockTypes DEF ClockInv, FlagsInv
<1>2. wakeAt < d => Catching(d)
  BY <1>1 DEF Catching
<1> QED
  BY <1>2, MissedIsCatching DEF PumpOverdue, PumpDecided

LEMMA LightIsCatching ==
  ASSUME ClockInv, NEW d \in Nat, LightOverdue(d),
         ~lightOn \/ Calling("LightsOn") \/ pc = "lightCall"
  PROVE  Catching(d)
<1>1. wakeAt \in Nat /\ MaxLag \in Nat
  BY ClockTypes DEF ClockInv, FlagsInv
<1>2. wakeAt < d => Catching(d)
  BY <1>1 DEF Catching
<1> QED
  BY <1>2, MissedIsCatching DEF LightOverdue, LightDecided

(* A relay that is not where it should be has such a flag or such a call.  *)
LEMMA RelaysLag ==
  ASSUME FlagsInv
  PROVE  /\ ~High("PUMP") => pumpOn # TRUE \/ Calling("PumpsOn") \/ pc = "pumpCall"
         /\ init /\ High("PUMP") =>
              pumpOn # FALSE \/ Calling("PumpsOff") \/ pc = "pumpCall"
         /\ ~High("LIGHT") => ~lightOn \/ Calling("LightsOn") \/ pc = "lightCall"
<1>t. pumpOn \in BOOLEAN /\ lightOn \in BOOLEAN /\ {"PUMP", "LIGHT"} \subseteq Pins
  BY DEF FlagsInv, TypeOK, Pins
<1>1. CASE Idle(SchedulerThread)
  BY <1>t, <1>1 DEF FlagsInv, Agrees
<1>2. CASE ~Idle(SchedulerThread)
  <2>1. PICK op \in Relays : op = call[SchedulerThread].op
    BY <1>2 DEF FlagsInv
  <2>2. (\A p \in Pins \ {Writes[op].to} : Agrees(p)) /\ Announced(op) /\ Calling(op)
    BY <1>2, <2>1 DEF FlagsInv, Calling
  <2>3. CASE op \in {"PumpsOn", "PumpsOff"}
    <3>1. Agrees("LIGHT")
      BY <1>t, <2>2, <2>3 DEF Writes
    <3> QED
      BY <1>t, <2>2, <2>3, <3>1 DEF Agrees, Announced
  <2>4. CASE op \in {"LightsOn", "LightsOff"}
    <3>1. Agrees("PUMP")
      BY <1>t, <2>2, <2>4 DEF Writes
    <3> QED
      BY <1>t, <2>2, <2>4, <3>1 DEF Agrees, Announced
  <2>5. CASE op \in {"FeedOn", "FeedOff"}
    <3>1. Agrees("PUMP") /\ Agrees("LIGHT")
      BY <1>t, <2>2, <2>5 DEF Writes
    <3> QED
      BY <1>t, <3>1 DEF Agrees
  <2> QED
    BY <2>3, <2>4, <2>5 DEF Relays
<1> QED
  BY <1>1, <1>2

(* Scheduler.cpp, schedulerLoop and IsPumpOn: from Delay after the hour    *)
(* until the pump's run is over its relay is up, and from Delay after that *)
(* until the next hour it is down, whatever the dose and the light do in   *)
(* between and whenever the process was restarted.                         *)
THEOREM PumpIsPunctual == Spec => []PumpFollowsTheHour
<1>1. DeadlineInv => PumpFollowsTheHour
  <2> SUFFICES ASSUME DeadlineInv, DoseFitsTheHour
               PROVE  /\ /\ Due(HourStart(now), Delay) /\ SinceHour < PumpRunTime
                         => High("PUMP")
                      /\ init /\ SinceHour >= PumpRunTime + Delay => ~High("PUMP")
    BY DEF PumpFollowsTheHour
  <2>1. ClockInv /\ PumpUpInv /\ PumpDownInv /\ FlagsInv /\ TypeOK
    BY DEF DeadlineInv, ClockInv, FlagsInv
  <2>2. /\ now \in Nat /\ HourStart(now) \in Nat /\ PumpRunTime \in Nat
        /\ Delay \in Nat
    <3>1. MaxLag \in Nat /\ FeedSleep \in Nat
      BY SettingsAssumption
    <3> QED
      BY <2>1, <3>1, ClockTypes, SettingsAssumption DEF Delay, LoopDelay
  <2>3. ASSUME Due(HourStart(now), Delay), SinceHour < PumpRunTime, ~High("PUMP")
        PROVE  FALSE
    <3>1. bootedAt <= HourStart(now) /\ HourStart(now) + Delay <= now
          /\ now < HourStart(now) + PumpRunTime
      BY <2>2, <2>3 DEF Due, SinceHour
    <3>2. PumpOverdue(HourStart(now), TRUE, "PumpsOn")
      BY <2>1, <3>1 DEF PumpUpInv
    <3>3. pumpOn # TRUE \/ Calling("PumpsOn") \/ pc = "pumpCall"
      BY <2>1, <2>3, RelaysLag
    <3>4. Catching(HourStart(now))
      BY <2>1, <2>2, <3>2, <3>3, PumpIsCatching
    <3> QED
      BY <2>1, <2>2, <3>1, <3>4, CatchingIsSoon
  <2>4. ASSUME init, SinceHour >= PumpRunTime + Delay, High("PUMP")
        PROVE  FALSE
    <3>1. HourStart(now) + PumpRunTime + Delay <= now
      BY <2>2, <2>4 DEF SinceHour
    <3>2. PumpOverdue(HourStart(now) + PumpRunTime, FALSE, "PumpsOff")
      BY <2>1 DEF PumpDownInv
    <3>3. pumpOn # FALSE \/ Calling("PumpsOff") \/ pc = "pumpCall"
      BY <2>1, <2>4, RelaysLag
    <3>4. HourStart(now) + PumpRunTime \in Nat
      BY <2>2
    <3>5. Catching(HourStart(now) + PumpRunTime)
      BY <2>1, <3>2, <3>3, <3>4, PumpIsCatching
    <3>6. now < (HourStart(now) + PumpRunTime) + Delay
      BY <2>1, <3>4, <3>5, CatchingIsSoon
    <3> QED
      BY <2>2, <3>1, <3>6
  <2> QED
    BY <2>3, <2>4
<1> QED
  BY <1>1, DeadlinesKept, PTL

(* Scheduler.cpp, schedulerLoop and IsLightOn: from Delay after its        *)
(* starting time until its duration is over, the light is lit.             *)
THEOREM LightIsPunctual == Spec => []LightComesOn
<1>1. DeadlineInv => LightComesOn
  <2> SUFFICES ASSUME DeadlineInv, DoseFitsTheHour, Due(TodaysLight, Delay),
                      InWindow(now, TodaysLight, LightDuration * MinuteLen), ~High("LIGHT")
               PROVE  FALSE
    BY DEF LightComesOn
  <2>1. ClockInv /\ LightInv /\ FlagsInv /\ TypeOK
    BY DEF DeadlineInv, ClockInv, FlagsInv
  <2>2. now \in Nat /\ TodaysLight \in Nat /\ Delay \in Nat
    <3>1. MaxLag \in Nat /\ FeedSleep \in Nat
      BY SettingsAssumption
    <3> QED
      BY <2>1, <3>1, ClockTypes, CalendarTypes DEF Delay, LoopDelay, TodaysLight
  <2>3. LightOverdue(TodaysLight)
    BY <2>1 DEF LightInv, Due
  <2>4. ~lightOn \/ Calling("LightsOn") \/ pc = "lightCall"
    BY <2>1, RelaysLag
  <2>5. Catching(TodaysLight)
    BY <2>1, <2>2, <2>3, <2>4, LightIsCatching
  <2>6. now < TodaysLight + Delay
    BY <2>1, <2>2, <2>5, CatchingIsSoon
  <2> QED
    BY <2>2, <2>6 DEF Due
<1> QED
  BY <1>1, DeadlinesKept, PTL

(* Scheduler.cpp, feedingTime and doFeeding: no day's dose is skipped by a *)
(* process that was there at midnight, as long as the feeding window is at *)
(* least as long as the loop may be busy elsewhere.                        *)
THEOREM DoseIsPunctual == Spec => []DoseIsGiven
<1>1. DeadlineInv => DoseIsGiven
  <2> SUFFICES ASSUME DeadlineInv, DoseFitsTheHour, LoopDelay <= FeedWindow,
                      Due(Midnight(now), LoopDelay), ~FedToday
               PROVE  FALSE
    BY DEF DoseIsGiven
  <2>1. ClockInv /\ DoseDueInv /\ TypeOK
    BY DEF DeadlineInv, ClockInv, FlagsInv
  <2>2. DoseOverdue
    BY <2>1 DEF DoseDueInv, Due
  <2>3. now \in Nat /\ wakeAt \in Nat /\ MaxLag \in Nat /\ Midnight(now) \in Nat
    BY <2>1, ClockTypes
  <2>4. wakeAt <= Midnight(now) + MaxLag /\ now <= wakeAt + MaxLag
    BY <2>1, <2>2, <2>3 DEF DoseOverdue, ClockInv, Awake
  <2> QED
    BY <2>3, <2>4 DEF Due, LoopDelay
<1> QED
  BY <1>1, DeadlinesKept, PTL
=============================================================================
