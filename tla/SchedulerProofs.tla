-------------------------- MODULE SchedulerProofs ---------------------------
(***************************************************************************)
(* Proofs about the scheduler thread and its hardware, for every calendar, *)
(* every setting, any lag and any number of restarts.                      *)
(***************************************************************************)
EXTENDS SchedulerProperties, TLAPS

(* The lengths of the calendar's units are positive.                       *)
LEMMA UnitsPositive == HourLen \in Nat \ {0} /\ DayLen \in Nat \ {0}
<1>1. \A a, b \in Nat \ {0} : a * b \in Nat \ {0}
  OBVIOUS
<1>2. HourLen \in Nat \ {0}
  BY <1>1, CalendarAssumption DEF HourLen
<1>3. DayLen \in Nat \ {0}
  BY <1>1, <1>2, CalendarAssumption DEF DayLen
<1> QED
  BY <1>2, <1>3

(* Rounding down to a multiple stays in Nat, goes down and is monotone.    *)
LEMMA RoundDown ==
  ASSUME NEW d \in Nat \ {0}, NEW t \in Nat
  PROVE  t - (t % d) \in Nat /\ t - (t % d) <= t
<1>1. t % d \in 0 .. d - 1
  OBVIOUS
<1>2. t = d * (t \div d) + (t % d) /\ t \div d \in Nat
  OBVIOUS
<1>3. d * (t \div d) \in Nat
  BY <1>2
<1> QED
  BY <1>1, <1>2, <1>3

LEMMA RoundDownMonotone ==
  ASSUME NEW d \in Nat \ {0}, NEW t \in Nat, NEW u \in Nat, t <= u
  PROVE  t - (t % d) <= u - (u % d)
<1> DEFINE q == t \div d
           p == u \div d
<1>1. q \in Nat /\ t = d * q + (t % d) /\ t % d \in 0 .. d - 1
  OBVIOUS
<1>2. p \in Nat /\ u = d * p + (u % d) /\ u % d \in 0 .. d - 1
  OBVIOUS
<1> HIDE DEF q, p
<1>3. q <= p
  <2> SUFFICES ASSUME p + 1 <= q PROVE FALSE
    BY <1>1, <1>2
  <2>1. d * (p + 1) <= d * q
    BY <1>1, <1>2
  <2>2. d * (p + 1) = d * p + d
    BY <1>2
  <2> QED
    BY <1>1, <1>2, <2>1, <2>2
<1>4. d * q <= d * p
  BY <1>1, <1>2, <1>3
<1>5. d * q \in Nat /\ d * p \in Nat
  BY <1>1, <1>2
<1> QED
  BY <1>1, <1>2, <1>4, <1>5

-----------------------------------------------------------------------------
(* What the model's calendar computes are times, and midnight does not go  *)
(* back while the clock does not.                                          *)
LEMMA CalendarTypes ==
  ASSUME NEW t \in Nat
  PROVE  /\ Midnight(t) \in Nat /\ Midnight(t) <= t
         /\ HourStart(t) \in Nat
         /\ TimeOfDay(t, LightStartHour, LightStartMin) \in Nat
<1>1. Midnight(t) \in Nat /\ Midnight(t) <= t
  BY UnitsPositive, RoundDown DEF Midnight
<1>2. HourStart(t) \in Nat
  BY UnitsPositive, RoundDown DEF HourStart
<1>3. LightStartHour * HourLen \in Nat /\ LightStartMin * MinuteLen \in Nat
  BY UnitsPositive, CalendarAssumption, SettingsAssumption
<1>4. TimeOfDay(t, LightStartHour, LightStartMin) \in Nat
  BY <1>1, <1>3 DEF TimeOfDay
<1> QED
  BY <1>1, <1>2, <1>4

LEMMA MidnightMonotone ==
  ASSUME NEW t \in Nat, NEW u \in Nat, t <= u
  PROVE  Midnight(t) <= Midnight(u)
BY UnitsPositive, RoundDownMonotone DEF Midnight

-----------------------------------------------------------------------------
(* Steps inside Hardware keep its types.                                   *)
LEMMA HardwareStepType ==
  ASSUME HardwareTypeOK, NEW t \in Threads, HardwareStep(t)
  PROVE  HardwareTypeOK'
<1> USE DEF HardwareTypeOK, Calls, Pins, Levels
<1>1. CASE TestInit(t)
  BY <1>1 DEF TestInit, At, Idle
<1>2. CASE TurnEverythingOff(t)
  BY <1>2 DEF TurnEverythingOff, At, Idle, AllLow
<1>4. CASE Initialized(t)
  BY <1>4 DEF Initialized, At, Idle
<1>3. CASE WritePin(t)
  <2>1. call' \in [Threads -> Calls \cup {NoCall}] /\ init' \in BOOLEAN
    BY <1>3 DEF WritePin, At, Idle
  <2>2. pin' \in [Pins -> Levels]
    BY <1>3 DEF WritePin, Writes, Relays
  <2> QED
    BY <2>1, <2>2
<1> QED
  BY <1>1, <1>2, <1>3, <1>4 DEF HardwareStep

LEMMA InvokeType ==
  ASSUME HardwareTypeOK, NEW t \in Threads, NEW op \in Operations, Invoke(t, op)
  PROVE  HardwareTypeOK'
BY DEF HardwareTypeOK, Calls, Invoke

LEMMA TypeInit == Init => TypeOK
<1> SUFFICES ASSUME Init PROVE TypeOK
  OBVIOUS
<1>1. HardwareTypeOK
  BY DEF Init, HardwareInit, HardwareTypeOK, AllLow, Levels
<1> QED
  BY <1>1, SettingsAssumption DEF Init, TypeOK, Places, ManualPlaces, Never

LEMMA TypeStep == TypeOK /\ [Next]_vars => TypeOK'
<1> USE DEF locals, flags, history, hardwareVars
<1> SUFFICES ASSUME TypeOK, [Next]_vars PROVE TypeOK'
  OBVIOUS
<1> USE DEF TypeOK, Places, ManualPlaces, Never
<1>0. Relays \subseteq Operations
  BY DEF Operations
<1>1. CASE ReadClock
  BY <1>1 DEF ReadClock, HardwareTypeOK
<1>2. CASE LightStart
  BY <1>2, CalendarTypes DEF LightStart, HardwareTypeOK
<1>3. CASE LightTest
  BY <1>3 DEF LightTest, LightWindow, InWindow, HardwareTypeOK
<1>4. CASE LightStays
  BY <1>4 DEF LightStays, HardwareTypeOK
<1>5. CASE LightSwitches
  <2>1. HardwareTypeOK'
    BY <1>0, <1>5, InvokeType, SettingsAssumption DEF LightSwitches, Relays
  <2> QED
    BY <1>5, <2>1 DEF LightSwitches
<1>24. CASE LightDiffers \/ LightGoesAhead
  BY <1>24 DEF LightDiffers, LightGoesAhead, HardwareTypeOK
<1>25. CASE LightSet
  BY <1>25 DEF LightSet, HardwareTypeOK
<1>7. CASE PumpStart
  BY <1>7 DEF PumpStart, HardwareTypeOK
<1>26. CASE NoManualRun
  BY <1>26 DEF NoManualRun, HardwareTypeOK
<1>27. CASE PumpHour
  BY <1>27, CalendarTypes DEF PumpHour, HardwareTypeOK
<1>28. CASE PumpDiffers \/ PumpGoesAhead
  BY <1>28 DEF PumpDiffers, PumpGoesAhead, HardwareTypeOK
<1>29. CASE PumpSet
  BY <1>29 DEF PumpSet, HardwareTypeOK
<1>8. CASE PumpTest
  BY <1>8 DEF PumpTest, PumpWindow, InWindow, HardwareTypeOK
<1>10. CASE ToggleGoesOn
  BY <1>10 DEF ToggleGoesOn, HardwareTypeOK
<1>11. CASE PumpStays
  BY <1>11 DEF PumpStays, LeaveScope, HardwareTypeOK
<1>12. CASE PumpSwitches
  <2>1. HardwareTypeOK'
    BY <1>0, <1>12, InvokeType, SettingsAssumption DEF PumpSwitches, Relays
  <2> QED
    BY <1>12, <2>1 DEF PumpSwitches, LeaveScope
<1>13. CASE FeedStart
  BY <1>13, CalendarTypes DEF FeedStart, HardwareTypeOK
<1>14. CASE FeedTest
  BY <1>14 DEF FeedTest, HardwareTypeOK
<1>15. CASE Feed
  <2>1. HardwareTypeOK'
    BY <1>0, <1>15, InvokeType, SettingsAssumption DEF Feed, Relays
  <2> QED
    BY <1>15, <2>1 DEF Feed
<1>16. CASE FeedRuns
  BY <1>16, SettingsAssumption DEF FeedRuns, HardwareTypeOK
<1>17. CASE FeedEnds
  <2>1. HardwareTypeOK'
    BY <1>0, <1>17, InvokeType, SettingsAssumption DEF FeedEnds, Relays
  <2> QED
    BY <1>17, <2>1 DEF FeedEnds
<1>18. CASE Rest
  BY <1>18 DEF Rest, HardwareTypeOK
<1>19. CASE Wake
  BY <1>19 DEF Wake, HardwareTypeOK
<1>20. CASE SchedulerHardware
  <2>1. HardwareTypeOK'
    BY <1>20, HardwareStepType, SettingsAssumption DEF SchedulerHardware
  <2>2. RaisesFeed(SchedulerThread) \in BOOLEAN
    BY DEF RaisesFeed, At, Idle
  <2>3. tm' \in Nat
    BY <1>20 DEF SchedulerHardware, Notes
  <2> QED
    BY <1>20, <2>1, <2>2, <2>3 DEF SchedulerHardware
<1>21. CASE Tick
  BY <1>21 DEF Tick, HardwareTypeOK
<1>22. CASE Crash
  <2>1. HardwareTypeOK'
    BY <1>22 DEF Crash, HardwareLost, HardwareTypeOK
  <2>2. pc' = "top" /\ wakeAt' = now /\ bootedAt' = now /\ now' = now
        /\ fedAt' = fedAt /\ restarts' = restarts + 1
        /\ currentTime' = 0 /\ readAt' = 0 /\ tm' = 0 /\ pumpToggleRunOff' = -1
    BY <1>22 DEF Crash, ProcessStart
  <2>3. /\ shouldLightBeOn' \in BOOLEAN /\ pOn' \in BOOLEAN
        /\ lightOn' \in BOOLEAN /\ pumpOn' \in BOOLEAN
        /\ feeding' \in BOOLEAN /\ lightOverride' \in BOOLEAN
        /\ fedByMe' \in BOOLEAN
    BY <1>22 DEF Crash, ProcessStart
  <2> QED
    BY <2>1, <2>2, <2>3
<1>23. CASE TimeIsUp \/ UNCHANGED vars
  BY <1>23 DEF TimeIsUp, vars, HardwareTypeOK
<1> QED
  BY <1>1, <1>2, <1>3, <1>4, <1>5, <1>7, <1>8, <1>10, <1>11, <1>12, <1>13, <1>14,
     <1>15, <1>16, <1>17, <1>18, <1>19, <1>20, <1>21, <1>22, <1>23, <1>24, <1>25,
     <1>26, <1>27, <1>28, <1>29
     DEF Next, SchedulerStep

(* Every variable of the scheduler keeps its type.                         *)
THEOREM TypeCorrect == Spec => []TypeOK
BY TypeInit, TypeStep, PTL DEF Spec

-----------------------------------------------------------------------------
(* The window of a day's dose is over FeedSleep + 1 seconds after any      *)
(* moment of that day: whoever still finds it open is in a later day.      *)
LEMMA WindowIsOver ==
  ASSUME NEW fed \in Nat, NEW read \in Nat, fed + FeedSleep + 1 <= read,
         InWindow(read, Midnight(read), FeedWindow)
  PROVE  Midnight(fed) < Midnight(read)
<1>1. Midnight(fed) \in Nat /\ Midnight(read) \in Nat /\ Midnight(fed) <= fed
  BY CalendarTypes
<1>2. Midnight(fed) <= Midnight(read)
  BY MidnightMonotone, SettingsAssumption
<1>3. Midnight(fed) # Midnight(read)
  BY <1>1, SettingsAssumption DEF InWindow
<1> QED
  BY <1>1, <1>2, <1>3

LEMMA DoseInit == Init => DoseInv
<1> SUFFICES ASSUME Init PROVE DoseInv
  OBVIOUS
<1>1. Idle(SchedulerThread) /\ fedByMe = FALSE /\ pc = "top"
  BY SettingsAssumption DEF Init, HardwareInit, Idle
<1> QED
  BY <1>1, TypeInit DEF DoseInv, FeedCalls, DoseTiming

(* The places at which the loop is past the dose of an earlier iteration.  *)
Elsewhere == Places \ {"feed", "feeding", "feedSleep", "rest", "sleep", "feedTest"}

(* A step that leaves the clock and the history alone, and goes from one   *)
(* of the other places to one of them, disturbs nothing.                   *)
LEMMA DoseStepElsewhere ==
  ASSUME DoseInv, TypeOK', pc \in Elsewhere, pc' \in Elsewhere,
         UNCHANGED <<now, history>>, Idle(SchedulerThread),
         ~Idle(SchedulerThread)' => call'[SchedulerThread].op # "FeedOn"
  PROVE  DoseInv'
BY DEF DoseInv, DoseTiming, FeedCalls, BeforeNextDose, Elsewhere, Places,
  ManualPlaces, history

(* What a call does to `call' at the scheduler's entry.                    *)
LEMMA InvokeEffect ==
  ASSUME TypeOK, NEW op \in Operations, Invoke(SchedulerThread, op)
  PROVE  /\ Idle(SchedulerThread) /\ ~Idle(SchedulerThread)'
         /\ call'[SchedulerThread] = [op |-> op, stage |-> "test"]
         /\ call'[SchedulerThread].op = op
         /\ UNCHANGED <<init, pin>>
<1>1. [op |-> op, stage |-> "test"] \in Calls
  BY DEF Calls
<1>2. call'[SchedulerThread] = [op |-> op, stage |-> "test"]
  BY SettingsAssumption DEF Invoke, TypeOK, HardwareTypeOK
<1> QED
  BY <1>1, <1>2, SettingsAssumption DEF Invoke, Idle

LEMMA HardwareStepEffect ==
  ASSUME TypeOK, HardwareStep(SchedulerThread)
  PROVE  /\ ~Idle(SchedulerThread)
         /\ \/ /\ \/ At(SchedulerThread, "test")
                  \/ At(SchedulerThread, "turnOff")
                  \/ At(SchedulerThread, "ready")
               /\ ~At(SchedulerThread, "write")
               /\ ~Idle(SchedulerThread)'
               /\ call'[SchedulerThread].op = call[SchedulerThread].op
            \/ /\ At(SchedulerThread, "write")
               /\ Idle(SchedulerThread)'
<1> DEFINE c == call[SchedulerThread]
<1>0. c = NoCall \/ c \in Calls
  BY SettingsAssumption DEF TypeOK, HardwareTypeOK
<1>1. CASE \/ TestInit(SchedulerThread) \/ TurnEverythingOff(SchedulerThread)
           \/ Initialized(SchedulerThread)
  <2>1. PICK st \in {"write", "turnOff", "ready"} :
          call' = [call EXCEPT ![SchedulerThread].stage = st]
    BY <1>1 DEF TestInit, TurnEverythingOff, Initialized
  <2>2. c \in Calls /\ c.stage \in {"test", "turnOff", "ready"}
    BY <1>0, <1>1 DEF TestInit, TurnEverythingOff, Initialized, At, Idle
  <2>3. call'[SchedulerThread] = [c EXCEPT !.stage = st]
    BY <2>1, SettingsAssumption DEF TypeOK, HardwareTypeOK
  <2>4. call'[SchedulerThread] \in Calls /\ call'[SchedulerThread].op = c.op
    BY <2>2, <2>3 DEF Calls
  <2> QED
    BY <2>2, <2>4, SettingsAssumption DEF At, Idle
<1>2. CASE WritePin(SchedulerThread)
  <2>1. call'[SchedulerThread] = NoCall
    BY <1>2, SettingsAssumption DEF WritePin, TypeOK, HardwareTypeOK
  <2> QED
    BY <1>2, <2>1 DEF WritePin, At, Idle
<1> QED
  BY <1>1, <1>2 DEF HardwareStep

LEMMA DoseStep == DoseInv /\ [Next]_vars => DoseInv'
<1> SUFFICES ASSUME DoseInv, [Next]_vars PROVE DoseInv'
  OBVIOUS
<1>t. TypeOK /\ TypeOK'
  BY TypeStep DEF DoseInv
<1>r. {"PumpsOn", "PumpsOff", "LightsOn", "LightsOff", "FeedOn", "FeedOff"} \subseteq Operations
  BY DEF Operations, Relays
<1> USE DEF Running
<1>1. CASE ReadClock
  BY <1>1, <1>t, DoseStepElsewhere DEF ReadClock, Elsewhere, Places, Idle, hardwareVars
<1>2. CASE LightStart
  BY <1>2, <1>t, DoseStepElsewhere DEF LightStart, Elsewhere, Places, Idle, hardwareVars
<1>3. CASE LightTest
  BY <1>3, <1>t, DoseStepElsewhere DEF LightTest, Elsewhere, Places, Idle, hardwareVars
<1>4. CASE LightStays
  BY <1>4, <1>t, DoseStepElsewhere DEF LightStays, Elsewhere, Places, Idle, hardwareVars
<1>24. CASE LightDiffers \/ LightGoesAhead
  BY <1>24, <1>t, DoseStepElsewhere
     DEF LightDiffers, LightGoesAhead, Elsewhere, Places, Idle, hardwareVars
<1>25. CASE LightSet
  BY <1>25, <1>t, DoseStepElsewhere DEF LightSet, Elsewhere, Places, Idle, hardwareVars
<1>26. CASE NoManualRun
  BY <1>26, <1>t, DoseStepElsewhere
     DEF NoManualRun, Elsewhere, Places, Idle, hardwareVars
<1>27. CASE PumpHour
  BY <1>27, <1>t, DoseStepElsewhere DEF PumpHour, Elsewhere, Places, Idle, hardwareVars
<1>28. CASE PumpDiffers \/ PumpGoesAhead
  BY <1>28, <1>t, DoseStepElsewhere
     DEF PumpDiffers, PumpGoesAhead, Elsewhere, Places, Idle, hardwareVars
<1>29. CASE PumpSet
  BY <1>29, <1>t, DoseStepElsewhere DEF PumpSet, Elsewhere, Places, Idle, hardwareVars
<1>5. CASE LightSwitches
  <2>1. PICK op \in {"LightsOn", "LightsOff"} : Invoke(SchedulerThread, op)
    BY <1>5 DEF LightSwitches
  <2>2. call'[SchedulerThread].op # "FeedOn"
    BY <2>1, <1>t, <1>r, InvokeEffect
  <2>3. /\ Idle(SchedulerThread) /\ pc = "lightCall" /\ pc' = "pumpStart"
        /\ UNCHANGED <<now, history>>
    BY <1>5 DEF LightSwitches
  <2> QED
    BY <2>2, <2>3, <1>t, DoseStepElsewhere DEF Elsewhere, Places
<1>7. CASE PumpStart
  BY <1>7, <1>t, DoseStepElsewhere DEF PumpStart, Elsewhere, Places, Idle, hardwareVars
<1>8. CASE PumpTest
  BY <1>8, <1>t, DoseStepElsewhere DEF PumpTest, Elsewhere, Places, Idle, hardwareVars
<1>10. CASE ToggleGoesOn
  BY <1>10, <1>t, DoseStepElsewhere
     DEF ToggleGoesOn, Elsewhere, Places, Idle, hardwareVars
<1>11. CASE PumpStays
  BY <1>11, <1>t, DoseStepElsewhere DEF PumpStays, Elsewhere, Places, Idle, hardwareVars
<1>12. CASE PumpSwitches
  <2>1. PICK op \in {"PumpsOn", "PumpsOff"} : Invoke(SchedulerThread, op)
    BY <1>12 DEF PumpSwitches
  <2>2. call'[SchedulerThread].op # "FeedOn"
    BY <2>1, <1>t, <1>r, InvokeEffect
  <2>3. /\ Idle(SchedulerThread) /\ pc = "pumpCall" /\ pc' = "feedStart"
        /\ UNCHANGED <<now, history>>
    BY <1>12 DEF PumpSwitches
  <2> QED
    BY <2>2, <2>3, <1>t, DoseStepElsewhere DEF Elsewhere, Places
<1> USE DEF DoseInv, DoseTiming, FeedCalls, BeforeNextDose
<1>13. CASE FeedStart
  BY <1>13, <1>t DEF FeedStart, Idle, hardwareVars, history, TypeOK
<1>14. CASE FeedTest
  <2>1. Idle(SchedulerThread)'
    BY <1>14 DEF FeedTest, Idle, hardwareVars
  <2>2. UNCHANGED <<now, fedAt, fedByMe>> /\ readAt \in Nat /\ now \in Nat
    BY <1>14, <1>t DEF FeedTest, history, TypeOK
  <2>3. CASE InWindow(readAt, tm, FeedWindow)
    <3>1. pc' = "feed"
      BY <1>14, <2>3 DEF FeedTest
    <3>2. ASSUME fedByMe PROVE Midnight(fedAt) < Midnight(now)
      <4>1. fedAt \in Nat /\ fedAt + FeedSleep + 1 <= readAt /\ tm = Midnight(readAt)
            /\ readAt <= now
        BY <1>14, <3>2 DEF FeedTest
      <4>2. Midnight(fedAt) < Midnight(readAt)
        BY <2>2, <2>3, <4>1, WindowIsOver
      <4>3. Midnight(readAt) <= Midnight(now)
        BY <2>2, <4>1, MidnightMonotone
      <4> QED
        BY <2>2, <4>1, <4>2, <4>3, CalendarTypes
    <3> QED
      BY <1>t, <2>1, <2>2, <3>1, <3>2
  <2>4. CASE ~InWindow(readAt, tm, FeedWindow)
    <3>1. pc' = "rest"
      BY <1>14, <2>4 DEF FeedTest
    <3> QED
      BY <1>14, <1>t, <2>1, <2>2, <3>1, SettingsAssumption DEF FeedTest
  <2> QED
    BY <2>3, <2>4
<1>15. CASE Feed
  BY <1>15, <1>t DEF Feed, history
<1>16. CASE FeedRuns
  BY <1>16, <1>t, SettingsAssumption DEF FeedRuns, Idle, hardwareVars, history, TypeOK
<1>17. CASE FeedEnds
  <2>1. call'[SchedulerThread].op # "FeedOn"
    BY <1>17, <1>t, <1>r, InvokeEffect DEF FeedEnds
  <2> QED
    BY <1>17, <2>1, <1>t, SettingsAssumption DEF FeedEnds, history, TypeOK
<1>18. CASE Rest
  BY <1>18, <1>t, SettingsAssumption DEF Rest, Idle, hardwareVars, history, TypeOK
<1>19. CASE Wake
  BY <1>19, <1>t, SettingsAssumption DEF Wake, Idle, hardwareVars, history, TypeOK
<1>20. CASE SchedulerHardware
  <2>1. UNCHANGED <<now, pc, wakeAt, readAt>> /\ pc # "feedTest"
    BY <1>20, <1>t, HardwareStepEffect DEF SchedulerHardware, locals
  <2>2. CASE At(SchedulerThread, "write") /\ Idle(SchedulerThread)'
    <3>1. CASE call[SchedulerThread].op = "FeedOn"
      <4>1. pc = "feeding" /\ fedAt' = now
        BY <1>20, <2>2, <3>1 DEF SchedulerHardware, RaisesFeed, At
      <4> QED
        BY <1>t, <2>1, <2>2, <4>1 DEF TypeOK
    <3>2. CASE call[SchedulerThread].op # "FeedOn"
      <4>1. fedAt' = fedAt /\ fedByMe' = fedByMe
        BY <1>20, <1>t, <3>2 DEF SchedulerHardware, RaisesFeed, TypeOK
      <4> QED
        BY <1>t, <2>1, <2>2, <4>1
    <3> QED
      BY <3>1, <3>2
  <2>3. CASE /\ ~At(SchedulerThread, "write")
             /\ ~Idle(SchedulerThread) /\ ~Idle(SchedulerThread)'
             /\ call'[SchedulerThread].op = call[SchedulerThread].op
    <3>1. fedAt' = fedAt /\ fedByMe' = fedByMe
      BY <1>20, <1>t, <2>3 DEF SchedulerHardware, RaisesFeed, TypeOK
    <3> QED
      BY <1>t, <2>1, <2>3, <3>1
  <2> QED
    BY <1>20, <1>t, <2>2, <2>3, HardwareStepEffect DEF SchedulerHardware
<1>21. CASE Tick
  <2>1. now \in Nat /\ now' = now + 1
        /\ UNCHANGED <<pc, wakeAt, tm, readAt, fedAt, fedByMe, call>>
    BY <1>21, <1>t DEF Tick, locals, history, hardwareVars, TypeOK
  <2>2. Idle(SchedulerThread)' = Idle(SchedulerThread)
    BY <2>1 DEF Idle
  <2>3. Midnight(now) <= Midnight(now')
    BY <2>1, MidnightMonotone
  <2>4. Midnight(now) \in Nat /\ Midnight(now') \in Nat
    BY <2>1, CalendarTypes
  <2>5. fedByMe => Midnight(fedAt) \in Nat
    BY CalendarTypes
  <2>6. FeedCalls' /\ BeforeNextDose' = BeforeNextDose
    BY <2>1, <2>2
  <2>7. pc' = "feedTest" =>
          Idle(SchedulerThread)' /\ tm' = Midnight(readAt') /\ readAt' <= now'
    BY <1>t, <2>1, <2>2 DEF TypeOK
  <2>8. fedByMe /\ BeforeNextDose => Midnight(fedAt') < Midnight(now')
    BY <2>1, <2>3, <2>4, <2>5
  <2>9. DoseTiming'
    <3> HIDE DEF BeforeNextDose
    <3> QED
      BY <1>t, <2>1, <2>6, <2>7, <2>8, SettingsAssumption DEF TypeOK
  <2> QED
    BY <1>t, <2>6, <2>9
<1>22. CASE Crash
  <2>1. fedByMe' = FALSE /\ pc' = "top" /\ Idle(SchedulerThread)'
    BY <1>22, SettingsAssumption DEF Crash, ProcessStart, HardwareLost, Idle
  <2> QED
    BY <1>t, <2>1
<1>23. CASE TimeIsUp \/ UNCHANGED vars
  BY <1>23, <1>t DEF TimeIsUp, vars, locals, history, hardwareVars, Idle
<1> QED
  BY <1>1, <1>2, <1>3, <1>4, <1>5, <1>7, <1>8, <1>10, <1>11, <1>12, <1>13, <1>14,
     <1>15, <1>16, <1>17, <1>18, <1>19, <1>20, <1>21, <1>22, <1>23, <1>24, <1>25,
     <1>26, <1>27, <1>28, <1>29
     DEF Next, SchedulerStep

(* Only the write at the end of a FeedOn raises the feeder's pin.          *)
LEMMA OnlyFeedOnRaises ==
  ASSUME TypeOK, [Next]_vars, DoseStarts
  PROVE  SchedulerHardware /\ RaisesFeed(SchedulerThread)
<1>1. pin' # pin
  BY DEF DoseStarts, High
<1>2. SchedulerHardware
  BY <1>1 DEF Next, SchedulerStep, vars, hardwareVars, Invoke, Crash, HardwareLost,
     ReadClock, LightStart, LightTest, LightDiffers, LightGoesAhead, LightStays,
     LightSet, LightSwitches, PumpStart, NoManualRun, PumpHour, PumpTest,
     ToggleGoesOn, PumpDiffers, PumpGoesAhead, PumpStays, PumpSet, PumpSwitches,
     FeedStart, FeedTest, Feed, FeedRuns, FeedEnds, Rest, Wake, Tick, TimeIsUp
<1>3. WritePin(SchedulerThread)
  BY <1>2 DEF SchedulerHardware, HardwareStep, TestInit, TurnEverythingOff, Initialized,
     AllLow, DoseStarts, High, Pins
<1>4. call[SchedulerThread].op = "FeedOn"
  BY <1>3 DEF WritePin, DoseStarts, High, Writes, Relays, TypeOK, HardwareTypeOK, Pins
<1> QED
  BY <1>2, <1>3, <1>4 DEF WritePin, RaisesFeed

(* The process that gave a dose does not start another one on that day.    *)
THEOREM AtMostOneDose == Spec => AtMostOneDosePerDay
<1>1. DoseInv /\ [Next]_vars => [DoseStarts => ~(fedByMe /\ FedToday)]_vars
  <2> SUFFICES ASSUME DoseInv, [Next]_vars, DoseStarts, fedByMe, FedToday
               PROVE  FALSE
    OBVIOUS
  <2>1. RaisesFeed(SchedulerThread)
    BY OnlyFeedOnRaises DEF DoseInv
  <2>2. pc = "feeding" /\ ~Idle(SchedulerThread)
    BY <2>1 DEF DoseInv, FeedCalls, RaisesFeed, At
  <2>3. fedAt \in Nat /\ now \in Nat /\ Midnight(fedAt) < Midnight(now)
    BY <2>2 DEF DoseInv, DoseTiming, BeforeNextDose, TypeOK
  <2> QED
    BY <2>3, CalendarTypes DEF FedToday
<1> QED
  BY <1>1, DoseInit, DoseStep, PTL DEF Spec, AtMostOneDosePerDay

-----------------------------------------------------------------------------
(* The flags and the relays.                                               *)
DosePlaces == {"feeding", "feedSleep"}

LEMMA FlagsInit == Init => FlagsInv
<1> SUFFICES ASSUME Init PROVE FlagsInv
  OBVIOUS
<1>1. Idle(SchedulerThread) /\ init = FALSE /\ pumpOn = FALSE /\ lightOn = FALSE
      /\ pc = "top" /\ pumpToggleRunOff = Never
  BY SettingsAssumption DEF Init, HardwareInit, Idle
<1> QED
  BY <1>1, TypeInit DEF FlagsInv, Agrees, Pins

(* A step outside Hardware that switches nothing: but for the places right *)
(* before the calls the pump's flag is kept and the light may only stop to *)
(* count as on, and the loop neither enters nor leaves a dose.             *)
LEMMA FlagsQuietStep ==
  ASSUME FlagsInv, TypeOK', Idle(SchedulerThread),
         UNCHANGED <<pumpToggleRunOff, init, pin, call>>,
         pc \notin {"pumpCall", "lightCall"},
         pc' # "pumpCall" => pumpOn' = pumpOn,
         pc' # "lightCall" /\ lightOn' => lightOn,
         pc \in DosePlaces <=> pc' \in DosePlaces
  PROVE  FlagsInv'
BY DEF FlagsInv, Idle, Agrees, Pins, High, DosePlaces

(* A step that sets a flag and calls the function that makes it true.      *)
LEMMA FlagsCall ==
  ASSUME FlagsInv, TypeOK', NEW op \in Relays, Invoke(SchedulerThread, op),
         pumpToggleRunOff' = Never,
         Announced(op)',
         Writes[op].to # "PUMP" => pumpOn' = pumpOn /\ pc # "pumpCall",
         Writes[op].to # "LIGHT" => lightOn' = lightOn /\ pc # "lightCall",
         Writes[op].to # "FEED" => (pc \in DosePlaces <=> pc' \in DosePlaces)
  PROVE  FlagsInv'
<1>1. Idle(SchedulerThread) /\ ~Idle(SchedulerThread)' /\ UNCHANGED <<init, pin>>
      /\ call'[SchedulerThread].op = op /\ call'[SchedulerThread].stage = "test"
  <2>1. op \in Operations /\ TypeOK
    BY DEF Operations, FlagsInv
  <2>2. call'[SchedulerThread] = [op |-> op, stage |-> "test"]
    BY <2>1, InvokeEffect
  <2> QED
    BY <2>1, <2>2, InvokeEffect
<1>2. \A p \in Pins : Agrees(p)
  BY <1>1 DEF FlagsInv
<1>3. ASSUME NEW p \in Pins \ {Writes[op].to} PROVE Agrees(p)'
  <2>1. Agrees(p) /\ High(p)' = High(p) /\ init' = init
    BY <1>1, <1>2, <1>3 DEF High
  <2>2. CASE p = "PUMP"
    BY <1>3, <2>1, <2>2 DEF Agrees
  <2>3. CASE p = "LIGHT"
    BY <1>3, <2>1, <2>3 DEF Agrees
  <2>4. CASE p = "FEED"
    BY <1>3, <2>1, <2>4 DEF Agrees, DosePlaces
  <2> QED
    BY <1>3, <2>2, <2>3, <2>4 DEF Pins
<1> QED
  BY <1>1, <1>3 DEF FlagsInv

(* Relay p agrees with the flags after a step that touches neither.        *)
LEMMA AgreesKept ==
  ASSUME NEW p \in Pins, Agrees(p),
         UNCHANGED <<pc, pumpOn, lightOn>>, init' = init, pin'[p] = pin[p]
  PROVE  Agrees(p)'
<1>1. CASE p = "PUMP"
  BY <1>1 DEF Agrees, High
<1>2. CASE p = "LIGHT"
  BY <1>2 DEF Agrees, High
<1>3. CASE p = "FEED"
  BY <1>3 DEF Agrees, High
<1> QED
  BY <1>1, <1>2, <1>3 DEF Pins

(* ... after one that changes the pins of hardware nobody initialised ...  *)
LEMMA AgreesUnborn ==
  ASSUME NEW p \in Pins, Agrees(p), ~init, ~init', UNCHANGED <<pc, pumpOn, lightOn>>
  PROVE  Agrees(p)'
<1>1. CASE p = "PUMP"
  BY <1>1 DEF Agrees
<1>2. CASE p = "LIGHT"
  BY <1>2 DEF Agrees
<1>3. CASE p = "FEED"
  BY <1>3 DEF Agrees
<1> QED
  BY <1>1, <1>2, <1>3 DEF Pins

(* ... after the one that declares it initialised, with everything off ... *)
LEMMA AgreesOff ==
  ASSUME NEW p \in Pins, Agrees(p), ~init, init' = TRUE, pin' = AllLow,
         UNCHANGED <<pc, pumpOn, lightOn>>
  PROVE  Agrees(p)'
<1>0. pin'[p] = "LOW"
  BY DEF AllLow
<1>1. CASE p = "PUMP"
  BY <1>0, <1>1 DEF Agrees, High
<1>2. CASE p = "LIGHT"
  BY <1>0, <1>2 DEF Agrees, High
<1>3. CASE p = "FEED"
  BY <1>0, <1>3 DEF Agrees, High
<1> QED
  BY <1>1, <1>2, <1>3 DEF Pins

(* ... and once the call its flag announced has written it.                *)
LEMMA AgreesWritten ==
  ASSUME NEW op \in Relays, Announced(op), UNCHANGED <<pc, pumpOn, lightOn>>,
         TypeOK', init' = TRUE, pin'[Writes[op].to] = Writes[op].level
  PROVE  Agrees(Writes[op].to)'
<1>1. CASE op = "PumpsOn"
  BY <1>1 DEF Agrees, High, Announced, Writes, TypeOK
<1>2. CASE op = "PumpsOff"
  BY <1>2 DEF Agrees, High, Announced, Writes, TypeOK
<1>3. CASE op = "LightsOn"
  BY <1>3 DEF Agrees, High, Announced, Writes
<1>4. CASE op = "LightsOff"
  BY <1>4 DEF Agrees, High, Announced, Writes
<1>5. CASE op = "FeedOn"
  BY <1>5 DEF Agrees, High, Announced, Writes
<1>6. CASE op = "FeedOff"
  BY <1>6 DEF Agrees, High, Announced, Writes
<1> QED
  BY <1>1, <1>2, <1>3, <1>4, <1>5, <1>6 DEF Relays

LEMMA FlagsHardware == FlagsInv /\ SchedulerHardware => FlagsInv'
<1> SUFFICES ASSUME FlagsInv, SchedulerHardware PROVE FlagsInv'
  OBVIOUS
<1> DEFINE c == call[SchedulerThread]
<1>t. TypeOK /\ TypeOK'
  BY TypeStep DEF FlagsInv, Next, SchedulerStep
<1>1. UNCHANGED <<pc, pumpOn, lightOn, pumpToggleRunOff>>
      /\ HardwareStep(SchedulerThread)
  BY DEF SchedulerHardware, flags
<1>2. c \in Calls /\ ~Idle(SchedulerThread)
  BY <1>1, <1>t, HardwareStepEffect, SettingsAssumption
     DEF TypeOK, HardwareTypeOK, Idle
<1>3. PICK o \in Relays :
        /\ c.op = o /\ Announced(o)
        /\ \A p \in Pins \ {Writes[o].to} : Agrees(p)
        /\ c.stage \in {"turnOff", "ready"} => ~init
        /\ c.stage = "ready" => pin = AllLow
        /\ c.stage = "write" => init
  BY <1>2 DEF FlagsInv
<1>a. Announced(o)'
  BY <1>1, <1>3 DEF Announced, Relays
<1>4. CASE TestInit(SchedulerThread)
  <2>1. /\ call' = [call EXCEPT ![SchedulerThread].stage =
                      IF init THEN "write" ELSE "turnOff"]
        /\ UNCHANGED <<init, pin>>
    BY <1>4 DEF TestInit
  <2>2. call'[SchedulerThread] = [c EXCEPT !.stage = IF init THEN "write" ELSE "turnOff"]
    BY <2>1, <1>t, SettingsAssumption DEF TypeOK, HardwareTypeOK
  <2>3. call'[SchedulerThread].op = o /\ ~Idle(SchedulerThread)'
        /\ call'[SchedulerThread].stage = IF init THEN "write" ELSE "turnOff"
    BY <2>2, <1>2, <1>3, SettingsAssumption DEF Calls, Idle
  <2>4. ASSUME NEW p \in Pins \ {Writes[o].to} PROVE Agrees(p)'
    BY <1>1, <1>3, <2>1, <2>4, AgreesKept
  <2> QED
    BY <1>t, <1>1, <1>3, <1>a, <2>1, <2>3, <2>4 DEF FlagsInv
<1>5. CASE TurnEverythingOff(SchedulerThread)
  <2>1. call' = [call EXCEPT ![SchedulerThread].stage = "ready"]
        /\ init' = init /\ ~init /\ pin' = AllLow
    BY <1>5, <1>3 DEF TurnEverythingOff, At
  <2>2. call'[SchedulerThread] = [c EXCEPT !.stage = "ready"]
    BY <2>1, <1>t, SettingsAssumption DEF TypeOK, HardwareTypeOK
  <2>3. call'[SchedulerThread].op = o /\ ~Idle(SchedulerThread)'
        /\ call'[SchedulerThread].stage = "ready"
    BY <2>2, <1>2, <1>3, SettingsAssumption DEF Calls, Idle
  <2>4. ASSUME NEW p \in Pins \ {Writes[o].to} PROVE Agrees(p)'
    BY <1>1, <1>3, <2>1, <2>4, AgreesUnborn
  <2> QED
    BY <1>t, <1>1, <1>3, <1>a, <2>1, <2>3, <2>4 DEF FlagsInv
<1>7. CASE Initialized(SchedulerThread)
  <2>1. call' = [call EXCEPT ![SchedulerThread].stage = "write"]
        /\ init' = TRUE /\ ~init /\ pin = AllLow /\ pin' = pin
    BY <1>7, <1>3 DEF Initialized, At
  <2>2. call'[SchedulerThread] = [c EXCEPT !.stage = "write"]
    BY <2>1, <1>t, SettingsAssumption DEF TypeOK, HardwareTypeOK
  <2>3. call'[SchedulerThread].op = o /\ ~Idle(SchedulerThread)'
        /\ call'[SchedulerThread].stage = "write"
    BY <2>2, <1>2, <1>3, SettingsAssumption DEF Calls, Idle
  <2>4. ASSUME NEW p \in Pins \ {Writes[o].to} PROVE Agrees(p)'
    BY <1>1, <1>3, <2>1, <2>4, AgreesOff
  <2> QED
    BY <1>t, <1>1, <1>3, <1>a, <2>1, <2>3, <2>4 DEF FlagsInv
<1>6. CASE WritePin(SchedulerThread)
  <2>1. Idle(SchedulerThread)'
    BY <1>6, <1>t, SettingsAssumption DEF WritePin, Idle, TypeOK, HardwareTypeOK
  <2>2. init' = init /\ init = TRUE
    BY <1>6, <1>3, <1>t DEF WritePin, At, TypeOK, HardwareTypeOK
  <2>3. pin' = [pin EXCEPT ![Writes[o].to] = Writes[o].level]
    BY <1>6, <1>3 DEF WritePin
  <2>4. pin \in [Pins -> Levels] /\ Writes[o].to \in Pins
    BY <1>t, <1>3 DEF TypeOK, HardwareTypeOK, Writes, Relays, Pins
  <2>5. ASSUME NEW p \in Pins \ {Writes[o].to} PROVE Agrees(p)'
    BY <1>1, <1>3, <2>2, <2>3, <2>4, <2>5, AgreesKept
  <2>6. Agrees(Writes[o].to)'
    BY <1>t, <1>1, <1>3, <2>2, <2>3, <2>4, AgreesWritten
  <2> QED
    BY <1>t, <1>1, <2>1, <2>5, <2>6 DEF FlagsInv
<1> QED
  BY <1>1, <1>4, <1>5, <1>6, <1>7 DEF HardwareStep

LEMMA FlagsStep == FlagsInv /\ [Next]_vars => FlagsInv'
<1> SUFFICES ASSUME FlagsInv, [Next]_vars PROVE FlagsInv'
  OBVIOUS
<1>t. TypeOK /\ TypeOK' /\ pumpToggleRunOff = Never
  BY TypeStep DEF FlagsInv
<1> USE DEF Running, flags, hardwareVars, locals, DosePlaces
<1>1. CASE ReadClock
  BY <1>1, <1>t, FlagsQuietStep DEF ReadClock
<1>2. CASE LightStart
  BY <1>2, <1>t, FlagsQuietStep DEF LightStart
<1>3. CASE LightTest
  BY <1>3, <1>t, FlagsQuietStep DEF LightTest
<1>4. CASE LightStays
  BY <1>4, <1>t, FlagsQuietStep DEF LightStays
<1>24. CASE LightDiffers \/ LightGoesAhead
  BY <1>24, <1>t, FlagsQuietStep DEF LightDiffers, LightGoesAhead
<1>25. CASE LightSet
  BY <1>25, <1>t, FlagsQuietStep DEF LightSet
<1>26. CASE NoManualRun
  BY <1>26, <1>t, FlagsQuietStep DEF NoManualRun
<1>27. CASE PumpHour
  BY <1>27, <1>t, FlagsQuietStep DEF PumpHour
<1>28. CASE PumpDiffers \/ PumpGoesAhead
  BY <1>28, <1>t, FlagsQuietStep DEF PumpDiffers, PumpGoesAhead
<1>29. CASE PumpSet
  BY <1>29, <1>t, FlagsQuietStep DEF PumpSet
<1>5. CASE PumpStart
  BY <1>5, <1>t, FlagsQuietStep DEF PumpStart
<1>6. CASE PumpTest
  BY <1>6, <1>t, FlagsQuietStep DEF PumpTest
<1>7. CASE ToggleGoesOn
  BY <1>7, <1>t, FlagsQuietStep DEF ToggleGoesOn
<1>8. CASE PumpStays
  BY <1>8, <1>t, FlagsQuietStep DEF PumpStays, LeaveScope
<1>9. CASE FeedStart
  BY <1>9, <1>t, FlagsQuietStep DEF FeedStart
<1>10. CASE FeedTest
  BY <1>10, <1>t, FlagsQuietStep DEF FeedTest
<1>11. CASE FeedRuns
  BY <1>11, <1>t, FlagsQuietStep DEF FeedRuns
<1>12. CASE Rest
  BY <1>12, <1>t, FlagsQuietStep DEF Rest
<1>13. CASE Wake
  BY <1>13, <1>t, FlagsQuietStep DEF Wake
<1>14. CASE LightSwitches
  <2>0. pc = "lightCall" /\ pc' = "pumpStart"
        /\ UNCHANGED <<pumpOn, lightOn, pumpToggleRunOff>>
    BY <1>14 DEF LightSwitches
  <2>1. CASE lightOn
    <3>1. Invoke(SchedulerThread, "LightsOn")
      BY <1>14, <2>1 DEF LightSwitches
    <3> QED
      BY <2>0, <2>1, <3>1, <1>t, FlagsCall DEF Announced, Writes, Relays
  <2>2. CASE ~lightOn
    <3>1. Invoke(SchedulerThread, "LightsOff")
      BY <1>14, <2>2 DEF LightSwitches
    <3> QED
      BY <2>0, <2>2, <3>1, <1>t, FlagsCall DEF Announced, Writes, Relays
  <2> QED
    BY <2>1, <2>2
<1>15. CASE PumpSwitches
  <2>0. pc = "pumpCall" /\ pc' = "feedStart"
        /\ UNCHANGED <<pumpOn, lightOn, pumpToggleRunOff>>
    BY <1>15 DEF PumpSwitches
  <2>1. CASE pumpOn
    <3>1. Invoke(SchedulerThread, "PumpsOn")
      BY <1>15, <2>1 DEF PumpSwitches
    <3> QED
      BY <2>0, <2>1, <3>1, <1>t, FlagsCall DEF Announced, Writes, Relays
  <2>2. CASE ~pumpOn
    <3>1. Invoke(SchedulerThread, "PumpsOff")
      BY <1>15, <2>2 DEF PumpSwitches
    <3> QED
      BY <2>0, <2>2, <3>1, <1>t, FlagsCall DEF Announced, Writes, Relays
  <2> QED
    BY <2>1, <2>2
<1>16. CASE Feed
  <2>1. Invoke(SchedulerThread, "FeedOn") /\ UNCHANGED <<pumpOn, lightOn, pumpToggleRunOff>>
        /\ pc = "feed" /\ pc' = "feeding"
    BY <1>16 DEF Feed
  <2> QED
    BY <2>1, <1>t, FlagsCall DEF Announced, Writes, Relays
<1>17. CASE FeedEnds
  <2>1. Invoke(SchedulerThread, "FeedOff") /\ UNCHANGED <<pumpOn, lightOn, pumpToggleRunOff>>
        /\ pc = "feedSleep" /\ pc' = "rest"
    BY <1>17 DEF FeedEnds
  <2> QED
    BY <2>1, <1>t, FlagsCall DEF Announced, Writes, Relays
<1>19. CASE SchedulerHardware
  BY <1>19, FlagsHardware
<1>20. CASE Crash
  <2>1. init' = FALSE /\ pumpOn' = FALSE /\ lightOn' = FALSE /\ pc' = "top"
        /\ pumpToggleRunOff' = Never /\ Idle(SchedulerThread)'
    BY <1>20, SettingsAssumption DEF Crash, ProcessStart, HardwareLost, Idle
  <2> QED
    BY <2>1, <1>t DEF FlagsInv, Agrees, Pins
<1>21. CASE Tick \/ TimeIsUp \/ UNCHANGED vars
  <2>1. UNCHANGED <<pc, pumpOn, lightOn, pumpToggleRunOff, init, pin, call>>
    BY <1>21 DEF Tick, TimeIsUp, vars
  <2>2. \A p \in Pins : Agrees(p) => Agrees(p)'
    BY <2>1, AgreesKept
  <2>3. \A o \in Relays : Announced(o) => Announced(o)'
    BY <2>1 DEF Announced, Relays
  <2>4. CASE Idle(SchedulerThread)
    <3>1. Idle(SchedulerThread)' /\ \A p \in Pins : Agrees(p)'
      BY <2>1, <2>2, <2>4 DEF FlagsInv, Idle
    <3> QED
      BY <2>1, <3>1, <1>t DEF FlagsInv
  <2>5. CASE ~Idle(SchedulerThread)
    <3>1. PICK o \in Relays :
            /\ call[SchedulerThread].op = o /\ Announced(o)
            /\ \A p \in Pins \ {Writes[o].to} : Agrees(p)
            /\ call[SchedulerThread].stage \in {"turnOff", "ready"} => ~init
            /\ call[SchedulerThread].stage = "ready" => pin = AllLow
            /\ call[SchedulerThread].stage = "write" => init
      BY <2>5 DEF FlagsInv
    <3>2. ~Idle(SchedulerThread)' /\ call'[SchedulerThread] = call[SchedulerThread]
      BY <2>1, <2>5 DEF Idle
    <3>3. Announced(o)' /\ \A p \in Pins \ {Writes[o].to} : Agrees(p)'
      BY <2>2, <2>3, <3>1
    <3> QED
      BY <2>1, <3>1, <3>2, <3>3, <1>t DEF FlagsInv
  <2> QED
    BY <2>4, <2>5
<1> QED
  BY <1>1, <1>2, <1>3, <1>4, <1>5, <1>6, <1>7, <1>8, <1>9, <1>10, <1>11, <1>12,
     <1>13, <1>14, <1>15, <1>16, <1>17, <1>19, <1>20, <1>21, <1>24, <1>25, <1>26,
     <1>27, <1>28, <1>29
     DEF Next, SchedulerStep

(* Between Hardware calls the flags and the relays agree.                  *)
THEOREM FlagsTellTheTruth == Spec => []RelaysFollowFlags
<1>1. FlagsInv => RelaysFollowFlags
  <2> SUFFICES ASSUME FlagsInv, Idle(SchedulerThread), init
               PROVE  /\ pc # "pumpCall" => pumpOn = High("PUMP")
                      /\ pc # "lightCall" /\ lightOn => High("LIGHT")
                      /\ High("FEED") => pc \in {"feeding", "feedSleep"}
    BY DEF RelaysFollowFlags
  <2>1. Agrees("PUMP") /\ Agrees("LIGHT") /\ Agrees("FEED")
    BY DEF FlagsInv, Pins
  <2>2. pumpOn \in BOOLEAN
    BY DEF FlagsInv, TypeOK
  <2>3. pc # "pumpCall" => pumpOn = High("PUMP")
    BY <2>1, <2>2 DEF Agrees, High
  <2> QED
    BY <2>1, <2>3 DEF Agrees
<1> QED
  BY <1>1, FlagsInit, FlagsStep, PTL DEF Spec
=============================================================================
