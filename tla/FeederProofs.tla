---------------------------- MODULE FeederProofs ----------------------------
(***************************************************************************)
(* The scheduler implements DailyFeeder, for every calendar and setting,   *)
(* any lag and any number of restarts.                                     *)
(***************************************************************************)
EXTENDS SchedulerProofs

FeederInv == DoseInv /\ FlagsInv /\ DoseInits /\ FeederWasOff

(* The abstract calendar is the concrete one.                              *)
LEMMA SameCalendar == \A t : Doser!Midnight(t) = Midnight(t)
BY DEF Doser!Midnight, Midnight, Doser!DayLen, DayLen, Doser!HourLen, HourLen

(* The steps that reach neither the pins nor what the history knows.       *)
LEMMA OtherSteps ==
  ASSUME [Next]_vars, ~SchedulerHardware, ~Tick, ~Crash
  PROVE  UNCHANGED <<now, init, pin, fedAt, fedByMe>>
BY DEF Next, SchedulerStep, vars, history, hardwareVars, Invoke, TimeIsUp,
   ReadClock, LightStart, LightTest, LightDiffers, LightGoesAhead, LightStays,
   LightSet, LightSwitches, PumpStart, NoManualRun, PumpHour, PumpTest,
   ToggleGoesOn, PumpDiffers, PumpGoesAhead, PumpStays, PumpSet, PumpSwitches,
   FeedStart, FeedTest, Feed, FeedRuns, FeedEnds, Rest, Wake

(* What a call has reached when it writes, and what it does to the feeder. *)
LEMMA WriteToFeeder ==
  ASSUME FlagsInv, SchedulerHardware, WritePin(SchedulerThread)
  PROVE  /\ init /\ UNCHANGED init /\ Idle(SchedulerThread)'
         /\ RaisesFeed(SchedulerThread) => pc = "feeding" /\ pin'["FEED"] = "HIGH"
         /\ call[SchedulerThread].op = "FeedOff" => pc = "rest" /\ pin'["FEED"] = "LOW"
         /\ call[SchedulerThread].op \notin {"FeedOn", "FeedOff"}
              => pin'["FEED"] = pin["FEED"]
<1> DEFINE op == call[SchedulerThread].op
<1>1. At(SchedulerThread, "write") /\ op \in Relays /\ Announced(op) /\ init
  BY DEF WritePin, At, FlagsInv
<1>2. pin' = [pin EXCEPT ![Writes[op].to] = Writes[op].level] /\ UNCHANGED init
  BY <1>1 DEF WritePin
<1>3. pin \in [Pins -> Levels] /\ "FEED" \in Pins /\ Idle(SchedulerThread)'
  BY SettingsAssumption DEF FlagsInv, TypeOK, HardwareTypeOK, Pins, WritePin, Idle
<1>4. CASE op = "FeedOn"
  BY <1>1, <1>2, <1>3, <1>4 DEF Announced, RaisesFeed, Writes
<1>5. CASE op = "FeedOff"
  BY <1>1, <1>2, <1>3, <1>5 DEF Announced, RaisesFeed, Writes
<1>6. CASE op \in {"PumpsOn", "PumpsOff", "LightsOn", "LightsOff"}
  BY <1>1, <1>2, <1>3, <1>6 DEF RaisesFeed, Writes
<1> QED
  BY <1>1, <1>4, <1>5, <1>6 DEF Relays

LEMMA FeederInitially == Init => FeederInv
<1> SUFFICES ASSUME Init PROVE DoseInits /\ FeederWasOff
  BY DoseInit, FlagsInit DEF FeederInv
<1> QED
  BY SettingsAssumption DEF Init, HardwareInit, DoseInits, FeederWasOff, Idle

LEMMA FeederStep == FeederInv /\ [Next]_vars => FeederInv'
<1> SUFFICES ASSUME FeederInv, [Next]_vars PROVE DoseInits' /\ FeederWasOff'
  BY DoseStep, FlagsStep DEF FeederInv
<1>t. TypeOK /\ DoseInits /\ FeederWasOff /\ FlagsInv
  BY DEF FeederInv, FlagsInv
<1>1. CASE SchedulerHardware
  <2>1. fedByMe' = (fedByMe \/ RaisesFeed(SchedulerThread))
    BY <1>1 DEF SchedulerHardware
  <2>2. CASE TestInit(SchedulerThread)
    <3>1. UNCHANGED <<init, pin>> /\ ~RaisesFeed(SchedulerThread)
      BY <2>2 DEF TestInit, RaisesFeed, At
    <3>2. call'[SchedulerThread].op = call[SchedulerThread].op /\ ~Idle(SchedulerThread)
      BY <1>1, <1>t, <2>2, HardwareStepEffect DEF SchedulerHardware, TestInit, At
    <3> QED
      BY <1>t, <2>1, <3>1, <3>2 DEF DoseInits, FeederWasOff, High
  <2>3. CASE TurnEverythingOff(SchedulerThread)
    <3>1. pin'["FEED"] = "LOW" /\ UNCHANGED init /\ ~RaisesFeed(SchedulerThread)
      BY <2>3 DEF TurnEverythingOff, AllLow, Pins, RaisesFeed, At
    <3> QED
      BY <1>t, <2>1, <3>1 DEF DoseInits, FeederWasOff, High
  <2>5. CASE Initialized(SchedulerThread)
    <3>1. init' = TRUE /\ pin'["FEED"] = "LOW"
      BY <1>t, <2>5 DEF Initialized, At, FlagsInv, AllLow, Pins
    <3> QED
      BY <3>1 DEF DoseInits, FeederWasOff, High
  <2>4. CASE WritePin(SchedulerThread)
    BY <1>1, <1>t, <2>4, WriteToFeeder DEF DoseInits, FeederWasOff
  <2> QED
    BY <1>1, <2>2, <2>3, <2>4, <2>5 DEF SchedulerHardware, HardwareStep
<1>2. CASE Crash
  BY <1>2, SettingsAssumption
     DEF Crash, ProcessStart, HardwareLost, DoseInits, FeederWasOff, Idle
<1>3. CASE Feed
  <2>1. Idle(SchedulerThread) /\ pc = "feed" /\ UNCHANGED <<init, pin, fedByMe>>
    BY <1>3 DEF Feed, Running, Invoke, history
  <2>2. Agrees("FEED")
    BY <1>t, <2>1 DEF FlagsInv, Pins
  <2> QED
    BY <1>t, <2>1, <2>2 DEF Agrees, DoseInits, FeederWasOff, High
<1>4. CASE ~SchedulerHardware /\ ~Crash /\ ~Feed
  <2>1. UNCHANGED <<init, pin, fedByMe>>
    BY <1>4, OtherSteps DEF Tick, history, hardwareVars
  <2>2. \/ UNCHANGED call
        \/ \E op \in {"LightsOn", "LightsOff", "PumpsOn", "PumpsOff", "FeedOff"} :
             Invoke(SchedulerThread, op)
    BY <1>4 DEF Next, SchedulerStep, vars, hardwareVars, Tick, TimeIsUp,
       ReadClock, LightStart, LightTest, LightDiffers, LightGoesAhead, LightStays,
       LightSet, LightSwitches, PumpStart, NoManualRun, PumpHour, PumpTest,
       ToggleGoesOn, PumpDiffers, PumpGoesAhead, PumpStays, PumpSet, PumpSwitches,
       FeedStart, FeedTest, FeedRuns, FeedEnds, Rest, Wake
  <2>3. CASE UNCHANGED call
    BY <1>t, <2>1, <2>3 DEF DoseInits, FeederWasOff, Idle, High
  <2>4. ASSUME NEW op \in {"LightsOn", "LightsOff", "PumpsOn", "PumpsOff", "FeedOff"},
               Invoke(SchedulerThread, op)
        PROVE  call'[SchedulerThread].op # "FeedOn"
    <3>1. op \in Operations
      BY DEF Operations, Relays
    <3>2. call'[SchedulerThread].op = op
      BY <1>t, <2>4, <3>1, InvokeEffect
    <3> QED
      BY <3>2
  <2> QED
    BY <1>t, <2>1, <2>2, <2>3, <2>4 DEF DoseInits, FeederWasOff
<1> QED
  BY <1>1, <1>2, <1>3, <1>4

(* Each step of the scheduler is one of the feeder's or none.              *)
LEMMA StepRefines ==
  FeederInv /\ [Next]_vars => [Doser!FeederNext]_(Doser!feederVars)
<1> SUFFICES ASSUME FeederInv, [Next]_vars
             PROVE  Doser!FeederNext \/ UNCHANGED Doser!feederVars
  OBVIOUS
<1>t. TypeOK /\ FlagsInv /\ DoseTiming /\ DoseInits /\ FeederWasOff
  BY DEF FeederInv, FlagsInv, DoseInv
<1> USE DEF Doser!FeederNext, Doser!feederVars
<1>1. CASE SchedulerHardware
  <2>1. /\ UNCHANGED now
        /\ fedAt' = IF RaisesFeed(SchedulerThread) THEN now ELSE fedAt
        /\ fedByMe' = (fedByMe \/ RaisesFeed(SchedulerThread))
    BY <1>1 DEF SchedulerHardware
  <2>2. ASSUME ~RaisesFeed(SchedulerThread)
        PROVE  UNCHANGED (IF fedByMe THEN fedAt ELSE Never)
    BY <2>1, <2>2, <1>t DEF TypeOK
  <2>3. CASE TestInit(SchedulerThread)
    <3>1. ~RaisesFeed(SchedulerThread) /\ UNCHANGED pin
      BY <2>3 DEF TestInit, RaisesFeed, At
    <3> QED
      BY <2>1, <2>2, <3>1 DEF High
  <2>4. CASE TurnEverythingOff(SchedulerThread)
    <3>1. ~RaisesFeed(SchedulerThread) /\ pin'["FEED"] = "LOW"
      BY <2>4 DEF TurnEverythingOff, AllLow, Pins, RaisesFeed, At
    <3>2. ~fedByMe
      BY <1>t, <2>4 DEF TurnEverythingOff, At, FlagsInv, DoseInits
    <3>3. CASE High("FEED")
      <4>1. Doser!StopDose
        BY <2>1, <2>2, <3>1, <3>2, <3>3 DEF Doser!StopDose, High, Doser!NoDose, Never
      <4> QED
        BY <4>1
    <3>4. CASE ~High("FEED")
      BY <2>1, <2>2, <3>1, <3>4 DEF High
    <3> QED
      BY <3>3, <3>4
  <2>6. CASE Initialized(SchedulerThread)
    <3>1. ~RaisesFeed(SchedulerThread) /\ UNCHANGED pin
      BY <2>6 DEF Initialized, RaisesFeed, At
    <3> QED
      BY <2>1, <2>2, <3>1 DEF High
  <2>5. CASE WritePin(SchedulerThread)
    <3>1. CASE RaisesFeed(SchedulerThread)
      <4>1. pc = "feeding" /\ init /\ pin'["FEED"] = "HIGH" /\ ~Idle(SchedulerThread)
            /\ call[SchedulerThread].op = "FeedOn"
        BY <1>1, <1>t, <2>5, <3>1, WriteToFeeder DEF RaisesFeed, At
      <4>2. ~High("FEED")
        BY <1>t, <4>1 DEF FeederWasOff
      <4>3. fedByMe => Midnight(fedAt) < Midnight(now)
        BY <1>t, <4>1 DEF DoseTiming, BeforeNextDose
      <4>4. fedByMe' = TRUE /\ fedAt' = now
        BY <2>1, <3>1
      <4>5. Doser!StartDose
        BY <2>1, <4>1, <4>2, <4>3, <4>4, SameCalendar
           DEF Doser!StartDose, High, Doser!NoDose, Never
      <4> QED
        BY <4>5
    <3>2. CASE call[SchedulerThread].op = "FeedOff"
      <4>1. pc = "rest" /\ pin'["FEED"] = "LOW" /\ ~RaisesFeed(SchedulerThread)
        BY <1>1, <1>t, <2>5, <3>2, WriteToFeeder DEF RaisesFeed
      <4>2. fedByMe => fedAt + FeedSleep <= now
        BY <1>t, <4>1 DEF DoseTiming
      <4>3. CASE High("FEED")
        <5>1. Doser!StopDose
          BY <2>1, <2>2, <4>1, <4>2, <4>3 DEF Doser!StopDose, High, Doser!NoDose, Never
        <5> QED
          BY <5>1
      <4>4. CASE ~High("FEED")
        BY <2>1, <2>2, <4>1, <4>4 DEF High
      <4> QED
        BY <4>3, <4>4
    <3>3. CASE call[SchedulerThread].op \notin {"FeedOn", "FeedOff"}
      <4>1. pin'["FEED"] = pin["FEED"] /\ ~RaisesFeed(SchedulerThread)
        BY <1>1, <1>t, <2>5, <3>3, WriteToFeeder DEF RaisesFeed
      <4> QED
        BY <2>1, <2>2, <4>1 DEF High
    <3> QED
      BY <2>5, <3>1, <3>2, <3>3 DEF WritePin, RaisesFeed
  <2> QED
    BY <1>1, <2>3, <2>4, <2>5, <2>6 DEF SchedulerHardware, HardwareStep
<1>2. CASE Tick
  <2>1. now' = now + 1 /\ now \in Nat /\ UNCHANGED <<pin, fedAt, fedByMe>>
    BY <1>2, <1>t DEF Tick, TypeOK, history, hardwareVars
  <2>2. Doser!TimePasses
    BY <2>1 DEF Doser!TimePasses, High
  <2> QED
    BY <2>2
<1>3. CASE Crash
  <2>1. fedByMe' = FALSE /\ UNCHANGED <<now, pin>>
    BY <1>3 DEF Crash, ProcessStart, HardwareLost
  <2>2. Doser!Dies
    BY <2>1 DEF Doser!Dies, High, Doser!NoDose, Never
  <2> QED
    BY <2>2
<1>4. CASE ~SchedulerHardware /\ ~Tick /\ ~Crash
  <2>1. UNCHANGED <<now, init, pin, fedAt, fedByMe>>
    BY <1>4, OtherSteps
  <2> QED
    BY <2>1 DEF High
<1> QED
  BY <1>1, <1>2, <1>3, <1>4

(* A dose starts from off, at most once a day and process, and runs for    *)
(* its full length unless the process dies: feedingTime, doFeeding and the *)
(* relay calls together are the abstract feeder.                           *)
THEOREM SchedulerDosesDaily == Spec => DosesDaily
<1>1. Init => Doser!FeederInit
  <2> SUFFICES ASSUME Init PROVE Doser!FeederInit
    OBVIOUS
  <2>1. now \in Nat /\ ~High("FEED") /\ fedByMe = FALSE
    BY SettingsAssumption DEF Init, HardwareInit, AllLow, Pins, High
  <2> QED
    BY <2>1 DEF Doser!FeederInit, High, Doser!NoDose, Never
<1> QED
  BY <1>1, FeederInitially, FeederStep, StepRefines, PTL
     DEF Spec, DosesDaily, Doser!FeederSpec
=============================================================================
