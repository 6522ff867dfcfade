---------------------------- MODULE GardenProofs -----------------------------
(***************************************************************************)
(* Proofs about the scheduler together with the other threads: types, and  *)
(* who may have the feeder running, for any number of web and screen       *)
(* threads, every interleaving and any crashes.                            *)
(***************************************************************************)
EXTENDS GardenProperties, SchedulerProofs, SequenceTheorems

-----------------------------------------------------------------------------
(* A callback that starts the feeder stops it later on.                    *)
WillStop(s) == \E i \in DOMAIN s : s[i] = "FeedOff"

StopsWhatItStarts(s) ==
    \A i \in DOMAIN s :
        s[i] = "FeedOn" => \E j \in DOMAIN s : i < j /\ s[j] = "FeedOff"

Owners == Clients \cup {SchedulerThread}

FeederHasOwner == init /\ High("FEED") => \E t \in Owners : InDose(t)

(* Whoever writes a pin finds the hardware initialised, and whoever is to  *)
(* declare it so, if nobody has yet, finds everything off.                 *)
Readiness ==
    \A t \in Owners : /\ At(t, "write") => init
                      /\ At(t, "ready") /\ ~init => pin = AllLow

FeederInv ==
    /\ GardenTypeOK
    /\ Readiness
    /\ FeedCalls
    /\ \A t \in Clients : StopsWhatItStarts(script[t])
    /\ \A t \in Clients :
         ~Idle(t) /\ call[t].op = "FeedOn" => WillStop(script[t])
    /\ FeederHasOwner
-----------------------------------------------------------------------------
(* Types.  Every action is a step of the scheduler, which TypeStep covers, *)
(* or leaves most of its variables alone.                                  *)
Steps == Operations \cup Naps

LEMMA ScriptTypes ==
  /\ <<>> \in Seq(Steps)
  /\ \A a, b \in Steps : <<a>> \in Seq(Steps) /\ <<a, b>> \in Seq(Steps)
  /\ <<"PumpsOn", "FeedOn", "start", "awake", "FeedOff", "PumpsOff">> \in Seq(Steps)
  /\ <<"FeedOn", "nap", "awake", "FeedOff">> \in Seq(Steps)
BY DEF Steps, Naps, Operations, Relays

LEMMA PatienceIsNat == Patience \in Nat
BY SettingsAssumption DEF Patience

LEMMA ClientTypes ==
  ASSUME GardenTypeOK
  PROVE  /\ TypeOK /\ HardwareTypeOK /\ now \in Nat /\ tm \in Nat
         /\ Clients \subseteq Threads \ {SchedulerThread}
         /\ place \in [Clients -> ClientPlaces] /\ readNow \in [Clients -> Nat]
         /\ askedAt \in [Clients -> Nat]
         /\ script \in [Clients -> Seq(Steps)] /\ napUntil \in [Clients -> Nat]
         /\ asked \subseteq Requests /\ quiet \in 0 .. Patience
         /\ ManualRunTime \in Nat /\ StartSleep \in Nat
BY ClientsAssumption DEF GardenTypeOK, TypeOK, Steps

(* What a client may do to what it shares with the scheduler.              *)
LEMMA SharedTypes ==
  ASSUME GardenTypeOK, HardwareTypeOK', UNCHANGED <<now, pc, wakeAt, history, feeding>>,
         UNCHANGED <<currentTime, shouldLightBeOn, pOn, readAt>>,
         tm' \in Nat, lightOn' \in BOOLEAN, pumpOn' \in BOOLEAN,
         lightOverride' \in BOOLEAN, pumpToggleRunOff' \in Nat \cup {Never}
  PROVE  TypeOK'
BY ClientTypes DEF TypeOK, history

LEMMA UntouchedTypes ==
  ASSUME GardenTypeOK, UNCHANGED vars
  PROVE  TypeOK'
<1>1. HardwareTypeOK'
  BY ClientTypes DEF vars, hardwareVars, HardwareTypeOK
<1> QED
  BY <1>1, SharedTypes, ClientTypes DEF vars, locals, flags, TypeOK

LEMMA BufferTypes ==
  ASSUME tm \in Nat, NEW t \in Clients, NEW times \in SUBSET Nat, Leaves(t, times)
  PROVE  tm' \in Nat
BY DEF Leaves

(* What it may do to what is its own.                                      *)
LEMMA OwnTypes ==
  ASSUME GardenTypeOK, TypeOK', NEW t \in Clients, quiet' \in 0 .. Patience,
         asked' = asked \/ \E r \in Requests : Request(r),
         place' = place \/ \E p \in ClientPlaces : Go(t, p),
         readNow' = readNow \/ \E n \in Nat : readNow' = [readNow EXCEPT ![t] = n],
         askedAt' = askedAt \/ \E n \in Nat : askedAt' = [askedAt EXCEPT ![t] = n],
         script' = script \/ \E q \in Seq(Steps) : Do(t, q),
         napUntil' = napUntil \/ \E n \in Nat : napUntil' = [napUntil EXCEPT ![t] = n]
  PROVE  GardenTypeOK'
<1>1. place' \in [Clients -> ClientPlaces]
  BY ClientTypes DEF Go
<1>2. readNow' \in [Clients -> Nat]
  BY ClientTypes
<1>3. askedAt' \in [Clients -> Nat]
  BY ClientTypes
<1>4. script' \in [Clients -> Seq(Operations \cup Naps)]
  BY ClientTypes DEF Do, Steps
<1>5. napUntil' \in [Clients -> Nat]
  BY ClientTypes
<1>6. asked' \subseteq Requests
  BY ClientTypes DEF Request
<1> QED
  BY <1>1, <1>2, <1>3, <1>4, <1>5, <1>6 DEF GardenTypeOK

(* A step that only goes from one place to another.                        *)
LEMMA PlaceTypes ==
  ASSUME GardenTypeOK, UNCHANGED <<vars, readNow, askedAt, script, napUntil>>,
         NEW t \in Clients, NEW p \in ClientPlaces, Go(t, p), quiet' \in 0 .. Patience,
         asked' = asked \/ \E r \in Requests : Request(r)
  PROVE  GardenTypeOK'
BY UntouchedTypes, OwnTypes

LEMMA AnnouncedTimes ==
  ASSUME now \in Nat, bootedAt \in Nat, NEW p \in Announcing
  PROVE  LeavesInBuffer(p) \subseteq Nat
<1>1. /\ HourStart(now) \in Nat /\ Midnight(now) \in Nat
      /\ HourLen \in Nat \ {0} /\ DayLen \in Nat /\ PumpRunTime \in Nat
      /\ TimeOfDay(now, LightStartHour, LightStartMin) \in Nat
  BY CalendarTypes, UnitsPositive, SettingsAssumption
<1>2. SecondOf(now) \in Nat /\ LightDuration * MinuteLen \in Nat
  BY CalendarAssumption, SettingsAssumption DEF SecondOf
<1>3. \A t \in Nat : NextAfter(t, now) \in Nat
  BY <1>1 DEF NextAfter
<1>4. PumpTimes \subseteq Nat
  BY <1>1, <1>2 DEF PumpTimes, GetNextPumpOn, GetNextPumpOff
<1>5. LightTimes \subseteq Nat
  <2>1. /\ TimeOfDay(now, LightStartHour, LightStartMin) + SecondOf(now) \in Nat
        /\ TimeOfDay(now, LightStartHour, LightStartMin) + SecondOf(now)
              + LightDuration * MinuteLen \in Nat
    BY <1>1, <1>2
  <2>2. TimeOfDay(now, LightStartHour, 0) \in Nat
    <3>1. LightStartHour * HourLen \in Nat /\ 0 * MinuteLen = 0
      BY <1>1, CalendarAssumption, SettingsAssumption
    <3> QED
      BY <1>1, <3>1 DEF TimeOfDay
  <2>3. TimeOfDay(now, LightStartHour, 0) + MinuteOf(now) + SecondOf(now) \in Nat
    <3>1. now % HourLen \in Nat
      BY <1>1
    <3> QED
      BY <1>2, <2>2, <3>1 DEF MinuteOf
  <2>4. /\ GetNextLightOn(now, LightStartHour, LightStartMin) \in Nat
        /\ GetNextLightOff(now, LightStartHour, LightStartMin, LightDuration) \in Nat
    BY <1>3, <2>1 DEF GetNextLightOn, GetNextLightOff
  <2> QED
    BY <2>1, <2>3, <2>4 DEF LightTimes
<1>6. FeedTimes \subseteq Nat
  <2>1. now % HourLen \in Nat
    BY <1>1
  <2>2. Midnight(now) + MinuteOf(now) + SecondOf(now) \in Nat
    BY <1>1, <1>2, <2>1 DEF MinuteOf
  <2>3. Midnight(now) + SecondOf(now) \in Nat /\ GetNextFeeding(now) \in Nat
    BY <1>1, <1>2 DEF GetNextFeeding
  <2> QED
    BY <2>2, <2>3 DEF FeedTimes
<1>7. LogTimes \subseteq Nat
  BY DEF LogTimes
<1> QED
  BY <1>4, <1>5, <1>6, <1>7 DEF LeavesInBuffer, Announcing

LEMMA GardenTypeInit == GardenInit => GardenTypeOK
BY TypeInit, ClientsAssumption, EmptySeq, PatienceIsNat
   DEF GardenInit, GardenTypeOK, ClientPlaces

LEMMA WebTypes ==
  ASSUME GardenTypeOK, NEW t \in WebThreads, WebStep(t), quiet' \in 0 .. Patience
  PROVE  GardenTypeOK'
<1> USE DEF flags, schedulerLocals, locals
<1>t. t \in Clients
  BY DEF Clients
<1>c. /\ TypeOK /\ HardwareTypeOK /\ now \in Nat /\ tm \in Nat /\ bootedAt \in Nat
      /\ lightOn \in BOOLEAN /\ pumpOn \in BOOLEAN /\ lightOverride \in BOOLEAN
      /\ pumpToggleRunOff \in Nat \cup {Never}
      /\ TimeOfDay(now, LightStartHour, LightStartMin) \in Nat
      /\ HourStart(askedAt[t]) \in Nat
  BY <1>t, ClientTypes, CalendarTypes DEF TypeOK
<1>h. ASSUME UNCHANGED hardwareVars PROVE HardwareTypeOK'
  BY <1>c, <1>h DEF HardwareTypeOK, hardwareVars
<1>r. "info" \in Requests /\ "settings" \in Requests
  BY DEF Requests
<1>s. /\ <<>> \in Seq(Steps) /\ <<"Sense">> \in Seq(Steps)
      /\ <<"Sense", "Sense">> \in Seq(Steps)
  BY ScriptTypes DEF Steps, Operations
<1>1. CASE GetInfo(t)
  <2>1. TypeOK'
    BY <1>1, <1>c, <1>h, <1>t, BufferTypes, SharedTypes DEF GetInfo
  <2>2. "pumpTimes" \in ClientPlaces
    BY DEF ClientPlaces
  <2> QED
    BY <1>1, <1>c, <1>r, <1>t, <2>1, <2>2, OwnTypes DEF GetInfo
<1>2. CASE AnnounceTimes(t)
  <2>1. PICK p \in Announcing :
          /\ Leaves(t, LeavesInBuffer(p))
          /\ place' \in {place, [place EXCEPT ![t] = After(p)]}
          /\ UNCHANGED <<now, schedulerLocals, flags, history, hardwareVars,
                         readNow, askedAt, script, napUntil, asked>>
    BY <1>2 DEF AnnounceTimes
  <2>2. tm' \in Nat /\ After(p) \in ClientPlaces
    BY <1>c, <1>t, <2>1, AnnouncedTimes, BufferTypes DEF After, ClientPlaces, Announcing
  <2>3. TypeOK'
    BY <1>c, <1>h, <2>1, <2>2, SharedTypes
  <2> QED
    BY <1>t, <2>1, <2>2, <2>3, OwnTypes DEF Go
<1>3. CASE InfoIsPumpOn(t)
  <2>1. PICK p \in {"pumpManual", "pumpHour"} : Go(t, p)
    BY <1>3 DEF InfoIsPumpOn
  <2>2. p \in ClientPlaces /\ TypeOK'
    BY <1>3, UntouchedTypes DEF ClientPlaces, InfoIsPumpOn
  <2> QED
    BY <1>3, <1>c, <1>t, <2>1, <2>2, OwnTypes DEF InfoIsPumpOn
<1>4. CASE InfoPumpManual(t)
  <2>1. PICK p \in {"manualTest", "pumpHour"} : Go(t, p)
    BY <1>4 DEF InfoPumpManual
  <2>2. p \in ClientPlaces
    BY DEF ClientPlaces
  <2> QED
    BY <1>4, <1>t, <2>1, <2>2, PlaceTypes DEF InfoPumpManual
<1>5. CASE InfoManualTest(t)
  <2>1. PICK p \in {"manualOff", "lightTimes"} : Go(t, p)
    BY <1>5 DEF InfoManualTest
  <2>2. p \in ClientPlaces /\ TypeOK'
    BY <1>5, UntouchedTypes DEF ClientPlaces, InfoManualTest
  <2> QED
    BY <1>5, <1>t, <2>1, <2>2, OwnTypes DEF InfoManualTest
<1>6. CASE InfoManualOff(t)
  <2>1. TypeOK' /\ "manualClear" \in ClientPlaces
    BY <1>6, <1>c, <1>h, SharedTypes DEF InfoManualOff, ClientPlaces
  <2> QED
    BY <1>6, <1>t, <2>1, OwnTypes DEF InfoManualOff
<1>7. CASE InfoManualClear(t)
  <2>1. TypeOK' /\ "lightTimes" \in ClientPlaces
    BY <1>7, <1>c, <1>h, SharedTypes DEF InfoManualClear, ClientPlaces
  <2> QED
    BY <1>7, <1>t, <2>1, OwnTypes DEF InfoManualClear
<1>8. CASE InfoPumpHour(t)
  <2>1. TypeOK' /\ "lightTimes" \in ClientPlaces
    BY <1>8, <1>c, <1>h, <1>t, BufferTypes, SharedTypes DEF InfoPumpHour, ClientPlaces
  <2> QED
    BY <1>8, <1>t, <2>1, OwnTypes DEF InfoPumpHour
<1>9. CASE InfoIsLightOn(t)
  <2>1. TypeOK' /\ "isLightOnTest" \in ClientPlaces
    BY <1>9, <1>c, <1>h, SharedTypes DEF InfoIsLightOn, ClientPlaces
  <2> QED
    BY <1>9, <1>t, <2>1, OwnTypes DEF InfoIsLightOn
<1>10. CASE InfoIsLightOnTest(t)
  <2>1. TypeOK' /\ "feedTime" \in ClientPlaces
    BY <1>10, <1>c, <1>h, SharedTypes DEF InfoIsLightOnTest, ClientPlaces
  <2> QED
    BY <1>10, <1>s, <1>t, <2>1, OwnTypes DEF InfoIsLightOnTest
<1>11. CASE GetSettings(t)
  <2>1. "settings" \in ClientPlaces
    BY DEF ClientPlaces
  <2> QED
    BY <1>11, <1>r, <1>t, <2>1, PlaceTypes DEF GetSettings
<1>12. CASE SettingsLevels(t)
  <2>1. "idle" \in ClientPlaces /\ TypeOK'
    BY <1>12, UntouchedTypes DEF ClientPlaces, SettingsLevels
  <2> QED
    BY <1>12, <1>s, <1>t, <2>1, OwnTypes DEF SettingsLevels
<1> QED
  BY <1>1, <1>2, <1>3, <1>4, <1>5, <1>6, <1>7, <1>8, <1>9, <1>10, <1>11, <1>12
     DEF WebStep

LEMMA UiTypes ==
  ASSUME GardenTypeOK, NEW t \in UiThreads, UiStep(t), quiet' \in 0 .. Patience
  PROVE  GardenTypeOK'
<1> USE DEF flags, schedulerLocals, locals
<1>t. t \in Clients
  BY DEF Clients
<1>c. /\ TypeOK /\ HardwareTypeOK /\ now \in Nat /\ tm \in Nat
      /\ lightOn \in BOOLEAN /\ pumpOn \in BOOLEAN /\ lightOverride \in BOOLEAN
      /\ pumpToggleRunOff \in Nat \cup {Never} /\ readNow[t] \in Nat
      /\ TimeOfDay(now, LightStartHour, LightStartMin) \in Nat
  BY <1>t, ClientTypes, CalendarTypes DEF TypeOK
<1>h. ASSUME UNCHANGED hardwareVars PROVE HardwareTypeOK'
  BY <1>c, <1>h DEF HardwareTypeOK, hardwareVars
<1>r. {"update", "light", "pump", "start", "prime"} \subseteq Requests
  BY DEF Requests
<1>s. /\ <<>> \in Seq(Steps) /\ <<"Sense", "Sense">> \in Seq(Steps)
      /\ <<"LightsOff">> \in Seq(Steps) /\ <<"LightsOn">> \in Seq(Steps)
      /\ <<"PumpsOn">> \in Seq(Steps)
  <2>1. {"Sense", "LightsOn", "LightsOff", "PumpsOn"} \subseteq Steps
    BY DEF Steps, Operations, Relays
  <2> QED
    BY <2>1, ScriptTypes
<1>l. LightWindow(readNow[t]) \in BOOLEAN
  BY <1>c DEF LightWindow, InWindow
<1>1. CASE UpdateUI(t)
  <2>1. TypeOK'
    BY <1>1, <1>c, <1>h, <1>t, BufferTypes, SharedTypes DEF UpdateUI
  <2> QED
    BY <1>1, <1>r, <1>s, <1>t, <2>1, OwnTypes DEF UpdateUI
<1>2. CASE SetLight(t)
  <2>1. PICK p \in {"setOff", "setOn"} : Go(t, p)
    BY <1>2 DEF SetLight
  <2>2. p \in ClientPlaces
    BY DEF ClientPlaces
  <2> QED
    BY <1>2, <1>r, <1>t, <2>1, <2>2, PlaceTypes DEF SetLight
<1>3. CASE SetLightFlips(t)
  <2>1. PICK p \in {"turnedOn", "turnedOff"} : Go(t, p)
    BY <1>3 DEF SetLightFlips
  <2>2. p \in ClientPlaces
    BY DEF ClientPlaces
  <2>3. PICK q \in {<<>>, <<"LightsOff">>} : Do(t, q)
    BY <1>3 DEF SetLightFlips
  <2>4. TypeOK'
    BY <1>3, <1>c, <1>h, SharedTypes DEF SetLightFlips
  <2> QED
    BY <1>3, <1>s, <1>t, <2>1, <2>2, <2>3, <2>4, OwnTypes DEF SetLightFlips
<1>4. CASE SetLightAsks(t)
  <2>1. PICK p \in {"offTest", "onTest"} : Go(t, p)
    BY <1>4 DEF SetLightAsks
  <2>2. p \in ClientPlaces
    BY DEF ClientPlaces
  <2>3. TypeOK'
    BY <1>4, <1>c, <1>h, SharedTypes DEF SetLightAsks
  <2> QED
    BY <1>4, <1>c, <1>t, <2>1, <2>2, <2>3, OwnTypes DEF SetLightAsks
<1>5. CASE SetLightTest(t)
  <2>1. PICK q \in {"offTest", "onTest"} :
          /\ lightOn' = (lightOn /\ LightWindow(readNow[t]))
          /\ Go(t, IF LightWindow(readNow[t]) THEN Answers[q].yes ELSE Answers[q].no)
          /\ readNow' = [readNow EXCEPT ![t] = 0]
          /\ UNCHANGED <<now, schedulerLocals, tm, pumpOn, feeding, lightOverride,
                         pumpToggleRunOff, history, hardwareVars, askedAt, script,
                         napUntil, asked>>
    BY <1>5 DEF SetLightTest
  <2>2. PICK p \in {"offOverride", "offFollow", "onFollow", "onOverride"} : Go(t, p)
    BY <2>1 DEF Answers
  <2>3. p \in ClientPlaces
    BY DEF ClientPlaces
  <2>4. TypeOK'
    BY <1>c, <1>h, <1>l, <2>1, SharedTypes
  <2> QED
    BY <1>t, <2>1, <2>2, <2>3, <2>4, OwnTypes
<1>6. CASE SetLightOverrides(t)
  <2>1. PICK p \in {"offOverride", "offFollow", "onOverride", "onFollow"} :
          /\ lightOverride' = (p \in {"offOverride", "onOverride"})
          /\ Do(t, IF p \in {"onOverride", "onFollow"} THEN <<"LightsOn">> ELSE <<>>)
          /\ Go(t, "idle")
          /\ UNCHANGED <<now, schedulerLocals, tm, lightOn, pumpOn, feeding,
                         pumpToggleRunOff, history, hardwareVars, readNow, askedAt,
                         napUntil, asked>>
    BY <1>6 DEF SetLightOverrides
  <2>2. PICK q \in {<<>>, <<"LightsOn">>} : Do(t, q)
    BY <2>1
  <2>3. TypeOK' /\ "idle" \in ClientPlaces
    BY <1>c, <1>h, <2>1, SharedTypes DEF ClientPlaces
  <2> QED
    BY <1>s, <1>t, <2>1, <2>2, <2>3, OwnTypes
<1>7. CASE DoPumpToggleRun(t)
  <2>1. TypeOK' /\ "runNow" \in ClientPlaces
    BY <1>7, UntouchedTypes DEF DoPumpToggleRun, ClientPlaces
  <2> QED
    BY <1>7, <1>r, <1>s, <1>t, <2>1, OwnTypes DEF DoPumpToggleRun
<1>8. CASE RunNow(t)
  <2>1. TypeOK' /\ "runUntil" \in ClientPlaces
    BY <1>8, UntouchedTypes DEF RunNow, ClientPlaces
  <2> QED
    BY <1>8, <1>c, <1>t, <2>1, OwnTypes DEF RunNow
<1>9. CASE RunUntil(t)
  <2>1. pumpToggleRunOff' \in Nat
    BY <1>9, <1>c, ClientsAssumption DEF RunUntil
  <2>2. TypeOK' /\ "runOn" \in ClientPlaces
    BY <1>9, <1>c, <1>h, <2>1, SharedTypes DEF RunUntil, ClientPlaces
  <2> QED
    BY <1>9, <1>t, <2>2, OwnTypes DEF RunUntil
<1>10. CASE RunOn(t)
  <2>1. TypeOK' /\ "idle" \in ClientPlaces
    BY <1>10, <1>c, <1>h, SharedTypes DEF RunOn, ClientPlaces
  <2> QED
    BY <1>10, <1>t, <2>1, OwnTypes DEF RunOn
<1>11. CASE StartNewGarden(t)
  <2>1. TypeOK'
    BY <1>11, UntouchedTypes DEF StartNewGarden
  <2> QED
    BY <1>11, <1>r, <1>t, <2>1, ScriptTypes, OwnTypes DEF StartNewGarden
<1>12. CASE PrimePump(t)
  <2>1. TypeOK'
    BY <1>12, UntouchedTypes DEF PrimePump
  <2> QED
    BY <1>12, <1>r, <1>t, <2>1, ScriptTypes, OwnTypes DEF PrimePump
<1> QED
  BY <1>1, <1>2, <1>3, <1>4, <1>5, <1>6, <1>7, <1>8, <1>9, <1>10, <1>11, <1>12
     DEF UiStep

LEMMA ScriptStepTypes ==
  ASSUME GardenTypeOK, NEW t \in Clients, ScriptStep(t), quiet' \in 0 .. Patience
  PROVE  GardenTypeOK'
<1> USE DEF flags, schedulerLocals, locals
<1>c. /\ TypeOK /\ HardwareTypeOK /\ now \in Nat /\ tm \in Nat
      /\ lightOn \in BOOLEAN /\ pumpOn \in BOOLEAN /\ lightOverride \in BOOLEAN
      /\ pumpToggleRunOff \in Nat \cup {Never} /\ StartSleep \in Nat /\ t \in Threads
      /\ script[t] \in Seq(Steps)
  BY ClientTypes DEF TypeOK
<1>s. script[t] # <<>> => Tail(script[t]) \in Seq(Steps)
  BY <1>c, HeadTailProperties
<1>1. CASE ScriptCall(t)
  <2>1. HardwareTypeOK'
    BY <1>1, <1>c, InvokeType DEF ScriptCall
  <2>2. TypeOK'
    BY <1>1, <1>c, <2>1, SharedTypes DEF ScriptCall
  <2> QED
    BY <1>1, <1>s, <2>2, OwnTypes DEF ScriptCall
<1>2. CASE ScriptNap(t)
  <2>1. PICK n \in Nat : napUntil' = [napUntil EXCEPT ![t] = n]
    <3>1. NapLength[Head(script[t])] \in Nat
      BY <1>2, <1>c DEF ScriptNap, NapLength
    <3>2. now + NapLength[Head(script[t])] \in Nat
      BY <1>c, <3>1
    <3> QED
      BY <1>2, <3>2 DEF ScriptNap
  <2>2. TypeOK'
    BY <1>2, UntouchedTypes DEF ScriptNap
  <2> QED
    BY <1>2, <1>s, <2>1, <2>2, OwnTypes DEF ScriptNap
<1>3. CASE ScriptWake(t)
  <2>1. TypeOK'
    BY <1>3, UntouchedTypes DEF ScriptWake
  <2> QED
    BY <1>3, <1>s, <2>1, OwnTypes DEF ScriptWake
<1>4. CASE ClientHardware(t)
  <2>1. HardwareTypeOK'
    BY <1>4, <1>c, HardwareStepType DEF ClientHardware
  <2>2. TypeOK'
    BY <1>4, <1>c, <2>1, BufferTypes, SharedTypes DEF ClientHardware
  <2> QED
    BY <1>4, <2>2, OwnTypes DEF ClientHardware, clientVars
<1> QED
  BY <1>1, <1>2, <1>3, <1>4 DEF ScriptStep

(* The scheduler's share of a manual run.                                  *)
LEMMA ManualTypes ==
  ASSUME TypeOK, ManualStep
  PROVE  TypeOK' /\ UNCHANGED clientVars
<1> USE DEF TypeOK, Places, ManualPlaces, Never, locals, flags, history
<1>h. ASSUME UNCHANGED hardwareVars PROVE HardwareTypeOK'
  BY <1>h DEF HardwareTypeOK, hardwareVars
<1>1. CASE ManualRun
  BY <1>1, <1>h DEF ManualRun
<1>2. CASE ManualTest
  BY <1>2, <1>h DEF ManualTest
<1>3. CASE ManualOff
  BY <1>3, <1>h DEF ManualOff
<1>4. CASE ManualClear
  BY <1>4, <1>h DEF ManualClear
<1>5. CASE ToggleSeen
  BY <1>5, <1>h DEF ToggleSeen
<1>6. CASE ToggleTest
  BY <1>6, <1>h DEF ToggleTest
<1>7. CASE ToggleOff
  BY <1>7, <1>h DEF ToggleOff
<1>8. CASE ToggleEnds
  <2>1. HardwareTypeOK'
    <3>1. Invoke(SchedulerThread, "PumpsOff") /\ "PumpsOff" \in Operations
      BY <1>8 DEF ToggleEnds, Operations, Relays
    <3> QED
      BY <3>1, InvokeType, SettingsAssumption
  <2> QED
    BY <1>8, <2>1 DEF ToggleEnds
<1> QED
  BY <1>1, <1>2, <1>3, <1>4, <1>5, <1>6, <1>7, <1>8 DEF ManualStep

(* A step of the scheduler or the clock leaves the clients alone.          *)
LEMMA AloneTypes ==
  ASSUME GardenTypeOK, TypeOK', UNCHANGED clientVars, quiet' \in 0 .. Patience
  PROVE  GardenTypeOK'
BY DEF GardenTypeOK, clientVars

LEMMA GardenTypeStep == GardenTypeOK /\ [GardenNext]_gardenVars => GardenTypeOK'
<1> SUFFICES ASSUME GardenTypeOK, [GardenNext]_gardenVars PROVE GardenTypeOK'
  OBVIOUS
<1>c. TypeOK /\ quiet \in 0 .. Patience /\ Patience \in Nat
  BY ClientTypes, PatienceIsNat
<1>1. CASE LoopStep /\ UNCHANGED quiet
  BY <1>1, <1>c, TypeStep, AloneTypes DEF LoopStep, Next
<1>2. CASE ManualStep /\ UNCHANGED quiet
  BY <1>2, <1>c, ManualTypes, AloneTypes
<1>3. CASE TimePasses
  <2>1. quiet' \in 0 .. Patience
    BY <1>3, <1>c DEF TimePasses
  <2> QED
    BY <1>3, <1>c, <2>1, TypeStep, AloneTypes DEF TimePasses, Next
<1>4. CASE TimeIsUp /\ UNCHANGED <<clientVars, quiet>>
  BY <1>4, <1>c, TypeStep, AloneTypes DEF Next
<1>5. CASE GardenCrash
  <2>1. TypeOK'
    BY <1>5, <1>c, TypeStep DEF GardenCrash, Next
  <2>2. quiet' \in 0 .. Patience
    BY <1>5, <1>c DEF GardenCrash
  <2> QED
    BY <1>5, <2>1, <2>2, EmptySeq DEF GardenTypeOK, GardenCrash, ClientPlaces
<1>6. CASE ClientStep
  <2>1. quiet' \in 0 .. Patience
    BY <1>6, <1>c DEF ClientStep
  <2> QED
    BY <1>6, <2>1, WebTypes, UiTypes, ScriptStepTypes DEF ClientStep
<1>7. CASE UNCHANGED gardenVars
  BY <1>7, <1>c, TypeStep, AloneTypes DEF gardenVars
<1> QED
  BY <1>1, <1>2, <1>3, <1>4, <1>5, <1>6, <1>7 DEF GardenNext, SchedulerRuns

(* Scheduler.cpp, Info.cpp and UI.cpp: whatever the threads do to the      *)
(* scheduler's flags and pins, every variable keeps its type.              *)
THEOREM GardenTypeCorrect == GardenSpec => []GardenTypeOK
BY GardenTypeInit, GardenTypeStep, PTL DEF GardenSpec

-----------------------------------------------------------------------------
(* Who runs the feeder.  A script's rest stops what the script started.    *)
LEMMA RestOfScript ==
  ASSUME NEW s \in Seq(Steps), s # <<>>, StopsWhatItStarts(s)
  PROVE  /\ StopsWhatItStarts(Tail(s))
         /\ Head(s) = "FeedOn" => WillStop(Tail(s))
         /\ WillStop(s) => Head(s) = "FeedOff" \/ WillStop(Tail(s))
<1>1. /\ Tail(s) \in Seq(Steps) /\ Len(s) \in Nat \ {0} /\ Len(Tail(s)) = Len(s) - 1
      /\ \A i \in 1 .. Len(Tail(s)) : Tail(s)[i] = s[i + 1]
      /\ DOMAIN s = 1 .. Len(s) /\ Head(s) = s[1]
  BY HeadTailProperties, EmptySeq, LenProperties
<1>2. DOMAIN Tail(s) = 1 .. Len(s) - 1
  BY <1>1, LenProperties
<1>3. \A j \in 1 .. Len(s) : 1 < j => j - 1 \in 1 .. Len(s) - 1 /\ Tail(s)[j - 1] = s[j]
  BY <1>1
<1>4. ASSUME NEW i \in DOMAIN Tail(s), Tail(s)[i] = "FeedOn"
      PROVE  \E j \in DOMAIN Tail(s) : i < j /\ Tail(s)[j] = "FeedOff"
  <2>1. i + 1 \in DOMAIN s /\ s[i + 1] = "FeedOn" /\ i \in Nat
    BY <1>1, <1>2, <1>4
  <2>2. PICK j \in DOMAIN s : i + 1 < j /\ s[j] = "FeedOff"
    BY <2>1 DEF StopsWhatItStarts
  <2>3. j \in Nat /\ i < j - 1 /\ 1 < j
    BY <1>1, <1>2, <2>1, <2>2
  <2>4. j - 1 \in DOMAIN Tail(s) /\ Tail(s)[j - 1] = "FeedOff"
    BY <1>1, <1>2, <1>3, <2>2, <2>3
  <2> QED
    BY <2>3, <2>4
<1>5. ASSUME Head(s) = "FeedOn" PROVE WillStop(Tail(s))
  <2>1. PICK j \in DOMAIN s : 1 < j /\ s[j] = "FeedOff"
    BY <1>1, <1>5 DEF StopsWhatItStarts
  <2> QED
    BY <1>1, <1>2, <1>3, <2>1 DEF WillStop
<1>6. ASSUME WillStop(s), Head(s) # "FeedOff" PROVE WillStop(Tail(s))
  <2>1. PICK j \in DOMAIN s : s[j] = "FeedOff"
    BY <1>6 DEF WillStop
  <2>2. 1 < j
    BY <1>1, <1>6, <2>1
  <2> QED
    BY <1>1, <1>2, <1>3, <2>1, <2>2 DEF WillStop
<1> QED
  BY <1>4, <1>5, <1>6 DEF StopsWhatItStarts

LEMMA ScriptsStop ==
  /\ StopsWhatItStarts(<<>>) /\ ~WillStop(<<>>)
  /\ \A a, b \in Steps \ {"FeedOn"} :
        StopsWhatItStarts(<<a>>) /\ StopsWhatItStarts(<<a, b>>)
  /\ StopsWhatItStarts(<<"PumpsOn", "FeedOn", "start", "awake", "FeedOff", "PumpsOff">>)
  /\ StopsWhatItStarts(<<"FeedOn", "nap", "awake", "FeedOff">>)
<1>1. StopsWhatItStarts(<<>>) /\ ~WillStop(<<>>)
  BY DEF StopsWhatItStarts, WillStop
<1>2. ASSUME NEW a \in Steps \ {"FeedOn"}, NEW b \in Steps \ {"FeedOn"}
      PROVE  StopsWhatItStarts(<<a>>) /\ StopsWhatItStarts(<<a, b>>)
  BY <1>2 DEF StopsWhatItStarts
<1>3. StopsWhatItStarts(<<"PumpsOn", "FeedOn", "start", "awake", "FeedOff", "PumpsOff">>)
  <2> DEFINE s == <<"PumpsOn", "FeedOn", "start", "awake", "FeedOff", "PumpsOff">>
  <2>1. /\ DOMAIN s = 1 .. 6 /\ s[5] = "FeedOff"
        /\ \A i \in 1 .. 6 : s[i] = "FeedOn" => i = 2
    OBVIOUS
  <2> HIDE DEF s
  <2> QED
    BY <2>1 DEF StopsWhatItStarts, s
<1>4. StopsWhatItStarts(<<"FeedOn", "nap", "awake", "FeedOff">>)
  <2> DEFINE s == <<"FeedOn", "nap", "awake", "FeedOff">>
  <2>1. /\ DOMAIN s = 1 .. 4 /\ s[4] = "FeedOff"
        /\ \A i \in 1 .. 4 : s[i] = "FeedOn" => i = 1
    OBVIOUS
  <2> HIDE DEF s
  <2> QED
    BY <2>1 DEF StopsWhatItStarts, s
<1> QED
  BY <1>1, <1>2, <1>3, <1>4

-----------------------------------------------------------------------------
(* What a call changes, whichever thread makes it.                         *)
LEMMA CallBegins ==
  ASSUME TypeOK, NEW t \in Threads, NEW op \in Operations, Invoke(t, op)
  PROVE  /\ ~Idle(t)' /\ call'[t].op = op /\ call'[t].stage = "test"
         /\ UNCHANGED <<init, pin>>
         /\ \A s \in Threads \ {t} : call'[s] = call[s]
<1>1. [op |-> op, stage |-> "test"] \in Calls
  BY DEF Calls
<1>2. call'[t] = [op |-> op, stage |-> "test"]
      /\ \A s \in Threads \ {t} : call'[s] = call[s]
  BY DEF Invoke, TypeOK, HardwareTypeOK
<1> QED
  BY <1>1, <1>2, SettingsAssumption DEF Invoke, Idle

LEMMA CallGoesOn ==
  ASSUME TypeOK, NEW t \in Threads, HardwareStep(t)
  PROVE  /\ ~Idle(t) /\ call[t].op \in Operations
         /\ \A s \in Threads \ {t} : call'[s] = call[s]
         /\ \/ /\ ~Idle(t)' /\ call'[t].op = call[t].op
               /\ \/ UNCHANGED <<init, pin>>
                     /\ call'[t].stage = IF init THEN "write" ELSE "turnOff"
                  \/ call'[t].stage = "ready" /\ init' = init /\ pin' = AllLow
                  \/ At(t, "ready") /\ init' = TRUE /\ pin' = pin
            \/ /\ At(t, "write") /\ Idle(t)' /\ init' = init
               /\ pin' = IF call[t].op \in Relays
                           THEN [pin EXCEPT ![Writes[call[t].op].to] =
                                               Writes[call[t].op].level]
                           ELSE pin
<1> DEFINE c == call[t]
<1>0. c = NoCall \/ c \in Calls
  BY DEF TypeOK, HardwareTypeOK
<1>g. ASSUME NEW st \in {"write", "turnOff", "ready"}, c \in Calls,
             call' = [call EXCEPT ![t].stage = st]
      PROVE  /\ ~Idle(t)' /\ call'[t].op = c.op /\ call'[t].stage = st
             /\ c.op \in Operations /\ \A s \in Threads \ {t} : call'[s] = call[s]
  <2>1. call'[t] = [c EXCEPT !.stage = st] /\ \A s \in Threads \ {t} : call'[s] = call[s]
    BY <1>g DEF TypeOK, HardwareTypeOK
  <2>2. /\ call'[t] \in Calls /\ call'[t].op = c.op /\ c.op \in Operations
        /\ call'[t].stage = st
    BY <1>g, <2>1 DEF Calls
  <2> QED
    BY <2>1, <2>2, SettingsAssumption DEF Idle
<1>1. CASE TestInit(t)
  <2>1. PICK st \in {"write", "turnOff"} :
          /\ call' = [call EXCEPT ![t].stage = st]
          /\ st = IF init THEN "write" ELSE "turnOff"
    BY <1>1 DEF TestInit
  <2>2. c \in Calls /\ ~Idle(t) /\ UNCHANGED <<init, pin>>
    BY <1>0, <1>1 DEF TestInit, At, Idle
  <2> QED
    BY <1>g, <2>1, <2>2
<1>2. CASE TurnEverythingOff(t)
  <2>1. c \in Calls /\ ~Idle(t)
    BY <1>0, <1>2 DEF TurnEverythingOff, At, Idle
  <2> QED
    BY <1>2, <1>g, <2>1 DEF TurnEverythingOff
<1>3. CASE Initialized(t)
  <2>1. c \in Calls /\ ~Idle(t)
    BY <1>0, <1>3 DEF Initialized, At, Idle
  <2> QED
    BY <1>3, <1>g, <2>1 DEF Initialized
<1>4. CASE WritePin(t)
  <2>1. call'[t] = NoCall /\ \A s \in Threads \ {t} : call'[s] = call[s]
    BY <1>4 DEF WritePin, TypeOK, HardwareTypeOK
  <2>2. c \in Calls /\ ~Idle(t)
    BY <1>0, <1>4 DEF WritePin, At, Idle
  <2>3. c.op \in Operations
    BY <2>2 DEF Calls
  <2> QED
    BY <1>4, <2>1, <2>2, <2>3 DEF WritePin, Idle
<1> QED
  BY <1>1, <1>2, <1>3, <1>4 DEF HardwareStep

-----------------------------------------------------------------------------
(* Nothing happens to the feeder, and who was in a dose still is.          *)
LEMMA OwnersStay ==
  ASSUME FeederHasOwner, UNCHANGED <<init, pin>>,
         \A t \in Owners : InDose(t) => InDose(t)'
  PROVE  FeederHasOwner'
BY DEF FeederHasOwner, High

LEMMA FeederOff ==
  ASSUME pin'["FEED"] = "LOW"
  PROVE  FeederHasOwner'
BY DEF FeederHasOwner, High

(* Steps outside scripts, dose and Hardware.                               *)
LEMMA FeederQuiet ==
  ASSUME FeederInv, GardenTypeOK', UNCHANGED <<init, pin, call, script>>,
         pc \in {"feeding", "feedSleep"} => pc' \in {"feeding", "feedSleep"},
         pc' = pc \/ Idle(SchedulerThread)
  PROVE  FeederInv'
<1>1. \A t \in Owners : InDose(t) => InDose(t)'
  BY DEF InDose, Idle
<1>2. FeederHasOwner'
  BY <1>1, OwnersStay DEF FeederInv
<1>3. Readiness'
  BY DEF FeederInv, Readiness, At, Idle
<1> QED
  BY <1>2, <1>3 DEF FeederInv, FeedCalls, Idle

(* A callback that has nothing left to do is given a script.               *)
LEMMA FeederScript ==
  ASSUME FeederInv, GardenTypeOK', NEW t \in Clients, NEW steps,
         script[t] = <<>>, Idle(t), Do(t, steps), StopsWhatItStarts(steps),
         UNCHANGED <<init, pin, call, pc>>
  PROVE  FeederInv'
<1>t. script \in [Clients -> Seq(Steps)] /\ t # SchedulerThread
  BY ClientTypes DEF FeederInv
<1>1. script'[t] = steps /\ \A s \in Clients \ {t} : script'[s] = script[s]
  BY <1>t DEF Do
<1>2. ASSUME NEW s \in Owners, InDose(s) PROVE InDose(s)'
  <2>1. CASE s = t
    BY <1>t, <1>2, <2>1, ScriptsStop DEF InDose, WillStop
  <2>2. CASE s # t
    BY <1>1, <1>2, <2>2 DEF InDose, Idle, Owners
  <2> QED
    BY <2>1, <2>2
<1>3. FeederHasOwner'
  BY <1>2, OwnersStay DEF FeederInv
<1>4. \A s \in Clients : StopsWhatItStarts(script[s])'
  BY <1>1 DEF FeederInv, StopsWhatItStarts
<1>5. \A s \in Clients : (~Idle(s) /\ call[s].op = "FeedOn" => WillStop(script[s]))'
  BY <1>1 DEF FeederInv, Idle, WillStop
<1>6. Readiness'
  BY DEF FeederInv, Readiness, At, Idle
<1> QED
  BY <1>3, <1>4, <1>5, <1>6 DEF FeederInv, FeedCalls, Idle

(* The loop calls a function of Hardware.                                  *)
LEMMA FeederLoopCall ==
  ASSUME FeederInv, GardenTypeOK', NEW op \in Operations, Invoke(SchedulerThread, op),
         script' = script, op = "FeedOn" => pc' = "feeding",
         pc \in {"feeding", "feedSleep"} => op = "FeedOff"
  PROVE  FeederInv'
<1>t. /\ TypeOK /\ Clients \subseteq Threads \ {SchedulerThread}
      /\ SchedulerThread \in Threads /\ Idle(SchedulerThread)
  BY ClientTypes, SettingsAssumption DEF FeederInv, Invoke
<1>1. /\ ~Idle(SchedulerThread)' /\ call'[SchedulerThread].op = op
      /\ call'[SchedulerThread].stage = "test" /\ UNCHANGED <<init, pin>>
      /\ \A s \in Clients : call'[s] = call[s]
  BY <1>t, CallBegins
<1>2. \A s \in Owners : InDose(s) => InDose(s)'
  BY <1>t, <1>1 DEF Owners, InDose, Idle
<1>3. FeederHasOwner'
  BY <1>1, <1>2, OwnersStay DEF FeederInv
<1>4. Readiness'
  BY <1>1 DEF FeederInv, Readiness, At, Idle, Owners
<1> QED
  BY <1>1, <1>3, <1>4 DEF FeederInv, FeedCalls, Idle

(* A callback goes on to the next line of its script.                      *)
LEMMA FeederNextLine ==
  ASSUME FeederInv, GardenTypeOK', NEW t \in Clients, script[t] # <<>>, Idle(t),
         Do(t, Tail(script[t])), UNCHANGED <<init, pin, pc>>,
         \A s \in Owners \ {t} : call'[s] = call[s],
         \/ Idle(t)' /\ Head(script[t]) # "FeedOff"
         \/ ~Idle(t)' /\ call'[t].op = Head(script[t]) /\ call'[t].stage = "test"
  PROVE  FeederInv'
<1>t. /\ script \in [Clients -> Seq(Steps)]
      /\ Clients \subseteq Threads \ {SchedulerThread}
  BY ClientTypes DEF FeederInv
<1>1. script'[t] = Tail(script[t]) /\ \A s \in Clients \ {t} : script'[s] = script[s]
  BY <1>t DEF Do
<1>2. /\ StopsWhatItStarts(Tail(script[t]))
      /\ Head(script[t]) = "FeedOn" => WillStop(Tail(script[t]))
      /\ WillStop(script[t]) => Head(script[t]) = "FeedOff" \/ WillStop(Tail(script[t]))
  <2>1. script[t] \in Seq(Steps) /\ StopsWhatItStarts(script[t])
    BY <1>t DEF FeederInv
  <2> QED
    BY <2>1, RestOfScript
<1>3. ASSUME NEW s \in Owners, InDose(s) PROVE InDose(s)'
  <2>1. CASE s = t
    <3>1. WillStop(script[t]) /\ t # SchedulerThread
      BY <1>t, <1>3, <2>1 DEF InDose, WillStop
    <3> QED
      BY <1>1, <1>2, <2>1, <3>1 DEF InDose, WillStop
  <2>2. CASE s # t
    BY <1>1, <1>3, <2>2 DEF InDose, Idle, Owners
  <2> QED
    BY <2>1, <2>2
<1>4. FeederHasOwner'
  BY <1>3, OwnersStay DEF FeederInv
<1>5. ASSUME NEW s \in Clients PROVE StopsWhatItStarts(script[s])'
  <2>1. CASE s = t
    <3>1. PICK rest : rest = Tail(script[t])
      OBVIOUS
    <3>2. StopsWhatItStarts(rest) /\ script'[s] = rest
      BY <1>1, <1>2, <2>1, <3>1
    <3> QED
      BY <3>2 DEF StopsWhatItStarts
  <2>2. CASE s # t
    BY <1>1, <2>2 DEF FeederInv, StopsWhatItStarts
  <2> QED
    BY <2>1, <2>2
<1>6. ASSUME NEW s \in Clients, ~Idle(s)', call'[s].op = "FeedOn"
      PROVE  WillStop(script[s])'
  <2>1. CASE s = t
    BY <1>1, <1>2, <1>6, <2>1 DEF WillStop
  <2>2. CASE s # t
    BY <1>1, <1>6, <2>2 DEF FeederInv, Idle, WillStop, Owners
  <2> QED
    BY <2>1, <2>2
<1>7. FeedCalls'
  BY <1>t DEF FeederInv, FeedCalls, Idle, Owners
<1>8. Readiness'
  BY DEF FeederInv, Readiness, At, Idle
<1> QED
  BY <1>4, <1>5, <1>6, <1>7, <1>8 DEF FeederInv

(* A step inside Hardware.                                                 *)
LEMMA FeederHardware ==
  ASSUME FeederInv, GardenTypeOK', NEW t \in Owners, HardwareStep(t),
         UNCHANGED <<pc, script>>
  PROVE  FeederInv'
<1>t. /\ TypeOK /\ TypeOK' /\ pin \in [Pins -> Levels] /\ t \in Threads /\ "FEED" \in Pins
      /\ Owners \subseteq Threads /\ SchedulerThread \in Owners /\ Clients \subseteq Owners
      /\ SchedulerThread \notin Clients
  BY ClientTypes, SettingsAssumption
     DEF FeederInv, Owners, GardenTypeOK, TypeOK, HardwareTypeOK, Pins
<1>1. /\ ~Idle(t) /\ call[t].op \in Operations
      /\ \A s \in Owners \ {t} : call'[s] = call[s]
      /\ ~Idle(t)' => call'[t].op = call[t].op
  BY <1>t, CallGoesOn
<1>2. FeedCalls'
      /\ \A s \in Clients : (~Idle(s) /\ call[s].op = "FeedOn" => WillStop(script[s]))'
  BY <1>t, <1>1 DEF FeederInv, FeedCalls, Idle, WillStop
<1>4. \/ /\ ~Idle(t)'
         /\ \/ UNCHANGED <<init, pin>>
               /\ call'[t].stage = IF init THEN "write" ELSE "turnOff"
            \/ call'[t].stage = "ready" /\ init' = init /\ pin' = AllLow
            \/ At(t, "ready") /\ init' = TRUE /\ pin' = pin
      \/ /\ At(t, "write") /\ Idle(t)' /\ init' = init
         /\ pin' = IF call[t].op \in Relays
                     THEN [pin EXCEPT ![Writes[call[t].op].to] =
                                         Writes[call[t].op].level]
                     ELSE pin
  BY <1>t, CallGoesOn
<1>b. init \in BOOLEAN
  BY <1>t DEF TypeOK, HardwareTypeOK
<1>3. FeederHasOwner'
  <2>1. CASE pin' = AllLow
    BY <1>t, <2>1, FeederOff DEF AllLow
  <2>4. CASE At(t, "ready") /\ ~init /\ pin' = pin
    <3>1. pin' = AllLow
      BY <2>4 DEF FeederInv, Readiness
    <3> QED
      BY <1>t, <3>1, FeederOff DEF AllLow
  <2>2. CASE UNCHANGED <<init, pin>> /\ ~Idle(t)'
    <3>1. \A s \in Owners : InDose(s) => InDose(s)'
      BY <1>1, <2>2 DEF InDose, Idle
    <3> QED
      BY <2>2, <3>1, OwnersStay DEF FeederInv
  <2>3. CASE /\ Idle(t)' /\ init' = init
             /\ pin' = IF call[t].op \in Relays
                         THEN [pin EXCEPT ![Writes[call[t].op].to] =
                                         Writes[call[t].op].level]
                         ELSE pin
    <3>1. CASE call[t].op = "FeedOff"
      BY <1>t, <2>3, <3>1, FeederOff DEF Relays, Writes
    <3>2. CASE call[t].op = "FeedOn"
      <4>1. CASE t = SchedulerThread
        <5>1. pc' = "feeding"
          BY <1>1, <3>2, <4>1 DEF FeederInv, FeedCalls
        <5> QED
          BY <4>1, <5>1 DEF FeederHasOwner, InDose
      <4>2. CASE t \in Clients
        <5>1. WillStop(script[t])
          BY <1>1, <3>2, <4>2 DEF FeederInv
        <5> QED
          BY <1>t, <4>2, <5>1 DEF FeederHasOwner, InDose, WillStop
      <4> QED
        BY <4>1, <4>2 DEF Owners
    <3>3. CASE call[t].op \notin {"FeedOn", "FeedOff"}
      <4>1. pin'["FEED"] = pin["FEED"]
        BY <1>t, <1>1, <2>3, <3>3 DEF Relays, Writes, Operations
      <4>2. \A s \in Owners : InDose(s) => InDose(s)'
        BY <1>1, <3>3 DEF InDose, Idle
      <4> QED
        BY <2>3, <4>1, <4>2 DEF FeederInv, FeederHasOwner, High
    <3> QED
      BY <3>1, <3>2, <3>3
  <2> QED
    BY <1>4, <1>b, <2>1, <2>2, <2>3, <2>4
<1>5. Readiness'
  <2>0. init \in BOOLEAN /\ \A s \in Owners \ {t} : At(s, "write") => init
    BY <1>t DEF FeederInv, Readiness, TypeOK, HardwareTypeOK
  <2>1. CASE ~Idle(t)' /\ UNCHANGED <<init, pin>>
             /\ call'[t].stage = IF init THEN "write" ELSE "turnOff"
    BY <1>1, <2>1 DEF FeederInv, Readiness, At, Idle
  <2>2. CASE call'[t].stage = "ready" /\ init' = init /\ pin' = AllLow
    BY <1>1, <2>0, <2>2 DEF Readiness, At, Idle
  <2>3. CASE init' = TRUE
    BY <2>3 DEF Readiness
  <2>4. CASE At(t, "write") /\ init' = init
    BY <2>3, <2>4 DEF FeederInv, Readiness
  <2> QED
    BY <1>4, <2>1, <2>2, <2>3, <2>4
<1> QED
  BY <1>2, <1>3, <1>5 DEF FeederInv

LEMMA FeederCrash ==
  ASSUME FeederInv, GardenTypeOK', GardenCrash
  PROVE  FeederInv'
<1>1. /\ init' = FALSE /\ call' = [t \in Threads |-> NoCall]
      /\ script' = [t \in Clients |-> <<>>] /\ Clients \subseteq Threads
  BY ClientsAssumption DEF GardenCrash, Crash, HardwareLost
<1>2. FeedCalls' /\ \A t \in Clients : Idle(t)'
  BY <1>1, SettingsAssumption DEF FeedCalls, Idle
<1>3. ASSUME NEW t \in Clients PROVE StopsWhatItStarts(script[t])'
  BY <1>1 DEF StopsWhatItStarts
<1>4. Readiness'
  BY <1>2, SettingsAssumption, <1>1 DEF Readiness, Owners, At, Idle
<1> QED
  BY <1>1, <1>2, <1>3, <1>4 DEF FeederInv, FeederHasOwner

LEMMA FeederLoop ==
  ASSUME FeederInv, GardenTypeOK', LoopStep
  PROVE  FeederInv'
<1> USE DEF Running, hardwareVars
<1>s. SchedulerStep /\ script' = script /\ SchedulerThread \in Owners
  BY DEF LoopStep, clientVars, Owners
<1>r. Relays \subseteq Operations
  BY DEF Operations
<1>1. CASE ReadClock
  BY <1>1, <1>s, FeederQuiet DEF ReadClock
<1>2. CASE LightStart
  BY <1>2, <1>s, FeederQuiet DEF LightStart
<1>3. CASE LightTest
  BY <1>3, <1>s, FeederQuiet DEF LightTest
<1>4. CASE LightStays
  BY <1>4, <1>s, FeederQuiet DEF LightStays
<1>5. CASE PumpStart
  BY <1>5, <1>s, FeederQuiet DEF PumpStart
<1>6. CASE PumpTest
  BY <1>6, <1>s, FeederQuiet DEF PumpTest
<1>7. CASE ToggleGoesOn
  BY <1>7, <1>s, FeederQuiet DEF ToggleGoesOn
<1>8. CASE PumpStays
  BY <1>8, <1>s, FeederQuiet DEF PumpStays
<1>9. CASE FeedStart
  BY <1>9, <1>s, FeederQuiet DEF FeedStart
<1>10. CASE FeedTest
  BY <1>10, <1>s, FeederQuiet DEF FeedTest
<1>11. CASE FeedRuns
  BY <1>11, <1>s, FeederQuiet DEF FeedRuns
<1>12. CASE Rest
  BY <1>12, <1>s, FeederQuiet DEF Rest
<1>13. CASE Wake
  BY <1>13, <1>s, FeederQuiet DEF Wake
<1>14. CASE LightSwitches
  <2>1. PICK op \in {"LightsOn", "LightsOff"} : Invoke(SchedulerThread, op)
    BY <1>14 DEF LightSwitches
  <2>2. op \in Operations
    BY <1>r DEF Relays
  <2> QED
    BY <1>14, <1>s, <2>1, <2>2, FeederLoopCall DEF LightSwitches
<1>15. CASE PumpSwitches
  <2>1. PICK op \in {"PumpsOn", "PumpsOff"} : Invoke(SchedulerThread, op)
    BY <1>15 DEF PumpSwitches
  <2>2. op \in Operations
    BY <1>r DEF Relays
  <2> QED
    BY <1>15, <1>s, <2>1, <2>2, FeederLoopCall DEF PumpSwitches
<1>16. CASE Feed
  <2>1. PICK op \in {"FeedOn"} : Invoke(SchedulerThread, op)
    BY <1>16 DEF Feed
  <2>2. op \in Operations
    BY <1>r DEF Relays
  <2> QED
    BY <1>16, <1>s, <2>1, <2>2, FeederLoopCall DEF Feed
<1>17. CASE FeedEnds
  <2>1. PICK op \in {"FeedOff"} : Invoke(SchedulerThread, op)
    BY <1>17 DEF FeedEnds
  <2>2. op \in Operations
    BY <1>r DEF Relays
  <2> QED
    BY <1>17, <1>s, <2>1, <2>2, FeederLoopCall DEF FeedEnds
<1>18. CASE SchedulerHardware
  BY <1>18, <1>s, FeederHardware DEF SchedulerHardware
<1>19. CASE LightDiffers \/ LightGoesAhead \/ LightSet
  BY <1>19, <1>s, FeederQuiet DEF LightDiffers, LightGoesAhead, LightSet
<1>20. CASE NoManualRun \/ PumpHour
  BY <1>20, <1>s, FeederQuiet DEF NoManualRun, PumpHour
<1>21. CASE PumpDiffers \/ PumpGoesAhead \/ PumpSet
  BY <1>21, <1>s, FeederQuiet DEF PumpDiffers, PumpGoesAhead, PumpSet
<1> QED
  BY <1>1, <1>2, <1>3, <1>4, <1>5, <1>6, <1>7, <1>8, <1>9, <1>10, <1>11, <1>12,
     <1>13, <1>14, <1>15, <1>16, <1>17, <1>18, <1>19, <1>20, <1>21, <1>s
     DEF SchedulerStep

LEMMA FeederManual ==
  ASSUME FeederInv, GardenTypeOK', ManualStep, UNCHANGED clientVars
  PROVE  FeederInv'
<1> USE DEF Running, hardwareVars, clientVars
<1>1. CASE ManualRun \/ ManualTest
  BY <1>1, FeederQuiet DEF ManualRun, ManualTest
<1>2. CASE ManualOff \/ ManualClear
  BY <1>2, FeederQuiet DEF ManualOff, ManualClear
<1>3. CASE ToggleSeen \/ ToggleTest \/ ToggleOff
  BY <1>3, FeederQuiet DEF ToggleSeen, ToggleTest, ToggleOff
<1>4. CASE ToggleEnds
  <2>1. Invoke(SchedulerThread, "PumpsOff") /\ "PumpsOff" \in Operations
    BY <1>4 DEF ToggleEnds, Operations, Relays
  <2> QED
    BY <1>4, <2>1, FeederLoopCall DEF ToggleEnds
<1> QED
  BY <1>1, <1>2, <1>3, <1>4 DEF ManualStep

LEMMA FeederWeb ==
  ASSUME FeederInv, GardenTypeOK', NEW t \in WebThreads, WebStep(t)
  PROVE  FeederInv'
<1> USE DEF hardwareVars, schedulerLocals
<1>t. t \in Clients
  BY DEF Clients
<1>s. /\ StopsWhatItStarts(<<>>) /\ StopsWhatItStarts(<<"Sense">>)
      /\ StopsWhatItStarts(<<"Sense", "Sense">>)
  BY ScriptsStop DEF Steps, Operations
<1>1. CASE InfoIsLightOnTest(t)
  BY <1>s, <1>t, <1>1, FeederScript DEF InfoIsLightOnTest, Free
<1>2. CASE GetInfo(t)
  BY <1>2, FeederQuiet DEF GetInfo
<1>3. CASE AnnounceTimes(t)
  BY <1>3, FeederQuiet DEF AnnounceTimes
<1>4. CASE InfoIsPumpOn(t) \/ InfoPumpManual(t) \/ InfoManualTest(t)
  BY <1>4, FeederQuiet DEF InfoIsPumpOn, InfoPumpManual, InfoManualTest, vars
<1>5. CASE InfoManualOff(t) \/ InfoManualClear(t) \/ InfoPumpHour(t)
  BY <1>5, FeederQuiet DEF InfoManualOff, InfoManualClear, InfoPumpHour
<1>6. CASE InfoIsLightOn(t)
  BY <1>6, FeederQuiet DEF InfoIsLightOn
<1>7. CASE GetSettings(t)
  BY <1>7, FeederQuiet DEF GetSettings, vars
<1>8. CASE SettingsLevels(t)
  BY <1>8, <1>s, <1>t, FeederScript DEF SettingsLevels, Free, vars
<1> QED
  BY <1>1, <1>2, <1>3, <1>4, <1>5, <1>6, <1>7, <1>8 DEF WebStep

LEMMA FeederUi ==
  ASSUME FeederInv, GardenTypeOK', NEW t \in UiThreads, UiStep(t)
  PROVE  FeederInv'
<1> USE DEF hardwareVars, schedulerLocals
<1>t. t \in Clients
  BY DEF Clients
<1>s. /\ StopsWhatItStarts(<<>>)
      /\ StopsWhatItStarts(<<"Sense", "Sense">>)
      /\ StopsWhatItStarts(<<"LightsOff">>) /\ StopsWhatItStarts(<<"LightsOn">>)
      /\ StopsWhatItStarts(<<"PumpsOn">>)
  <2>1. {"Sense", "LightsOn", "LightsOff", "PumpsOn"} \subseteq Steps \ {"FeedOn"}
    BY DEF Steps, Operations, Relays
  <2> QED
    BY <2>1, ScriptsStop
<1>1. CASE UpdateUI(t)
  BY <1>1, <1>t, <1>s, FeederScript DEF UpdateUI, Free
<1>2. CASE SetLight(t)
  BY <1>2, FeederQuiet DEF SetLight, vars
<1>3. CASE SetLightFlips(t)
  BY <1>3, <1>t, <1>s, FeederScript DEF SetLightFlips, Free
<1>4. CASE SetLightAsks(t) \/ SetLightTest(t)
  BY <1>4, FeederQuiet DEF SetLightAsks, SetLightTest
<1>5. CASE SetLightOverrides(t)
  BY <1>5, <1>t, <1>s, FeederScript DEF SetLightOverrides, Free
<1>6. CASE DoPumpToggleRun(t)
  BY <1>6, <1>t, <1>s, FeederScript DEF DoPumpToggleRun, Free, vars
<1>7. CASE RunNow(t)
  BY <1>7, FeederQuiet DEF RunNow, vars
<1>8. CASE RunUntil(t) \/ RunOn(t)
  BY <1>8, FeederQuiet DEF RunUntil, RunOn
<1>9. CASE StartNewGarden(t)
  BY <1>9, <1>t, ScriptsStop, FeederScript DEF StartNewGarden, Free, vars
<1>10. CASE PrimePump(t)
  BY <1>10, <1>t, ScriptsStop, FeederScript DEF PrimePump, Free, vars
<1> QED
  BY <1>1, <1>2, <1>3, <1>4, <1>5, <1>6, <1>7, <1>8, <1>9, <1>10 DEF UiStep

LEMMA FeederScriptStep ==
  ASSUME FeederInv, GardenTypeOK', NEW t \in Clients, ScriptStep(t)
  PROVE  FeederInv'
<1> USE DEF hardwareVars, schedulerLocals
<1>t. t \in Owners /\ Owners \subseteq Threads /\ TypeOK
  BY ClientTypes, SettingsAssumption DEF FeederInv, Owners
<1>1. CASE ScriptCall(t)
  <2>1. Invoke(t, Head(script[t])) /\ Head(script[t]) \in Operations /\ Idle(t)
    BY <1>1 DEF ScriptCall, Invoke
  <2>2. /\ ~Idle(t)' /\ call'[t].op = Head(script[t]) /\ call'[t].stage = "test"
        /\ UNCHANGED <<init, pin>>
        /\ \A s \in Owners \ {t} : call'[s] = call[s]
    BY <1>t, <2>1, CallBegins
  <2> QED
    BY <1>1, <2>1, <2>2, FeederNextLine DEF ScriptCall
<1>2. CASE ScriptNap(t) \/ ScriptWake(t)
  <2>1. /\ script[t] # <<>> /\ Head(script[t]) # "FeedOff" /\ Idle(t)
        /\ Do(t, Tail(script[t])) /\ UNCHANGED <<init, pin, pc, call>>
    BY <1>2 DEF ScriptNap, ScriptWake, vars
  <2>2. Idle(t)' /\ \A s \in Owners \ {t} : call'[s] = call[s]
    BY <2>1 DEF Idle
  <2> QED
    BY <2>1, <2>2, FeederNextLine
<1>3. CASE ClientHardware(t)
  BY <1>3, <1>t, FeederHardware DEF ClientHardware, clientVars
<1> QED
  BY <1>1, <1>2, <1>3 DEF ScriptStep

LEMMA FeederStep == FeederInv /\ [GardenNext]_gardenVars => FeederInv'
<1> SUFFICES ASSUME FeederInv, [GardenNext]_gardenVars PROVE FeederInv'
  OBVIOUS
<1>t. GardenTypeOK'
  BY GardenTypeStep DEF FeederInv
<1>1. CASE LoopStep
  BY <1>1, <1>t, FeederLoop
<1>2. CASE ManualStep
  BY <1>2, <1>t, FeederManual, ManualTypes DEF FeederInv, GardenTypeOK
<1>3. CASE TimePasses \/ (TimeIsUp /\ UNCHANGED clientVars)
  BY <1>3, <1>t, FeederQuiet
     DEF TimePasses, Tick, TimeIsUp, vars, hardwareVars, clientVars
<1>4. CASE GardenCrash
  BY <1>4, <1>t, FeederCrash
<1>5. CASE ClientStep
  BY <1>5, <1>t, FeederWeb, FeederUi, FeederScriptStep DEF ClientStep
<1>6. CASE UNCHANGED gardenVars
  BY <1>6, <1>t, FeederQuiet DEF gardenVars, vars, hardwareVars, clientVars
<1> QED
  BY <1>1, <1>2, <1>3, <1>4, <1>5, <1>6 DEF GardenNext, SchedulerRuns

LEMMA FeederInit == GardenInit => FeederInv
<1> SUFFICES ASSUME GardenInit PROVE FeederInv
  OBVIOUS
<1>1. /\ init = FALSE /\ \A t \in Clients \cup {SchedulerThread} : Idle(t)
  BY SettingsAssumption, ClientsAssumption DEF GardenInit, Init, HardwareInit, Idle
<1>2. ASSUME NEW t \in Clients PROVE StopsWhatItStarts(script[t])
  BY DEF GardenInit, StopsWhatItStarts
<1>3. Readiness
  BY <1>1 DEF Readiness, Owners, At
<1> QED
  BY <1>1, <1>2, <1>3, GardenTypeInit DEF FeederInv, FeedCalls, FeederHasOwner

(* Scheduler.cpp, doFeeding, and UI.cpp, feed_start_cb and prime_cb: three *)
(* owners and an initialisation that any thread may be in share one relay, *)
(* and whenever it is up somebody is there who will let it down.           *)
THEOREM FeederNeverAlone == GardenSpec => []FeederIsOwned
<1>1. FeederInv => FeederIsOwned
  BY ClientTypes, SettingsAssumption
     DEF FeederInv, FeederHasOwner, FeederIsOwned, Owners
<1> QED
  BY <1>1, FeederInit, FeederStep, PTL DEF GardenSpec
=============================================================================
