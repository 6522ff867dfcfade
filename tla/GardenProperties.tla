-------------------------- MODULE GardenProperties --------------------------
(***************************************************************************)
(* What holds, and what the code promises without keeping it, when the     *)
(* scheduler shares its flags and pins with the other threads.             *)
(***************************************************************************)
EXTENDS Garden, SchedulerProperties

(* The feeder has three owners (the daily dose and two buttons) and any    *)
(* thread may be the one that initialises the hardware.  Once it is        *)
(* initialised, the feeder runs only while one of its owners sleeps        *)
(* through a dose or is on its way into or out of one.                     *)
InDose(t) ==
    \/ t = SchedulerThread /\ pc \in {"feeding", "feedSleep"}
    \/ t # SchedulerThread /\ \E i \in DOMAIN script[t] : script[t][i] = "FeedOff"
    \/ ~Idle(t) /\ call[t].op \in {"FeedOn", "FeedOff"}

FeederIsOwned == init /\ High("FEED") => \E t \in Threads : InDose(t)

(* A manual run comes to an end: whatever the screen and the scheduler do  *)
(* at the same time, a pumpToggleRunOff is cleared or replaced once it has *)
(* passed, unless the modelled time runs out first.                        *)
InTime(end) ==
    \A t \in {now, end} : t + LoopDelay + FeedSleep + MaxLag + 1 <= MaxTime

ManualRunEnds ==
    pumpToggleRunOff # Never /\ InTime(pumpToggleRunOff)
      ~> pumpToggleRunOff = Never

(* A request that comes while the hardware is being initialised may turn   *)
(* off a pump the scheduler has just turned on, and one between localtime  *)
(* and mktime may make any second look like the start of an hour or a day. *)
(* Neither lasts: Patience after the pump's time in the hour is over the   *)
(* flag and the relay are both off, unless somebody has overwritten what   *)
(* the scheduler read within the last Patience seconds, or has run the     *)
(* pump from the screen.                                                   *)
PumpHeals ==
    init /\ SinceHour >= PumpRunTime + Patience /\ quiet = Patience
         /\ asked \cap {"pump", "start"} = {}
      => ~pumpOn /\ ~High("PUMP")

-----------------------------------------------------------------------------
(* Promises the code does not keep.                                        *)

(* "Pump run time per hour" (UI.cpp:514): beyond its time in the hour the  *)
(* pump is not left running by a manual run that is over, so that nobody   *)
(* but the relay knows of it.                                              *)
PumpStops ==
    init /\ SinceHour >= PumpRunTime /\ ~pumpOn /\ Running("sleep")
         /\ (\A t \in Clients : Free(t, "idle")) => ~High("PUMP")
=============================================================================
