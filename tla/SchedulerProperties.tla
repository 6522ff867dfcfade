------------------------ MODULE SchedulerProperties -------------------------
(***************************************************************************)
(* What the scheduler owes its garden, stated over Scheduler.              *)
(***************************************************************************)
EXTENDS Scheduler

High(p) == pin[p] = "HIGH"
FedToday == fedAt # Never /\ Midnight(fedAt) = Midnight(now)
SinceMidnight == now - Midnight(now)
SinceHour == now - HourStart(now)
DoseStarts == ~High("FEED") /\ pin'["FEED"] = "HIGH"

-----------------------------------------------------------------------------
(* doFeeding leaves no mark that today's dose was given: only the length   *)
(* of its sleeps, against feedingTime's window, keeps the loop from coming *)
(* back while the window is open.  The process that gave a dose never      *)
(* starts another one on the same day, however late its steps are.         *)
AtMostOneDosePerDay == [][DoseStarts => ~(fedByMe /\ FedToday)]_vars

(* Outside Hardware calls the flags the rest of the program reads tell the *)
(* truth: pumpOn is the level of the pump relay, a light that counts as on *)
(* is lit, and the feeder runs only while doFeeding sleeps.  The one gap   *)
(* is between a flag's write and the call that makes it true.  (That the   *)
(* light may be lit although it does not count as on is LightGoesOff's.)   *)
RelaysFollowFlags ==
    Idle(SchedulerThread) /\ init =>
        /\ pc # "pumpCall" => pumpOn = High("PUMP")
        /\ pc # "lightCall" /\ lightOn => High("LIGHT")
        /\ High("FEED") => pc \in {"feeding", "feedSleep"}

(* Seen from the feeder, the scheduler is a DailyFeeder: the relay, the    *)
(* clock and what the living process knows of its doses implement it.  So  *)
(* a dose starts from off, at most once a day and process, and runs for    *)
(* its full length unless the process dies.                                *)
Doser == INSTANCE DailyFeeder WITH
           DoseLength <- FeedSleep,
           clock      <- now,
           on         <- High("FEED"),
           dosedAt    <- IF fedByMe THEN fedAt ELSE Never

DosesDaily == Doser!FeederSpec

-----------------------------------------------------------------------------
(* Why they hold: the inductive invariants behind the three properties.    *)

(* Only the call at "feeding" raises the feeder.                           *)
FeedCalls ==
    ~Idle(SchedulerThread) /\ call[SchedulerThread].op = "FeedOn" => pc = "feeding"

(* How far the loop is past the dose it gave: a dose is over FeedSleep     *)
(* seconds after it started and the next look at the clock comes at least  *)
(* one second later, which is never inside the window of the same day.     *)
BeforeNextDose == pc = "feed" \/ (pc = "feeding" /\ ~Idle(SchedulerThread))

DoseTiming ==
    /\ pc = "feedTest" =>
         Idle(SchedulerThread) /\ tm = Midnight(readAt) /\ readAt <= now
    /\ fedByMe =>
        /\ fedAt \in Nat /\ fedAt <= now
        /\ BeforeNextDose => Midnight(fedAt) < Midnight(now)
        /\ pc = "feedSleep" => fedAt + FeedSleep <= wakeAt
        /\ pc = "rest" => fedAt + FeedSleep <= now
        /\ pc = "sleep" => fedAt + FeedSleep + 1 <= wakeAt
        /\ pc = "feedTest" => fedAt + FeedSleep + 1 <= readAt
        /\ pc \notin {"feed", "feeding", "feedSleep", "rest", "sleep"}
             => fedAt + FeedSleep + 1 <= now

DoseInv == TypeOK /\ FeedCalls /\ DoseTiming

(* A process that gave a dose has initialised the hardware.                *)
DoseInits == fedByMe => init

(* A call to FeedOn finds the feeder off once the hardware is initialised. *)
FeederWasOff ==
    /\ ~Idle(SchedulerThread) /\ call[SchedulerThread].op = "FeedOn"
    /\ init
    => ~High("FEED")

(* While a call is under way, only the relay it is for may disagree with   *)
(* the flags, and they already say what the call will do.                  *)
Agrees(p) ==
    CASE p = "PUMP"  -> pc # "pumpCall" => pumpOn = (init /\ High("PUMP"))
      [] p = "LIGHT" -> pc # "lightCall" /\ lightOn => init /\ High("LIGHT")
      [] p = "FEED"  -> /\ pc \in {"feeding", "feedSleep"} => init
                        /\ init /\ High("FEED") => pc \in {"feeding", "feedSleep"}

Announced(op) ==
    CASE op = "PumpsOn"   -> pumpOn      [] op = "PumpsOff"  -> ~pumpOn
      [] op = "LightsOn"  -> lightOn     [] op = "LightsOff" -> ~lightOn
      [] op = "FeedOn"    -> pc = "feeding"
      [] op = "FeedOff"   -> pc = "rest"

FlagsInv ==
    /\ TypeOK
    /\ pumpToggleRunOff = Never
    /\ Idle(SchedulerThread) => \A p \in Pins : Agrees(p)
    /\ ~Idle(SchedulerThread) =>
        /\ call[SchedulerThread].op \in Relays
        /\ \A p \in Pins \ {Writes[call[SchedulerThread].op].to} : Agrees(p)
        /\ Announced(call[SchedulerThread].op)
        /\ call[SchedulerThread].stage \in {"turnOff", "ready"} => ~init
        /\ call[SchedulerThread].stage = "ready" => pin = AllLow
        /\ call[SchedulerThread].stage = "write" => init

-----------------------------------------------------------------------------
(* Deadlines.  An iteration begins within MaxLag of its wake-up and ends   *)
(* within MaxLag of it, then sleeps one second and may be late again, so   *)
(* that something that falls due is seen to at most LoopDelay later; in    *)
(* the first hour of the day doFeeding may hold the loop up on top.        *)
LoopDelay == 2 * MaxLag + 1
Delay ==
    LoopDelay
      + (IF HourStart(now) = Midnight(now) THEN FeedSleep + MaxLag ELSE 0)

(* The first hour of the day is long enough for the dose, however late the *)
(* machine is, and for the iteration that follows it.                      *)
DoseFitsTheHour == FeedWindow + FeedSleep + 3 * MaxLag < HourLen

(* Time `start' is `delay' or more ago, and this process was there.        *)
Due(start, delay) == bootedAt <= start /\ start + delay <= now

(* The pump follows the hour although the thread that switches it also     *)
(* sleeps through the daily dose: its relay is up from shortly after the   *)
(* hour until PumpRunTime is over and, once the hardware is initialised,   *)
(* down from shortly after that until the next hour.                       *)
PumpFollowsTheHour ==
    DoseFitsTheHour =>
        /\ Due(HourStart(now), Delay) /\ SinceHour < PumpRunTime => High("PUMP")
        /\ init /\ SinceHour >= PumpRunTime + Delay => ~High("PUMP")

(* The light is lit shortly after its starting time.                       *)
TodaysLight == TimeOfDay(now, LightStartHour, LightStartMin)

LightComesOn ==
    DoseFitsTheHour /\ Due(TodaysLight, Delay)
         /\ InWindow(now, TodaysLight, LightDuration * MinuteLen)
      => High("LIGHT")

(* A dose whose window is as long as the loop's delay is not skipped.       *)
DoseIsGiven ==
    DoseFitsTheHour /\ LoopDelay <= FeedWindow /\ Due(Midnight(now), LoopDelay)
      => FedToday

-----------------------------------------------------------------------------
(* What the settings, the labels and the comments promise, and the code    *)
(* does not keep.                                                          *)

(* "Duration in minutes grow light will be on" (WebServer.cpp:151): when   *)
(* the duration is over, the light goes off.                               *)
LightGoesOff ==
    LET over == TodaysLight + LightDuration * MinuteLen
    IN  init /\ over + Delay <= now => ~High("LIGHT")

(* "Turn everything off to be safe" (Hardware.cpp:26): a process that has  *)
(* been up for a while has turned off the pump a dead one left running.    *)
PumpOffAfterRestart ==
    bootedAt + Delay <= now /\ SinceHour >= PumpRunTime + Delay => ~High("PUMP")
=============================================================================
