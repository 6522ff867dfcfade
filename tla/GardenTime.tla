----------------------------- MODULE GardenTime -----------------------------
(***************************************************************************)
(* The calendar arithmetic of Scheduler.cpp.  A time_t is a number of      *)
(* seconds and the program only ever goes through localtime, overwrites    *)
(* some of the hour, minute and second fields and goes back with mktime.   *)
(* The lengths of a minute, an hour and a day are constants, so that TLC   *)
(* can run several days of a small calendar; 60, 60 and 24 give the real   *)
(* one.  The clock never steps backwards and no day is shortened or        *)
(* lengthened by daylight saving.                                          *)
(***************************************************************************)
EXTENDS Integers

CONSTANTS
    MinuteLen,        \* seconds in a minute
    MinutesPerHour,
    HoursPerDay

ASSUME CalendarAssumption ==
    /\ MinuteLen \in Nat \ {0}
    /\ MinutesPerHour \in Nat \ {0}
    /\ HoursPerDay \in Nat \ {0}

HourLen == MinuteLen * MinutesPerHour
DayLen == HourLen * HoursPerDay

(* Mutation: the day begins with second -1 instead of second 0.            *)
EarlyMidnight(t) == t - (t % DayLen) - 1

(* localtime; some fields := 0; mktime.                                    *)
Midnight(t) == t - (t % DayLen)
HourStart(t) == t - (t % HourLen)
SecondOf(t) == t % MinuteLen
MinuteOf(t) == (t % HourLen) - SecondOf(t)     \* in seconds

(* localtime; tm_hour := h; tm_min := m; tm_sec := 0; mktime.              *)
TimeOfDay(t, h, m) == Midnight(t) + h * HourLen + m * MinuteLen

(* The half-open test every schedule of the scheduler ends with.           *)
InWindow(t, start, len) == start <= t /\ t < start + len

-----------------------------------------------------------------------------
(* The times the program announces.  The light ones leave tm_sec alone.    *)

NextAfter(t, now) == IF t < now THEN t + DayLen ELSE t

GetNextLightOn(now, h, m) ==
    NextAfter(TimeOfDay(now, h, m) + SecondOf(now), now)

GetNextLightOff(now, h, m, minutes) ==
    NextAfter(TimeOfDay(now, h, m) + SecondOf(now) + minutes * MinuteLen, now)

GetNextFeeding(now) == Midnight(now) + 1

GetNextPumpOn(now) == HourStart(now) + HourLen

GetNextPumpOff(now, seconds) == HourStart(now) + HourLen + seconds
=============================================================================
