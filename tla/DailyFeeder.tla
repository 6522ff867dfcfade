---------------------------- MODULE DailyFeeder -----------------------------
(***************************************************************************)
(* What the scheduler promises the feeder, whatever its threads, places    *)
(* and calls: a feeder that is either off or giving a dose, where the      *)
(* process that gives the doses                                            *)
(*   - starts one from off, and none on a day on which it started one;     *)
(*   - stops one no sooner than DoseLength after it started it;            *)
(*   - may die at any time.  Its successor finds the feeder as it was,     *)
(*     does not know of any dose, and may stop it at once.                 *)
(***************************************************************************)
EXTENDS GardenTime

CONSTANT DoseLength

VARIABLES clock,
          on,       \* the feeder runs
          dosedAt   \* when the living process started its last dose, or NoDose

feederVars == <<clock, on, dosedAt>>

NoDose == -1

FeederInit == clock \in Nat /\ on = FALSE /\ dosedAt = NoDose

StartDose ==
    /\ ~on
    /\ dosedAt # NoDose => Midnight(dosedAt) < Midnight(clock)
    /\ on' = TRUE
    /\ dosedAt' = clock
    /\ UNCHANGED clock

StopDose ==
    /\ on
    /\ dosedAt # NoDose => dosedAt + DoseLength <= clock
    /\ on' = FALSE
    /\ UNCHANGED <<clock, dosedAt>>

TimePasses ==
    /\ clock' \in Nat /\ clock' > clock
    /\ UNCHANGED <<on, dosedAt>>

Dies ==
    /\ dosedAt' = NoDose
    /\ UNCHANGED <<clock, on>>

FeederNext == StartDose \/ StopDose \/ TimePasses \/ Dies

FeederSpec == FeederInit /\ [][FeederNext]_feederVars
=============================================================================
