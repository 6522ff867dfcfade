------------------------------ MODULE Hardware ------------------------------
(***************************************************************************)
(* Hardware.cpp: three relay pins behind static functions that initialise  *)
(* the GPIO library on first use.  Nothing guards the `init' flag, so its  *)
(* test, the writes that turn everything off, the one that sets it and the *)
(* one the caller came for are separate steps of the calling thread.  Only *)
(* the three writes that turn the relays off are one step: each goes to a  *)
(* pin of its own.  `call' holds the stage of the call each thread is in.  *)
(***************************************************************************)
CONSTANTS Threads,  \* the threads that call into Hardware
          NoCall    \* a thread that is not inside Hardware

VARIABLES init,     \* Hardware::init
          pin,      \* output level of each relay pin
          call      \* what each thread is doing inside Hardware

hardwareVars == <<init, pin, call>>

Pins == {"PUMP", "FEED", "LIGHT"}
Levels == {"LOW", "HIGH"}
AllLow == [p \in Pins |-> "LOW"]

(* What each public function writes; "Sense" is FeedLevel and WaterLevel,  *)
(* which initialise the library and then only read an input pin.           *)
Writes ==
    [PumpsOn   |-> [to |-> "PUMP",  level |-> "HIGH"],
     PumpsOff  |-> [to |-> "PUMP",  level |-> "LOW"],
     FeedOn    |-> [to |-> "FEED",  level |-> "HIGH"],
     FeedOff   |-> [to |-> "FEED",  level |-> "LOW"],
     LightsOn  |-> [to |-> "LIGHT", level |-> "HIGH"],
     LightsOff |-> [to |-> "LIGHT", level |-> "LOW"]]

Relays == {"PumpsOn", "PumpsOff", "FeedOn", "FeedOff", "LightsOn", "LightsOff"}
Operations == Relays \cup {"Sense"}
Calls == [op: Operations, stage: {"test", "turnOff", "ready", "write"}]

HardwareTypeOK ==
    /\ init \in BOOLEAN
    /\ pin \in [Pins -> Levels]
    /\ call \in [Threads -> Calls \cup {NoCall}]

HardwareInit ==
    /\ init = FALSE
    /\ pin = AllLow
    /\ call = [t \in Threads |-> NoCall]

-----------------------------------------------------------------------------
Idle(t) == call[t] = NoCall
At(t, stage) == ~Idle(t) /\ call[t].stage = stage

(* A thread enters one of the public functions.                            *)
Invoke(t, op) ==
    /\ Idle(t)
    /\ call' = [call EXCEPT ![t] = [op |-> op, stage |-> "test"]]
    /\ UNCHANGED <<init, pin>>

(* if (init) return;                                                       *)
TestInit(t) ==
    /\ At(t, "test")
    /\ call' = [call EXCEPT ![t].stage = IF init THEN "write" ELSE "turnOff"]
    /\ UNCHANGED <<init, pin>>

(* The rest of initialize(): all relays off ...                            *)
TurnEverythingOff(t) ==
    /\ At(t, "turnOff")
    /\ pin' = AllLow
    /\ call' = [call EXCEPT ![t].stage = "ready"]
    /\ UNCHANGED init

(* ... and init = true.                                                    *)
Initialized(t) ==
    /\ At(t, "ready")
    /\ init' = TRUE
    /\ call' = [call EXCEPT ![t].stage = "write"]
    /\ UNCHANGED pin

(* The write (or the read) the function is for.                            *)
WritePin(t) ==
    /\ At(t, "write")
    /\ pin' = IF call[t].op \in Relays
                THEN [pin EXCEPT ![Writes[call[t].op].to] = Writes[call[t].op].level]
                ELSE pin
    /\ call' = [call EXCEPT ![t] = NoCall]
    /\ UNCHANGED init

HardwareStep(t) ==
    TestInit(t) \/ TurnEverythingOff(t) \/ Initialized(t) \/ WritePin(t)

(* The process dies: its memory is gone, the pins keep their levels.       *)
HardwareLost ==
    /\ init' = FALSE
    /\ call' = [t \in Threads |-> NoCall]
    /\ UNCHANGED pin
=============================================================================
