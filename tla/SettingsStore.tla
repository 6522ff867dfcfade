--------------------------- MODULE SettingsStore ----------------------------
(***************************************************************************)
(* Settings.cpp: one object in memory, one JSON file, and no lock around   *)
(* either once the object exists.  The constructor writes and reads the    *)
(* file; the screen's settings dialog changes the object and saves it; a   *)
(* POST to the web server's settings saves it once per network slot.       *)
(*                                                                         *)
(* Memory and file are abstracted to the fields a dialog sets, each of     *)
(* which holds one of a few choices: a file is whole, cut (opened, which   *)
(* truncates it, and not or not fully written) or not there.  Nothing is   *)
(* synced: what is written is in the kernel's cache until the kernel       *)
(* writes it back, and a power cut loses it.  The networks are left out:   *)
(* they are saved under one key and looked for under another, so that no   *)
(* process ever loads one.                                                 *)
(***************************************************************************)
EXTENDS Naturals, Sequences

CONSTANTS
    Main,               \* the thread that constructs the object
    UiThreads,          \* the touch screen's thread, if there is a screen
    WebThreads,         \* the web server's threads
    Choices, Default,   \* values of a field; the constructor's own
    Slots,              \* networks of a POST, each of which is saved
    Cut, NoFile,
    MaxRequests,        \* bound: dialogs and POSTs
    MaxCrashes,         \* bound: deaths of the process and power cuts
    MaxFailures         \* bound: saves that cannot open or write the file

Threads == {Main} \cup UiThreads \cup WebThreads

(* In the order in which save_cb sets and ToJSON reads them.               *)
Fields == <<"light", "pump", "food">>
FieldNames == {"light", "pump", "food"}
Contents == [FieldNames -> Choices]
Uniform(c) == [f \in FieldNames |-> c]

ASSUME StoreAssumption ==
    /\ Main \notin UiThreads \cup WebThreads /\ UiThreads \cap WebThreads = {}
    /\ Default \in Choices
    /\ Slots \in Nat \ {0}
    /\ Cut \notin Contents /\ NoFile \notin Contents /\ NoFile # Cut
    /\ MaxRequests \in Nat /\ MaxCrashes \in Nat /\ MaxFailures \in Nat

VARIABLES
    file,       \* settings.json, as a process sees it
    onDisk,     \* settings.json, as last written back
    mem,        \* the Settings object
    process,    \* what main is at
    thread,     \* each thread's place and locals
    kept,       \* history: what the last dialog to be finished showed
    mishaps,    \* history: what went wrong since a dialog saved alone
    requests, crashes, failures

counters == <<requests, crashes, failures>>
vars == <<file, onDisk, mem, process, thread, kept, mishaps, counters>>

Frames == [at: {"idle", "set", "json", "open", "write", "hung"},
           field: 1 .. 3,       \* the next field to set or read
           text: Contents,      \* what ToJSON has put together so far
           chosen: Choices,     \* what the dialog shows
           saves: 0 .. Slots,   \* how many saves a POST still needs
           alone: BOOLEAN]      \* history: nobody else was busy since it began

IdleFrame == [at |-> "idle", field |-> 1, text |-> Uniform(Default),
              chosen |-> Default, saves |-> 0, alone |-> FALSE]

StoreTypeOK ==
    /\ file \in Contents \cup {Cut, NoFile} /\ onDisk \in Contents \cup {Cut, NoFile}
    /\ mem \in Contents
    /\ process \in {"down", "starting", "loading", "up"}
    /\ thread \in [Threads -> Frames]
    /\ kept \in Choices
    /\ mishaps \subseteq {"overlap", "failure", "cut", "lost"}
    /\ requests \in 0 .. MaxRequests
    /\ crashes \in 0 .. MaxCrashes /\ failures \in 0 .. MaxFailures

Init ==
    /\ file = NoFile /\ onDisk = NoFile /\ mem = Uniform(Default) /\ process = "down"
    /\ thread = [t \in Threads |-> IdleFrame]
    /\ kept = Default /\ mishaps = {}
    /\ requests = 0 /\ crashes = 0 /\ failures = 0

At(t, p) == thread[t].at = p
Busy(t) == thread[t].at \notin {"idle", "hung"}
Becomes(t, frame) == thread' = [thread EXCEPT ![t] = frame]

-----------------------------------------------------------------------------
(* A dialog or a POST begins, next to whatever the other threads do.       *)
Begin(t, frame) ==
    /\ process = "up" /\ At(t, "idle")
    /\ requests < MaxRequests /\ requests' = requests + 1
    /\ LET others == {u \in Threads : Busy(u)}
       IN  /\ thread' = [u \in Threads |->
                           IF u = t THEN [frame EXCEPT !.alone = (others = {})]
                           ELSE [thread[u] EXCEPT !.alone = FALSE]]
           /\ mishaps' = IF others = {} THEN mishaps ELSE mishaps \cup {"overlap"}
    /\ UNCHANGED <<file, onDisk, process, kept, crashes, failures>>

(* save_cb: the sliders' values go into the object one after the other.    *)
SaveDialog(t) ==
    /\ \E c \in Choices : Begin(t, [IdleFrame EXCEPT !.at = "set", !.chosen = c])
    /\ UNCHANGED mem

(* Mutation: one field too many.                                           *)
NextFieldOffByOne(frame, p) ==
    IF frame.field <= Len(Fields) THEN [frame EXCEPT !.field = @ + 1]
    ELSE [frame EXCEPT !.field = 1, !.at = p]

(* On to the next field, or to place p after the last one.                 *)
NextField(frame, p) ==
    IF frame.field < Len(Fields) THEN [frame EXCEPT !.field = @ + 1]
    ELSE [frame EXCEPT !.field = 1, !.at = p]

(* Mutation: the dialog is saved before all of it is taken over.           *)
SetFieldNotLast(t) ==
    /\ At(t, "set")
    /\ mem' = IF thread[t].field = Len(Fields) THEN mem
              ELSE [mem EXCEPT ![Fields[thread[t].field]] = thread[t].chosen]
    /\ Becomes(t, NextField(thread[t], "json"))
    /\ UNCHANGED <<file, onDisk, process, kept, mishaps, counters>>

SetField(t) ==
    /\ At(t, "set")
    /\ mem' = [mem EXCEPT ![Fields[thread[t].field]] = thread[t].chosen]
    /\ Becomes(t, NextField(thread[t], "json"))
    /\ UNCHANGED <<file, onDisk, process, kept, mishaps, counters>>

(* Discovery::setSettings looks a posted setting up in its group and then  *)
(* hands on a default Setting, which has no name.                          *)
Forwarded(name) == ""

(* WebServer::setSettings sets what it knows by name, clears the networks  *)
(* and adds them again, each AddNetwork with a SaveSettings of its own.    *)
(* Before that it walks from the begin of one temporary copy of the        *)
(* settings to the end of another: the thread comes through, hangs, or     *)
(* takes the process with it (ProcessDies).                                *)
PostSettings(t) ==
    \/ /\ Begin(t, [IdleFrame EXCEPT !.at = "json", !.saves = Slots])
       /\ \E name \in FieldNames, c \in Choices :
            mem' = IF Forwarded(name) = name THEN [mem EXCEPT ![name] = c] ELSE mem
    \/ /\ Begin(t, [IdleFrame EXCEPT !.at = "hung"])
       /\ UNCHANGED mem

-----------------------------------------------------------------------------
(* Mutation: ToJSON leaves one field out.                                  *)
ReadFieldNotLast(t) ==
    /\ At(t, "json")
    /\ LET f == Fields[thread[t].field]
       IN  Becomes(t, NextField([thread[t] EXCEPT !.text[f] =
                                   IF f = "food" THEN @ ELSE mem[f]], "open"))
    /\ UNCHANGED <<file, onDisk, mem, process, kept, mishaps, counters>>

(* SaveSettings: ToJSON, then the file is opened, which truncates it, then *)
(* it is written.                                                          *)
ReadField(t) ==
    /\ At(t, "json")
    /\ LET f == Fields[thread[t].field]
       IN  Becomes(t, NextField([thread[t] EXCEPT !.text[f] = mem[f]], "open"))
    /\ UNCHANGED <<file, onDisk, mem, process, kept, mishaps, counters>>

OpenFile(t) ==
    /\ At(t, "open")
    /\ file' = Cut
    /\ Becomes(t, [thread[t] EXCEPT !.at = "write"])
    /\ UNCHANGED <<onDisk, mem, process, kept, mishaps, counters>>

(* Mutation: the constructor's save asks for the instance and waits for    *)
(* the lock its caller holds.                                              *)
AfterSaveWaits(t) ==
    /\ Becomes(t, IF thread[t].saves > 1
                    THEN [thread[t] EXCEPT !.at = "json", !.saves = @ - 1]
                    ELSE IdleFrame)
    /\ kept' = IF t \in UiThreads THEN thread[t].chosen ELSE kept
    /\ UNCHANGED process

(* After a save, a POST goes on with its next network, and the constructor *)
(* with LoadSettings.  Nobody looks at what SaveSettings returns.          *)
AfterSave(t) ==
    /\ Becomes(t, IF thread[t].saves > 1
                    THEN [thread[t] EXCEPT !.at = "json", !.saves = @ - 1]
                    ELSE IdleFrame)
    /\ kept' = IF t \in UiThreads THEN thread[t].chosen ELSE kept
    /\ process' = IF t = Main THEN "loading" ELSE process

(* Mutation: the file is closed without what was put into its buffer.      *)
WriteFileNot(t) ==
    /\ At(t, "write")
    /\ AfterSave(t)
    /\ mishaps' = IF t \in UiThreads /\ thread[t].alone THEN {} ELSE mishaps
    /\ UNCHANGED <<file, onDisk, mem, counters>>

WriteFile(t) ==
    /\ At(t, "write")
    /\ file' = thread[t].text
    /\ AfterSave(t)
    /\ mishaps' = IF t \in UiThreads /\ thread[t].alone THEN {} ELSE mishaps
    /\ UNCHANGED <<onDisk, mem, counters>>

(* The open is refused, or the disk is full; nothing is thrown.            *)
SaveFails(t) ==
    /\ At(t, "open") \/ At(t, "write")
    /\ failures < MaxFailures /\ failures' = failures + 1
    /\ AfterSave(t)
    /\ mishaps' = mishaps \cup {"failure"}
    /\ UNCHANGED <<file, onDisk, mem, requests, crashes>>

SaveStep(t) == ReadField(t) \/ OpenFile(t) \/ WriteFile(t) \/ SaveFails(t)

-----------------------------------------------------------------------------
(* The service manager starts the process, whose first act is to construct *)
(* the object: without a file it saves the defaults first.                 *)
Construct ==
    /\ process = "down"
    /\ IF file = NoFile
         THEN /\ process' = "starting"
              /\ mem' = Uniform(Default)
              /\ Becomes(Main, [IdleFrame EXCEPT !.at = "json"])
         ELSE process' = "loading" /\ UNCHANGED <<mem, thread>>
    /\ UNCHANGED <<file, onDisk, kept, mishaps, counters>>

(* What the parser throws on a cut file leaves the constructor, which      *)
(* GetInstance calls once more, and main.  If the first save could not     *)
(* create the file, the defaults are used as they are.                     *)
LoadSettings ==
    /\ process = "loading"
    /\ process' = IF file = Cut THEN "down" ELSE "up"
    /\ mem' = IF file \in Contents THEN file ELSE mem
    /\ UNCHANGED <<file, onDisk, thread, kept, mishaps, counters>>

(* The kernel writes the file back when it likes.                          *)
WriteBack ==
    /\ onDisk' = file
    /\ UNCHANGED <<file, mem, process, thread, kept, mishaps, counters>>

(* All threads end, between any two steps, and the file is found like this.*)
EndWith(left) ==
    /\ crashes < MaxCrashes /\ crashes' = crashes + 1
    /\ process' = "down"
    /\ thread' = [t \in Threads |-> IdleFrame]
    /\ file' = left
    /\ mishaps' = mishaps \cup (IF left = Cut THEN {"cut"} ELSE {})
                          \cup (IF left # file THEN {"lost"} ELSE {})
    /\ mem' = Uniform(Default)
    /\ UNCHANGED <<kept, requests, failures>>

ProcessDies ==
    /\ process # "down"
    /\ EndWith(file)
    /\ UNCHANGED onDisk

(* What was not written back is gone, and the file, which was truncated to *)
(* be written, may be left empty.                                          *)
PowerCut ==
    \E left \in {onDisk, IF onDisk = file THEN file ELSE Cut} :
        EndWith(left) /\ onDisk' = left

Next ==
    \/ Construct \/ LoadSettings \/ ProcessDies \/ PowerCut \/ WriteBack
    \/ \E t \in UiThreads : SaveDialog(t) \/ SetField(t)
    \/ \E t \in WebThreads : PostSettings(t)
    \/ \E t \in Threads : SaveStep(t)

Spec == Init /\ [][Next]_vars

(* Build/HydroGarden.service says Restart=always, and main's thread runs.  *)
FairSpec == Spec /\ WF_vars(Construct \/ LoadSettings \/ SaveStep(Main))

-----------------------------------------------------------------------------
NoDialog == process = "up" /\ \A t \in UiThreads : ~Busy(t)
Quiet == process = "up" /\ \A t \in Threads : ~Busy(t)
Undisturbed == mishaps \cap {"overlap", "failure"} = {}

(* There is no lock around a save.  As long as no two overlapped and none  *)
(* failed, memory and file agree whenever nobody saves, and the next       *)
(* dialog that saves alone makes them agree again.                         *)
FileFollowsMemory == Quiet /\ Undisturbed => file = mem

(* What the user chose lasts: a running process, after any deaths of the   *)
(* one before it, works with all of what the last dialog to be finished    *)
(* showed, and after a power cut too, unless it came before the kernel had *)
(* written the file back.                                                  *)
DialogLasts == NoDialog /\ Undisturbed /\ "lost" \notin mishaps => mem = Uniform(kept)

(* A process that cannot start was left a file that the end of a process   *)
(* in the middle of a save, a power cut before the file was written back,  *)
(* or a failed write nobody noticed, has cut.                              *)
OnlyCutFilesKill ==
    process = "down" /\ file = Cut => mishaps \cap {"cut", "failure"} # {}

(* After a crash the process comes up again, unless its file is cut.       *)
StartsAgain ==
    process # "up" ~> process = "up" \/ (process = "down" /\ file = Cut)
=============================================================================
