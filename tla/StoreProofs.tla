---------------------------- MODULE StoreProofs -----------------------------
(***************************************************************************)
(* Proofs about the settings store, for any number of threads, networks,   *)
(* requests, ends of the process, power cuts and failed saves.             *)
(***************************************************************************)
EXTENDS SettingsStore, TLAPS

Alone(t) == Busy(t) /\ thread[t].alone

(* Who may be busy when.                                                   *)
BusyByProcess ==
    \A t \in Threads : Busy(t) =>
        /\ process \in {"starting", "up"}
        /\ process = "starting" <=> t = Main

(* A cut file is being written, or was left by a crash or a failure.       *)
CutIsExplained ==
    file = Cut => \/ mishaps \cap {"cut", "failure"} # {}
                  \/ \E t \in Threads : At(t, "write")

(* A thread that never overlapped with another one.                        *)
AloneIsAlone ==
    \A t, u \in Threads : Alone(t) /\ Busy(u) => t = u

Overlaps ==
    Undisturbed => \A t \in Threads : Busy(t) /\ t # Main => Alone(t)

(* How far a save that is not disturbed has come.                          *)
SavesMemory(t) ==
    /\ At(t, "json") => \A i \in 1 .. 3 :
         i < thread[t].field => thread[t].text[Fields[i]] = mem[Fields[i]]
    /\ At(t, "open") \/ At(t, "write") => thread[t].text = mem /\ thread[t].field = 1

SetsMemory(t) ==
    /\ At(t, "set") => \A i \in 1 .. 3 :
         i < thread[t].field => mem[Fields[i]] = thread[t].chosen
    /\ At(t, "json") \/ At(t, "open") \/ At(t, "write")
         => mem = Uniform(thread[t].chosen)

Progress ==
    \A t \in Threads :
        /\ Alone(t) \/ t = Main => SavesMemory(t)
        /\ Alone(t) /\ t \in UiThreads => SetsMemory(t)
        /\ At(t, "set") => t \in UiThreads
        /\ t \notin WebThreads => thread[t].saves = 0

(* Some content is in the file and, but for a dialog that is under way, in *)
(* memory: what the last dialog showed, unless a power cut has undone it.  *)
Holds(content) ==
    /\ "lost" \notin mishaps => content = Uniform(kept)
    /\ NoDialog => mem = content
    /\ file \in {content, Cut, NoFile}
    /\ file = NoFile => content = Uniform(Default) /\ process \in {"down", "starting"}
    /\ process = "up" /\ file = Cut => \E t \in Threads : At(t, "write")
    /\ process = "starting" => content = Uniform(Default) /\ mem = Uniform(Default)

Remembered == Undisturbed => \E content \in Contents : Holds(content)

StoreInv ==
    /\ StoreTypeOK /\ BusyByProcess /\ CutIsExplained /\ AloneIsAlone
    /\ Overlaps /\ Progress /\ Remembered

-----------------------------------------------------------------------------
LEMMA Names ==
  /\ Fields \in [1 .. 3 -> FieldNames] /\ Len(Fields) = 3
  /\ Fields[1] = "light" /\ Fields[2] = "pump" /\ Fields[3] = "food"
BY DEF Fields, FieldNames

LEMMA UniformTypes == \A c \in Choices : Uniform(c) \in Contents
BY DEF Uniform, Contents

LEMMA IdleFrameType == IdleFrame \in Frames /\ IdleFrame.at = "idle"
BY UniformTypes, StoreAssumption DEF IdleFrame, Frames

(* The frame of a thread that goes on, to its next field or its next save. *)
LEMMA NextFieldType ==
  ASSUME NEW frame \in Frames, NEW p \in {"json", "open"}
  PROVE  NextField(frame, p) \in Frames
<1>1. \A i \in 1 .. 3 : [frame EXCEPT !.field = i, !.at = p] \in Frames
  BY DEF Frames
<1>2. \A i \in 1 .. 3 : [frame EXCEPT !.field = i] \in Frames
  BY DEF Frames
<1>3. frame.field < 3 => frame.field + 1 \in 1 .. 3
  BY DEF Frames
<1> QED
  BY <1>1, <1>2, <1>3, Names DEF NextField

LEMMA NextSaveType ==
  ASSUME NEW frame \in Frames, frame.saves > 1
  PROVE  LET next == [frame EXCEPT !.at = "json", !.saves = @ - 1]
         IN  /\ next \in Frames /\ next.at = "json"
             /\ next.field = frame.field /\ (next.alone <=> frame.alone)
<1>1. ASSUME NEW i \in 0 .. Slots, NEW p \in {"json"}
      PROVE  LET next == [frame EXCEPT !.at = p, !.saves = i]
             IN  /\ next \in Frames /\ next.at = p
                 /\ next.field = frame.field /\ (next.alone <=> frame.alone)
  BY DEF Frames
<1>2. frame.saves - 1 \in 0 .. Slots
  BY StoreAssumption DEF Frames
<1> QED
  BY <1>1, <1>2

LEMMA BecomesType ==
  ASSUME StoreTypeOK, NEW t \in Threads, NEW frame \in Frames, Becomes(t, frame)
  PROVE  /\ thread' \in [Threads -> Frames]
         /\ thread'[t] = frame
         /\ \A u \in Threads \ {t} : thread'[u] = thread[u]
BY DEF StoreTypeOK, Becomes

LEMMA AfterSaveType ==
  ASSUME StoreTypeOK, NEW t \in Threads, AfterSave(t)
  PROVE  /\ thread' \in [Threads -> Frames]
         /\ \A u \in Threads \ {t} : thread'[u] = thread[u]
         /\ thread'[t] = IF thread[t].saves > 1
                           THEN [thread[t] EXCEPT !.at = "json", !.saves = @ - 1]
                           ELSE IdleFrame
         /\ kept' \in Choices
         /\ process' \in {"down", "starting", "loading", "up"}
<1>1. [thread[t] EXCEPT !.at = "json", !.saves = @ - 1] \in Frames
      \/ ~(thread[t].saves > 1)
  BY NextSaveType DEF StoreTypeOK
<1> QED
  BY <1>1, IdleFrameType, BecomesType DEF StoreTypeOK, AfterSave, Frames

LEMMA BeginType ==
  ASSUME StoreTypeOK, NEW t \in Threads, NEW frame \in Frames, Begin(t, frame)
  PROVE  /\ thread' \in [Threads -> Frames]
         /\ requests' \in 0 .. MaxRequests
         /\ mishaps' \subseteq {"overlap", "failure", "cut", "lost"}
<1> DEFINE others == {u \in Threads : Busy(u)}
<1>1. [frame EXCEPT !.alone = (others = {})] \in Frames
  BY DEF Frames
<1>2. \A u \in Threads : [thread[u] EXCEPT !.alone = FALSE] \in Frames
  BY DEF Frames, StoreTypeOK
<1> QED
  BY <1>1, <1>2, StoreAssumption DEF Begin, StoreTypeOK

-----------------------------------------------------------------------------
LEMMA TypeInitially == Init => StoreTypeOK
<1>1. Init => mem \in Contents /\ thread \in [Threads -> Frames]
  BY UniformTypes, IdleFrameType, StoreAssumption DEF Init
<1> QED
  BY <1>1, StoreAssumption DEF Init, StoreTypeOK

LEMMA TypeStep == StoreTypeOK /\ [Next]_vars => StoreTypeOK'
<1> SUFFICES ASSUME StoreTypeOK, [Next]_vars PROVE StoreTypeOK'
  OBVIOUS
<1> USE StoreAssumption
<1>1. CASE Construct
  <2>1. IdleFrame \in Frames /\ Uniform(Default) \in Contents /\ Main \in Threads
    BY IdleFrameType, UniformTypes DEF Threads
  <2>2. [IdleFrame EXCEPT !.at = "json"] \in Frames
    BY <2>1 DEF Frames
  <2>3. thread' \in [Threads -> Frames] /\ mem' \in Contents
    BY <1>1, <2>1, <2>2, BecomesType DEF Construct, StoreTypeOK
  <2> QED
    BY <1>1, <2>3 DEF Construct, StoreTypeOK, counters
<1>2. CASE LoadSettings
  BY <1>2 DEF LoadSettings, StoreTypeOK, counters
<1>12. ASSUME NEW left \in Contents \cup {Cut, NoFile}, EndWith(left),
              onDisk' \in Contents \cup {Cut, NoFile}
       PROVE  StoreTypeOK'
  <2>1. thread' \in [Threads -> Frames]
    BY <1>12, IdleFrameType DEF EndWith
  <2>2. mem' \in Contents
    BY <1>12, UniformTypes DEF EndWith
  <2>3. crashes' \in 0 .. MaxCrashes
    BY <1>12 DEF EndWith, StoreTypeOK
  <2>4. mishaps' \subseteq {"overlap", "failure", "cut", "lost"}
    BY <1>12 DEF EndWith, StoreTypeOK
  <2> QED
    BY <1>12, <2>1, <2>2, <2>3, <2>4 DEF EndWith, StoreTypeOK
<1>3. CASE ProcessDies
  BY <1>3, <1>12 DEF ProcessDies, StoreTypeOK
<1>13. CASE PowerCut
  <2>1. PICK left \in {onDisk, IF onDisk = file THEN file ELSE Cut} :
          EndWith(left) /\ onDisk' = left
    BY <1>13 DEF PowerCut
  <2> QED
    BY <1>12, <2>1 DEF StoreTypeOK
<1>14. CASE WriteBack
  BY <1>14 DEF WriteBack, StoreTypeOK, counters
<1>4. ASSUME NEW t \in UiThreads, SaveDialog(t) PROVE StoreTypeOK'
  <2>1. PICK c \in Choices :
          Begin(t, [IdleFrame EXCEPT !.at = "set", !.chosen = c])
    BY <1>4 DEF SaveDialog
  <2>2. \A p \in {"set"} : [IdleFrame EXCEPT !.at = p, !.chosen = c] \in Frames
    BY IdleFrameType DEF Frames
  <2>3. t \in Threads
    BY DEF Threads
  <2> QED
    BY <1>4, <2>1, <2>2, <2>3, BeginType DEF SaveDialog, Begin, StoreTypeOK
<1>5. ASSUME NEW t \in UiThreads, SetField(t) PROVE StoreTypeOK'
  <2>1. t \in Threads /\ thread[t] \in Frames
    BY DEF Threads, StoreTypeOK
  <2>2. thread' \in [Threads -> Frames]
    BY <1>5, <2>1, NextFieldType, BecomesType DEF SetField
  <2>3. mem' \in Contents
    BY <1>5, <2>1 DEF SetField, StoreTypeOK, Contents, Frames
  <2> QED
    BY <1>5, <2>2, <2>3 DEF SetField, StoreTypeOK, counters
<1>6. ASSUME NEW t \in WebThreads, PostSettings(t) PROVE StoreTypeOK'
  <2>1. t \in Threads
    BY DEF Threads
  <2>2. mem' \in Contents
    BY <1>6 DEF PostSettings, StoreTypeOK, Contents
  <2>3. \A p \in {"json"}, i \in 0 .. Slots :
           [IdleFrame EXCEPT !.at = p, !.saves = i] \in Frames
    BY IdleFrameType DEF Frames
  <2>4. \A p \in {"hung"} : [IdleFrame EXCEPT !.at = p] \in Frames
    BY IdleFrameType DEF Frames
  <2>5. Slots \in 0 .. Slots
    OBVIOUS
  <2>6. [IdleFrame EXCEPT !.at = "json", !.saves = Slots] \in Frames
    BY <2>3, <2>5
  <2>7. [IdleFrame EXCEPT !.at = "hung"] \in Frames
    BY <2>4
  <2>8. PICK frame \in Frames : Begin(t, frame)
    BY <1>6, <2>6, <2>7, Zenon DEF PostSettings
  <2> QED
    BY <2>1, <2>2, <2>8, BeginType DEF Begin, StoreTypeOK
<1>7. ASSUME NEW t \in Threads, ReadField(t) PROVE StoreTypeOK'
  <2> DEFINE f == Fields[thread[t].field]
             read == [thread[t] EXCEPT !.text[f] = mem[f]]
  <2>1. f \in FieldNames
    BY Names DEF StoreTypeOK, Frames
  <2>2. read \in Frames
    BY <2>1 DEF StoreTypeOK, Frames, Contents
  <2>3. thread' \in [Threads -> Frames]
    BY <1>7, <2>2, NextFieldType, BecomesType DEF ReadField
  <2> QED
    BY <1>7, <2>3 DEF ReadField, StoreTypeOK, counters
<1>8. ASSUME NEW t \in Threads, OpenFile(t) PROVE StoreTypeOK'
  <2>1. [thread[t] EXCEPT !.at = "write"] \in Frames
    BY DEF StoreTypeOK, Frames
  <2>2. thread' \in [Threads -> Frames]
    BY <1>8, <2>1, BecomesType DEF OpenFile
  <2> QED
    BY <1>8, <2>2 DEF OpenFile, StoreTypeOK, counters
<1>9. ASSUME NEW t \in Threads, WriteFile(t) PROVE StoreTypeOK'
  <2>1. thread[t].text \in Contents
    BY DEF StoreTypeOK, Frames
  <2> QED
    BY <1>9, <2>1, AfterSaveType DEF WriteFile, StoreTypeOK, counters
<1>10. ASSUME NEW t \in Threads, SaveFails(t) PROVE StoreTypeOK'
  <2>1. failures' \in 0 .. MaxFailures /\ mishaps' \subseteq {"overlap", "failure", "cut", "lost"}
    BY <1>10 DEF SaveFails, StoreTypeOK
  <2>2. file' = file /\ onDisk' = onDisk /\ mem' = mem /\ requests' = requests /\ crashes' = crashes
    BY <1>10 DEF SaveFails
  <2> QED
    BY <1>10, <2>1, <2>2, AfterSaveType DEF SaveFails, StoreTypeOK
<1>11. CASE UNCHANGED vars
  BY <1>11 DEF vars, counters, StoreTypeOK
<1> QED
  BY <1>1, <1>2, <1>3, <1>4, <1>5, <1>6, <1>7, <1>8, <1>9, <1>10, <1>11, <1>13, <1>14
     DEF Next, SaveStep

-----------------------------------------------------------------------------
(* A step within a save or a dialog leaves everybody as busy as before.    *)
LEMMA GoesOn ==
  ASSUME StoreInv, NEW t \in Threads, Busy(t), Busy(t)',
         thread'[t].alone <=> thread[t].alone,
         \A u \in Threads \ {t} : thread'[u] = thread[u],
         process' = process, mishaps' = mishaps
  PROVE  /\ \A u \in Threads : (Busy(u)' <=> Busy(u)) /\ (Alone(u)' <=> Alone(u))
         /\ NoDialog' <=> NoDialog
         /\ BusyByProcess' /\ AloneIsAlone' /\ Overlaps'
<1>1. \A u \in Threads : Busy(u)' <=> Busy(u)
  BY DEF Busy
<1>2. \A u \in Threads : Alone(u)' <=> Alone(u)
  BY <1>1 DEF Alone
<1>3. UiThreads \subseteq Threads
  BY DEF Threads
<1>4. NoDialog' <=> NoDialog
  BY <1>1, <1>3 DEF NoDialog
<1> QED
  BY <1>1, <1>2, <1>4
     DEF StoreInv, BusyByProcess, AloneIsAlone, Overlaps, Undisturbed

(* Where a thread is after a step to its next field.                       *)
LEMMA NextFieldAt ==
  ASSUME NEW frame \in Frames, NEW p \in {"json", "open"}
  PROVE  LET next == NextField(frame, p)
         IN  /\ next.at = IF frame.field < 3 THEN frame.at ELSE p
             /\ next.field = IF frame.field < 3 THEN frame.field + 1 ELSE 1
             /\ next.text = frame.text /\ next.chosen = frame.chosen
             /\ next.saves = frame.saves /\ (next.alone <=> frame.alone)
BY Names DEF NextField, Frames

LEMMA ReadStep ==
  ASSUME StoreInv, NEW t \in Threads, ReadField(t)
  PROVE  BusyByProcess' /\ CutIsExplained' /\ AloneIsAlone' /\ Overlaps'
         /\ Progress' /\ Remembered'
<1> DEFINE f == Fields[thread[t].field]
           read == [thread[t] EXCEPT !.text[f] = mem[f]]
<1>0. StoreTypeOK /\ thread[t] \in Frames
  BY DEF StoreInv, StoreTypeOK
<1>1. f \in FieldNames
  BY <1>0, Names DEF Frames
<1>2. /\ read \in Frames /\ read.at = "json" /\ read.field = thread[t].field
      /\ read.chosen = thread[t].chosen /\ read.saves = thread[t].saves
      /\ read.alone <=> thread[t].alone
      /\ read.text[f] = mem[f]
      /\ \A g \in FieldNames \ {f} : read.text[g] = thread[t].text[g]
  BY <1>0, <1>1 DEF StoreTypeOK, Frames, Contents, ReadField, At
<1> HIDE DEF read
<1>3. /\ thread'[t] = NextField(read, "open") /\ thread' \in [Threads -> Frames]
      /\ \A u \in Threads \ {t} : thread'[u] = thread[u]
  BY <1>0, <1>2, NextFieldType, BecomesType DEF ReadField, read
<1>4. UNCHANGED <<file, mem, process, kept, mishaps>>
  BY DEF ReadField
<1>5. /\ thread'[t].at = IF thread[t].field < 3 THEN "json" ELSE "open"
      /\ thread'[t].field = IF thread[t].field < 3 THEN thread[t].field + 1 ELSE 1
      /\ thread'[t].text = read.text /\ thread'[t].chosen = thread[t].chosen
      /\ thread'[t].saves = thread[t].saves /\ (thread'[t].alone <=> thread[t].alone)
  BY <1>2, <1>3, NextFieldAt
<1>6. thread[t].at = "json"
  BY DEF ReadField, At
<1>7. Busy(t) /\ Busy(t)'
  BY <1>5, <1>6 DEF Busy
<1>8. /\ \A u \in Threads : (Busy(u)' <=> Busy(u)) /\ (Alone(u)' <=> Alone(u))
      /\ NoDialog' <=> NoDialog
      /\ BusyByProcess' /\ AloneIsAlone' /\ Overlaps'
  BY <1>3, <1>4, <1>5, <1>7, GoesOn
<1>9. \A u \in Threads : At(u, "write")' <=> At(u, "write")
  BY <1>3, <1>5, <1>6 DEF At
<1>10. CutIsExplained'
  BY <1>4, <1>9 DEF StoreInv, CutIsExplained
<1>11. Remembered'
  BY <1>4, <1>8, <1>9 DEF StoreInv, Remembered, Holds, Undisturbed
<1>12. Progress'
  <2>1. SUFFICES ASSUME Alone(t) \/ t = Main PROVE SavesMemory(t)'
    BY <1>3, <1>4, <1>5, <1>6, <1>8
       DEF StoreInv, Progress, SavesMemory, SetsMemory, At
  <2>2. \A i \in 1 .. 3 : i < thread[t].field => read.text[Fields[i]] = mem[Fields[i]]
    <3>1. \A i \in 1 .. 3 : i < thread[t].field => thread[t].text[Fields[i]] = mem[Fields[i]]
      BY <1>6, <2>1 DEF StoreInv, Progress, SavesMemory, At
    <3>2. \A i \in 1 .. 3 : i < thread[t].field => Fields[i] \in FieldNames \ {f}
      BY <1>0, Names DEF Frames
    <3> QED
      BY <1>2, <3>1, <3>2
  <2>3. \A i \in 1 .. 3 : i <= thread[t].field => read.text[Fields[i]] = mem[Fields[i]]
    BY <1>0, <1>2, <2>2 DEF Frames
  <2>4. thread[t].field = 3 => read.text = mem
    <3>1. thread[t].field = 3 => \A g \in FieldNames : read.text[g] = mem[g]
      BY <2>3, Names DEF FieldNames
    <3>2. read.text \in Contents /\ mem \in Contents
      BY <1>0, <1>2 DEF Frames, StoreTypeOK
    <3> QED
      BY <3>1, <3>2 DEF Contents
  <2>5. thread[t].field \in 1 .. 3
    BY <1>0 DEF Frames
  <2> QED
    BY <1>4, <1>5, <2>3, <2>4, <2>5 DEF SavesMemory, At
<1> QED
  BY <1>8, <1>10, <1>11, <1>12

LEMMA SetStep ==
  ASSUME StoreInv, NEW t \in UiThreads, SetField(t)
  PROVE  BusyByProcess' /\ CutIsExplained' /\ AloneIsAlone' /\ Overlaps'
         /\ Progress' /\ Remembered'
<1> DEFINE f == Fields[thread[t].field]
<1>0. StoreTypeOK /\ t \in Threads /\ t # Main /\ thread[t] \in Frames
  BY StoreAssumption DEF StoreInv, StoreTypeOK, Threads
<1>1. /\ thread'[t] = NextField(thread[t], "json") /\ thread' \in [Threads -> Frames]
      /\ \A u \in Threads \ {t} : thread'[u] = thread[u]
  BY <1>0, NextFieldType, BecomesType DEF SetField
<1>2. UNCHANGED <<file, process, kept, mishaps>>
  BY DEF SetField
<1>3. thread[t].at = "set"
  BY DEF SetField, At
<1>4. /\ thread'[t].at = IF thread[t].field < 3 THEN "set" ELSE "json"
      /\ thread'[t].field = IF thread[t].field < 3 THEN thread[t].field + 1 ELSE 1
      /\ thread'[t].chosen = thread[t].chosen /\ thread'[t].saves = thread[t].saves
      /\ thread'[t].alone <=> thread[t].alone
  BY <1>0, <1>1, <1>3, NextFieldAt
<1>5. Busy(t) /\ Busy(t)'
  BY <1>3, <1>4 DEF Busy, At
<1>6. /\ \A u \in Threads : (Busy(u)' <=> Busy(u)) /\ (Alone(u)' <=> Alone(u))
      /\ NoDialog' <=> NoDialog
      /\ BusyByProcess' /\ AloneIsAlone' /\ Overlaps'
  BY <1>0, <1>1, <1>2, <1>4, <1>5, GoesOn
<1>7. process = "up" /\ ~NoDialog
  BY <1>0, <1>5 DEF StoreInv, BusyByProcess, NoDialog
<1>8. \A u \in Threads : At(u, "write")' <=> At(u, "write")
  BY <1>1, <1>3, <1>4 DEF At
<1>9. CutIsExplained'
  BY <1>2, <1>8 DEF StoreInv, CutIsExplained
<1>10. Remembered'
  BY <1>2, <1>6, <1>7, <1>8 DEF StoreInv, Remembered, Holds, Undisturbed
<1>11. f \in FieldNames /\ thread[t].field \in 1 .. 3
  BY <1>0, Names DEF Frames
<1>12. /\ mem' \in Contents /\ mem'[f] = thread[t].chosen
       /\ \A g \in FieldNames \ {f} : mem'[g] = mem[g]
  BY <1>0, <1>11 DEF SetField, StoreTypeOK, Contents, Frames
<1>13. Alone(t) => SetsMemory(t)'
  <2> SUFFICES ASSUME Alone(t) PROVE SetsMemory(t)'
    OBVIOUS
  <2>1. \A i \in 1 .. 3 : i < thread[t].field => mem[Fields[i]] = thread[t].chosen
    BY <1>0, <1>3 DEF StoreInv, Progress, SetsMemory, At
  <2>2. \A i \in 1 .. 3 : i < thread[t].field => Fields[i] \in FieldNames \ {f}
    BY <1>11, Names
  <2>3. \A i \in 1 .. 3 : i <= thread[t].field => mem'[Fields[i]] = thread[t].chosen
    BY <1>11, <1>12, <2>1, <2>2
  <2>4. thread[t].field = 3 => mem' = Uniform(thread[t].chosen)
    <3>1. thread[t].field = 3 => \A g \in FieldNames : mem'[g] = thread[t].chosen
      BY <2>3, Names DEF FieldNames
    <3> QED
      BY <1>12, <3>1 DEF Contents, Uniform
  <2> QED
    BY <1>4, <1>11, <2>3, <2>4 DEF SetsMemory, At
<1>14. Alone(t) => SavesMemory(t)'
  BY <1>4, <1>11 DEF SavesMemory, At
<1>15. ASSUME NEW u \in Threads \ {t} PROVE ~Alone(u) /\ ~Busy(Main)
  <2>1. Busy(u) /\ Alone(u) => u = t
    BY <1>0, <1>5 DEF StoreInv, AloneIsAlone
  <2>2. ~Busy(Main)
    BY <1>7 DEF StoreInv, BusyByProcess, Threads
  <2> QED
    BY <2>1, <2>2 DEF Alone
<1>16. Progress'
  <2>1. SavesMemory(Main)'
    <3>1. ~At(Main, "json")' /\ ~At(Main, "open")' /\ ~At(Main, "write")'
      BY <1>0, <1>1, <1>7 DEF StoreInv, BusyByProcess, Busy, At, Threads
    <3> QED
      BY <3>1 DEF SavesMemory
  <2>2. \A u \in Threads \ {t} : ~Alone(u)'
    BY <1>6, <1>15
  <2>3. \A u \in Threads : At(u, "set")' => u \in UiThreads
    BY <1>1 DEF StoreInv, Progress, At
  <2>4. \A u \in Threads : u \notin WebThreads => thread'[u].saves = 0
    BY <1>1, <1>4 DEF StoreInv, Progress
  <2> QED
    BY <1>0, <1>6, <1>13, <1>14, <2>1, <2>2, <2>3, <2>4 DEF Progress
<1> QED
  BY <1>6, <1>9, <1>10, <1>16

LEMMA OpenStep ==
  ASSUME StoreInv, NEW t \in Threads, OpenFile(t)
  PROVE  BusyByProcess' /\ CutIsExplained' /\ AloneIsAlone' /\ Overlaps'
         /\ Progress' /\ Remembered'
<1>0. StoreTypeOK /\ thread[t] \in Frames
  BY DEF StoreInv, StoreTypeOK
<1>1. /\ thread'[t] = [thread[t] EXCEPT !.at = "write"]
      /\ \A u \in Threads \ {t} : thread'[u] = thread[u]
  BY <1>0 DEF OpenFile, Becomes, StoreTypeOK
<1>2. UNCHANGED <<mem, process, kept, mishaps>> /\ file' = Cut
  BY DEF OpenFile
<1>3. thread[t].at = "open"
  BY DEF OpenFile, At
<1>4. /\ thread'[t].at = "write" /\ thread'[t].text = thread[t].text
      /\ thread'[t].field = thread[t].field
      /\ thread'[t].chosen = thread[t].chosen /\ thread'[t].saves = thread[t].saves
      /\ thread'[t].alone <=> thread[t].alone
  BY <1>0, <1>1 DEF Frames
<1>5. Busy(t) /\ Busy(t)'
  BY <1>3, <1>4 DEF Busy, At
<1>6. /\ \A u \in Threads : (Busy(u)' <=> Busy(u)) /\ (Alone(u)' <=> Alone(u))
      /\ NoDialog' <=> NoDialog
      /\ BusyByProcess' /\ AloneIsAlone' /\ Overlaps'
  BY <1>0, <1>1, <1>2, <1>4, <1>5, GoesOn
<1>7. At(t, "write")'
  BY <1>4 DEF At
<1>8. CutIsExplained'
  BY <1>7 DEF CutIsExplained
<1>9. Remembered'
  <2>1. file' = Cut /\ Cut # NoFile
    BY <1>2, StoreAssumption
  <2>2. \E u \in Threads : At(u, "write")'
    BY <1>7
  <2>3. ASSUME NEW content, Holds(content) PROVE Holds(content)'
    BY <1>2, <1>6, <2>1, <2>2, <2>3 DEF Holds
  <2> QED
    BY <1>2, <2>3 DEF StoreInv, Remembered, Undisturbed
<1>10. Progress'
  <2> SUFFICES ASSUME NEW u \in Threads
               PROVE  /\ Alone(u)' \/ u = Main => SavesMemory(u)'
                      /\ Alone(u)' /\ u \in UiThreads => SetsMemory(u)'
                      /\ At(u, "set")' => u \in UiThreads
                      /\ u \notin WebThreads => thread'[u].saves = 0
    BY DEF Progress
  <2>1. CASE u # t
    BY <1>1, <1>2, <1>6, <2>1 DEF StoreInv, Progress, SavesMemory, SetsMemory, At
  <2>2. CASE u = t
    <3>1. (Alone(t) \/ t = Main => SavesMemory(t)) /\ (Alone(t) /\ t \in UiThreads => SetsMemory(t))
      BY DEF StoreInv, Progress
    <3>2. Alone(t)' \/ t = Main => SavesMemory(t)'
      BY <1>2, <1>3, <1>4, <1>6, <3>1 DEF SavesMemory, At
    <3>3. Alone(t)' /\ t \in UiThreads => SetsMemory(t)'
      BY <1>2, <1>3, <1>4, <1>6, <3>1 DEF SetsMemory, At
    <3> QED
      BY <1>4, <2>2, <3>2, <3>3 DEF StoreInv, Progress, At
  <2> QED
    BY <2>1, <2>2
<1> QED
  BY <1>6, <1>8, <1>9, <1>10

(* What the end of a save, good or bad, does to the threads.               *)
LEMMA SaveEnds ==
  ASSUME StoreInv, NEW t \in Threads, At(t, "open") \/ At(t, "write"),
         AfterSave(t), mem' = mem
  PROVE  /\ Busy(t) /\ \A u \in Threads \ {t} : thread'[u] = thread[u]
         /\ Busy(t)' => t \in WebThreads /\ (Alone(t)' <=> Alone(t))
         /\ process' = IF t = Main THEN "loading" ELSE "up"
         /\ BusyByProcess' /\ AloneIsAlone' /\ Progress'
<1>0. StoreTypeOK /\ thread[t] \in Frames
  BY DEF StoreInv, StoreTypeOK
<1>1. Busy(t) /\ \A u \in Threads \ {t} : thread'[u] = thread[u]
  BY <1>0, AfterSaveType DEF Busy, At
<1>2. \/ /\ t \in WebThreads /\ thread'[t].at = "json"
         /\ thread'[t].field = thread[t].field
         /\ thread'[t].alone <=> thread[t].alone
      \/ /\ thread'[t].at = "idle" /\ thread'[t].saves = 0
  <2>1. CASE thread[t].saves > 1
    <3>1. thread'[t] = [thread[t] EXCEPT !.at = "json", !.saves = @ - 1]
      BY <1>0, <2>1, AfterSaveType
    <3>2. t \in WebThreads
      BY <2>1 DEF StoreInv, Progress
    <3>3. /\ thread'[t].at = "json" /\ thread'[t].field = thread[t].field
          /\ thread'[t].alone <=> thread[t].alone
      <4> DEFINE next == [thread[t] EXCEPT !.at = "json", !.saves = @ - 1]
      <4>1. /\ next.at = "json" /\ next.field = thread[t].field
            /\ next.alone <=> thread[t].alone
        BY <1>0, <2>1, NextSaveType
      <4> HIDE DEF next
      <4> QED
        BY <3>1, <4>1, Zenon DEF next
    <3> QED
      BY <3>2, <3>3, Zenon
  <2>2. CASE ~(thread[t].saves > 1)
    <3>1. thread'[t] = IdleFrame
      BY <1>0, <2>2, AfterSaveType
    <3>2. IdleFrame.at = "idle" /\ IdleFrame.saves = 0
      BY DEF IdleFrame
    <3> QED
      BY <3>1, <3>2
  <2> QED
    BY <2>1, <2>2
<1>3. Busy(t)' => t \in WebThreads /\ (Alone(t)' <=> Alone(t))
  BY <1>1, <1>2 DEF Busy, At, Alone
<1>4. process' = IF t = Main THEN "loading" ELSE "up"
  BY <1>1 DEF StoreInv, BusyByProcess, AfterSave
<1>5. Main \notin WebThreads /\ Main \notin UiThreads
  BY StoreAssumption
<1>6. \A u \in Threads \ {t} : (Busy(u)' <=> Busy(u)) /\ (Alone(u)' <=> Alone(u))
  BY <1>1 DEF Busy, At, Alone
<1>7. BusyByProcess'
  BY <1>1, <1>3, <1>4, <1>5, <1>6 DEF StoreInv, BusyByProcess
<1>8. AloneIsAlone'
  <2>1. \A u \in Threads : (Busy(u)' => Busy(u)) /\ (Alone(u)' => Alone(u))
    BY <1>1, <1>3, <1>6 DEF Alone
  <2> QED
    BY <2>1 DEF StoreInv, AloneIsAlone
<1>9. Progress'
  <2> SUFFICES ASSUME NEW u \in Threads
               PROVE  /\ Alone(u)' \/ u = Main => SavesMemory(u)'
                      /\ Alone(u)' /\ u \in UiThreads => SetsMemory(u)'
                      /\ At(u, "set")' => u \in UiThreads
                      /\ u \notin WebThreads => thread'[u].saves = 0
    BY DEF Progress
  <2>1. CASE u # t
    BY <1>1, <1>6, <2>1 DEF StoreInv, Progress, SavesMemory, SetsMemory, At
  <2>2. CASE u = t /\ thread'[t].at = "idle" /\ thread'[t].saves = 0
    BY <2>2 DEF SavesMemory, SetsMemory, At, Alone, Busy
  <2>3. CASE /\ u = t /\ t \in WebThreads /\ thread'[t].at = "json"
             /\ thread'[t].field = thread[t].field
             /\ thread'[t].alone <=> thread[t].alone
    <3>1. Busy(t)'
      BY <2>3 DEF Busy, At
    <3>2. Alone(t) => thread[t].field = 1
      BY DEF StoreInv, Progress, SavesMemory
    <3>3. Alone(t)' => SavesMemory(t)'
      BY <1>3, <2>3, <3>1, <3>2 DEF SavesMemory, At
    <3>4. t \notin UiThreads
      BY <2>3, StoreAssumption
    <3> QED
      BY <1>5, <2>3, <3>3, <3>4 DEF At
  <2> QED
    BY <1>2, <2>1, <2>2, <2>3
<1> QED
  BY <1>1, <1>3, <1>4, <1>7, <1>8, <1>9

LEMMA FailStep ==
  ASSUME StoreInv, NEW t \in Threads, SaveFails(t)
  PROVE  BusyByProcess' /\ CutIsExplained' /\ AloneIsAlone' /\ Overlaps'
         /\ Progress' /\ Remembered'
<1>1. mem' = mem /\ "failure" \in mishaps'
  BY DEF SaveFails
<1>2. BusyByProcess' /\ AloneIsAlone' /\ Progress'
  BY <1>1, SaveEnds DEF SaveFails
<1>3. ~Undisturbed' /\ CutIsExplained'
  BY <1>1 DEF Undisturbed, CutIsExplained
<1> QED
  BY <1>2, <1>3 DEF Overlaps, Remembered

LEMMA WriteStep ==
  ASSUME StoreInv, NEW t \in Threads, WriteFile(t)
  PROVE  BusyByProcess' /\ CutIsExplained' /\ AloneIsAlone' /\ Overlaps'
         /\ Progress' /\ Remembered'
<1>0. StoreTypeOK /\ thread[t] \in Frames /\ At(t, "write")
  BY DEF StoreInv, StoreTypeOK, WriteFile
<1>1. mem' = mem /\ file' = thread[t].text /\ AfterSave(t)
  BY DEF WriteFile
<1>2. /\ Busy(t) /\ \A u \in Threads \ {t} : thread'[u] = thread[u]
      /\ Busy(t)' => t \in WebThreads /\ (Alone(t)' <=> Alone(t))
      /\ process' = IF t = Main THEN "loading" ELSE "up"
      /\ BusyByProcess' /\ AloneIsAlone' /\ Progress'
  BY <1>0, <1>1, SaveEnds
<1>3. file' \in Contents /\ file' # Cut /\ file' # NoFile
  BY <1>0, <1>1, StoreAssumption DEF Frames
<1>4. CutIsExplained'
  BY <1>3 DEF CutIsExplained
<1>5. UiThreads \subseteq Threads /\ Main \notin UiThreads
  BY StoreAssumption DEF Threads
<1>6. \A u \in Threads \ {t} : (Busy(u)' <=> Busy(u)) /\ (Alone(u)' <=> Alone(u))
  BY <1>2 DEF Busy, At, Alone
<1>7. Alone(t) => \A u \in Threads \ {t} : ~Busy(u)
  BY <1>2 DEF StoreInv, AloneIsAlone
<1>8. CASE t \in UiThreads /\ thread[t].alone
  <2>1. Alone(t) /\ t \notin WebThreads /\ t # Main
    BY <1>2, <1>5, <1>8, StoreAssumption DEF Alone
  <2>2. thread[t].text = mem /\ mem = Uniform(thread[t].chosen)
    BY <1>0, <1>8, <2>1 DEF StoreInv, Progress, SavesMemory, SetsMemory
  <2>3. kept' = thread[t].chosen /\ process' = "up"
    BY <1>1, <1>2, <1>8, <2>1 DEF AfterSave
  <2>4. \A u \in Threads : ~Busy(u)'
    BY <1>2, <1>6, <1>7, <2>1
  <2>5. Holds(mem)' /\ mem' \in Contents
    BY <1>0, <1>1, <1>3, <2>2, <2>3 DEF Holds, StoreTypeOK
  <2> QED
    BY <1>1, <1>2, <1>3, <1>4, <2>3, <2>4, <2>5 DEF Overlaps, Remembered
<1>9. CASE ~(t \in UiThreads /\ thread[t].alone)
  <2>1. mishaps' = mishaps
    BY <1>9 DEF WriteFile
  <2>2. SUFFICES ASSUME Undisturbed PROVE Overlaps' /\ Remembered'
    BY <1>2, <1>4, <2>1 DEF Overlaps, Remembered, Undisturbed
  <2>3. t # Main => Alone(t)
    BY <1>2, <2>2 DEF StoreInv, Overlaps
  <2>4. t \notin UiThreads
    BY <1>5, <1>9, <2>3 DEF Alone
  <2>5. Overlaps'
    BY <1>2, <1>6, <2>1, <2>2, <2>3 DEF StoreInv, Overlaps, Undisturbed
  <2>6. thread[t].text = mem
    BY <1>0, <2>3 DEF StoreInv, Progress, SavesMemory
  <2>7. kept' = kept
    BY <1>1, <2>4 DEF AfterSave
  <2>11. PICK content \in Contents : Holds(content)
    BY <2>2 DEF StoreInv, Remembered
  <2>8. mem = content
    <3>1. CASE t = Main
      <4>1. process = "starting"
        BY <1>2, <3>1 DEF StoreInv, BusyByProcess
      <4> QED
        BY <2>11, <4>1 DEF Holds
    <3>2. CASE t # Main
      <4>1. process = "up"
        BY <1>2, <3>2 DEF StoreInv, BusyByProcess
      <4>2. NoDialog
        BY <1>5, <1>7, <2>3, <2>4, <3>2, <4>1 DEF NoDialog
      <4> QED
        BY <2>11, <4>2 DEF Holds
    <3> QED
      BY <3>1, <3>2
  <2>9. process' # "starting"
    BY <1>2
  <2>10. Remembered'
    BY <1>1, <1>3, <2>1, <2>6, <2>7, <2>8, <2>9, <2>11 DEF Remembered, Holds
  <2> QED
    BY <2>5, <2>10
<1> QED
  BY <1>8, <1>9

-----------------------------------------------------------------------------
(* A dialog or a POST that begins: `frame' is what its thread starts with. *)
LEMMA BeginStep ==
  ASSUME StoreInv, NEW t \in UiThreads \cup WebThreads,
         NEW frame \in Frames, Begin(t, frame), mem' = mem,
         \/ frame.at = "set" /\ t \in UiThreads
         \/ frame.at = "json" /\ t \in WebThreads
         \/ frame.at = "hung",
         frame.field = 1, t \notin WebThreads => frame.saves = 0
  PROVE  BusyByProcess' /\ CutIsExplained' /\ AloneIsAlone' /\ Overlaps'
         /\ Progress' /\ Remembered'
<1> DEFINE others == {u \in Threads : Busy(u)}
<1>0. StoreTypeOK /\ t \in Threads /\ t # Main /\ process = "up" /\ thread[t].at = "idle"
  BY StoreAssumption DEF StoreInv, Threads, Begin, At
<1>1. UNCHANGED <<file, mem, process, kept>>
      /\ mishaps' = IF others = {} THEN mishaps ELSE mishaps \cup {"overlap"}
  BY DEF Begin
<1>2. thread'[t] = [frame EXCEPT !.alone = (others = {})]
  BY <1>0 DEF Begin
<1>3. /\ thread'[t].at = frame.at /\ thread'[t].field = 1
      /\ thread'[t].saves = frame.saves /\ (thread'[t].alone <=> others = {})
  BY <1>2 DEF Frames
<1>4. ASSUME NEW u \in Threads \ {t}
      PROVE  /\ thread'[u].at = thread[u].at /\ thread'[u].field = thread[u].field
             /\ thread'[u].text = thread[u].text /\ thread'[u].chosen = thread[u].chosen
             /\ thread'[u].saves = thread[u].saves /\ ~thread'[u].alone
  <2>1. thread'[u] = [thread[u] EXCEPT !.alone = FALSE] /\ thread[u] \in Frames
    BY <1>0 DEF Begin, StoreTypeOK
  <2> QED
    BY <2>1 DEF Frames
<1> HIDE DEF others
<1>5. \A u \in Threads \ {t} : (Busy(u)' <=> Busy(u)) /\ ~Alone(u)'
  BY <1>4 DEF Busy, At, Alone
<1>6. ~Busy(t) /\ (others = {} <=> \A u \in Threads : ~Busy(u))
  BY <1>0 DEF others, Busy, At
<1>7. ~Busy(Main)
  BY <1>0 DEF StoreInv, BusyByProcess, Threads
<1>8. BusyByProcess'
  BY <1>0, <1>1, <1>5 DEF StoreInv, BusyByProcess
<1>9. AloneIsAlone'
  <2>1. \A u \in Threads : Alone(u)' => u = t /\ others = {}
    BY <1>3, <1>5 DEF Alone
  <2>2. others = {} => \A u \in Threads : Busy(u)' => u = t
    BY <1>5, <1>6
  <2> QED
    BY <2>1, <2>2 DEF AloneIsAlone
<1>10. Undisturbed' => others = {} /\ Undisturbed
  BY <1>1 DEF Undisturbed
<1>11. Overlaps'
  <2>1. others = {} => \A u \in Threads : Busy(u)' => u = t /\ thread'[t].alone
    BY <1>3, <1>5, <1>6
  <2> QED
    BY <1>10, <2>1 DEF Overlaps, Alone
<1>12. \A u \in Threads : At(u, "write") => At(u, "write")'
  BY <1>0, <1>4 DEF At
<1>13. CutIsExplained'
  BY <1>1, <1>12 DEF StoreInv, CutIsExplained
<1>14. Remembered'
  <2>1. NoDialog' => NoDialog
    BY <1>0, <1>1, <1>5, <1>6 DEF NoDialog, Threads
  <2>2. "lost" \notin mishaps' => "lost" \notin mishaps
    BY <1>1
  <2>3. ASSUME NEW content, Holds(content) PROVE Holds(content)'
    BY <1>1, <1>12, <2>1, <2>2, <2>3 DEF Holds
  <2> QED
    BY <1>10, <2>3 DEF StoreInv, Remembered
<1>15. Progress'
  <2> SUFFICES ASSUME NEW u \in Threads
               PROVE  /\ Alone(u)' \/ u = Main => SavesMemory(u)'
                      /\ Alone(u)' /\ u \in UiThreads => SetsMemory(u)'
                      /\ At(u, "set")' => u \in UiThreads
                      /\ u \notin WebThreads => thread'[u].saves = 0
    BY DEF Progress
  <2>1. CASE u = t
    <3>1. SavesMemory(t)'
      BY <1>3 DEF SavesMemory, At
    <3>2. t \in UiThreads => SetsMemory(t)'
      BY <1>3, StoreAssumption DEF SetsMemory, At
    <3> QED
      BY <1>3, <2>1, <3>1, <3>2 DEF At
  <2>2. CASE u # t
    <3>1. ~Alone(u)'
      BY <1>5, <2>2
    <3>2. u = Main => SavesMemory(u)'
      BY <1>4, <1>7, <2>2 DEF SavesMemory, At, Busy
    <3> QED
      BY <1>4, <2>2, <3>1, <3>2 DEF StoreInv, Progress, At
  <2> QED
    BY <2>1, <2>2
<1> QED
  BY <1>8, <1>9, <1>11, <1>13, <1>14, <1>15

LEMMA DialogStep ==
  ASSUME StoreInv, NEW t \in UiThreads, SaveDialog(t)
  PROVE  BusyByProcess' /\ CutIsExplained' /\ AloneIsAlone' /\ Overlaps'
         /\ Progress' /\ Remembered'
<1>1. PICK c \in Choices : Begin(t, [IdleFrame EXCEPT !.at = "set", !.chosen = c])
  BY DEF SaveDialog
<1>2. ASSUME NEW p \in {"set"}
      PROVE  LET frame == [IdleFrame EXCEPT !.at = p, !.chosen = c]
             IN  /\ frame \in Frames /\ frame.at = p
                 /\ frame.field = 1 /\ frame.saves = 0
  BY IdleFrameType DEF Frames, IdleFrame
<1> DEFINE frame == [IdleFrame EXCEPT !.at = "set", !.chosen = c]
<1>3. frame \in Frames /\ frame.at = "set" /\ frame.field = 1 /\ frame.saves = 0
  BY <1>2
<1>4. Begin(t, frame) /\ mem' = mem
  BY <1>1 DEF SaveDialog
<1> HIDE DEF frame
<1> QED
  BY <1>3, <1>4, BeginStep

LEMMA PostStep ==
  ASSUME StoreInv, NEW t \in WebThreads, PostSettings(t)
  PROVE  BusyByProcess' /\ CutIsExplained' /\ AloneIsAlone' /\ Overlaps'
         /\ Progress' /\ Remembered'
<1>1. ASSUME NEW p \in {"json"}, NEW i \in 0 .. Slots
      PROVE  LET frame == [IdleFrame EXCEPT !.at = p, !.saves = i]
             IN  frame \in Frames /\ frame.at = p /\ frame.field = 1
  BY IdleFrameType DEF Frames, IdleFrame
<1>2. ASSUME NEW p \in {"hung"}
      PROVE  LET frame == [IdleFrame EXCEPT !.at = p]
             IN  frame \in Frames /\ frame.at = p /\ frame.field = 1
  BY IdleFrameType DEF Frames, IdleFrame
<1> DEFINE saver == [IdleFrame EXCEPT !.at = "json", !.saves = Slots]
           hung == [IdleFrame EXCEPT !.at = "hung"]
<1>3. Slots \in 0 .. Slots
  BY StoreAssumption
<1>4. saver \in Frames /\ saver.at = "json" /\ saver.field = 1
  BY <1>1, <1>3
<1>5. hung \in Frames /\ hung.at = "hung" /\ hung.field = 1
  BY <1>2
<1>6. Begin(t, saver) \/ Begin(t, hung)
  BY Zenon DEF PostSettings
<1> HIDE DEF saver, hung
<1>7. mem' = mem
  BY DEF PostSettings, Forwarded, FieldNames
<1> QED
  BY <1>4, <1>5, <1>6, <1>7, BeginStep

LEMMA ConstructStep ==
  ASSUME StoreInv, Construct
  PROVE  BusyByProcess' /\ CutIsExplained' /\ AloneIsAlone' /\ Overlaps'
         /\ Progress' /\ Remembered'
<1>0. StoreTypeOK /\ Main \in Threads /\ Main \notin UiThreads /\ Main \notin WebThreads
  BY StoreAssumption DEF StoreInv, Threads
<1>1. \A u \in Threads : ~Busy(u)
  BY DEF Construct, StoreInv, BusyByProcess
<1>2. UNCHANGED <<file, kept, mishaps>> /\ process = "down" /\ process' # "up"
  BY DEF Construct
<1>3. CASE file = NoFile
  <2>1. [IdleFrame EXCEPT !.at = "json"].at = "json"
        /\ [IdleFrame EXCEPT !.at = "json"].field = 1
        /\ [IdleFrame EXCEPT !.at = "json"].saves = 0
    BY DEF IdleFrame
  <2>2. /\ thread'[Main].at = "json" /\ thread'[Main].field = 1
        /\ thread'[Main].saves = 0
        /\ \A u \in Threads \ {Main} : thread'[u] = thread[u]
    BY <1>0, <1>3, <2>1 DEF Construct, Becomes, StoreTypeOK
  <2>3. process' = "starting" /\ mem' = Uniform(Default) /\ file' # Cut
    BY <1>2, <1>3, StoreAssumption DEF Construct
  <2>4. \A u \in Threads \ {Main} : ~Busy(u)' /\ ~Alone(u)'
    BY <1>1, <2>2 DEF Busy, At, Alone
  <2>5. BusyByProcess' /\ AloneIsAlone' /\ Overlaps' /\ CutIsExplained'
    BY <2>3, <2>4 DEF BusyByProcess, AloneIsAlone, Overlaps, CutIsExplained
  <2>6. Remembered'
    <3>1. ASSUME NEW content, Holds(content) PROVE Holds(content)'
      BY <1>2, <1>3, <2>3, <3>1 DEF Holds, NoDialog
    <3> QED
      BY <1>2, <3>1 DEF StoreInv, Remembered, Undisturbed
  <2>7. SavesMemory(Main)' /\ ~At(Main, "set")'
    BY <2>2 DEF SavesMemory, At
  <2>8. Progress'
    BY <1>0, <2>2, <2>4, <2>7 DEF StoreInv, Progress, At
  <2> QED
    BY <2>5, <2>6, <2>8
<1>4. CASE file # NoFile
  <2>1. UNCHANGED <<mem, thread>> /\ process' = "loading"
    BY <1>4 DEF Construct
  <2>2. \A u \in Threads : ~Busy(u)' /\ ~Alone(u)'
    BY <1>1, <2>1 DEF Busy, At, Alone
  <2>3. BusyByProcess' /\ AloneIsAlone' /\ Overlaps'
    BY <2>2 DEF BusyByProcess, AloneIsAlone, Overlaps
  <2>4. CutIsExplained'
    BY <1>2, <2>1 DEF StoreInv, CutIsExplained, At
  <2>5. Remembered'
    <3>1. ASSUME NEW content, Holds(content) PROVE Holds(content)'
      BY <1>2, <1>4, <2>1, <3>1 DEF Holds, NoDialog
    <3> QED
      BY <1>2, <3>1 DEF StoreInv, Remembered, Undisturbed
  <2>6. Progress'
    BY <1>1, <2>1, <2>2 DEF StoreInv, Progress, SavesMemory, At, Busy
  <2> QED
    BY <2>3, <2>4, <2>5, <2>6
<1> QED
  BY <1>3, <1>4

LEMMA LoadStep ==
  ASSUME StoreInv, LoadSettings
  PROVE  BusyByProcess' /\ CutIsExplained' /\ AloneIsAlone' /\ Overlaps'
         /\ Progress' /\ Remembered'
<1>0. StoreTypeOK /\ process = "loading"
  BY DEF StoreInv, LoadSettings
<1>1. \A u \in Threads : ~Busy(u)
  BY <1>0 DEF StoreInv, BusyByProcess
<1>2. /\ UNCHANGED <<file, thread, kept, mishaps>>
      /\ process' = IF file = Cut THEN "down" ELSE "up"
      /\ mem' = IF file \in Contents THEN file ELSE mem
  BY DEF LoadSettings
<1>3. \A u \in Threads : ~Busy(u)' /\ ~Alone(u)'
  BY <1>1, <1>2 DEF Busy, At, Alone
<1>4. BusyByProcess' /\ AloneIsAlone' /\ Overlaps'
  BY <1>3 DEF BusyByProcess, AloneIsAlone, Overlaps
<1>5. CutIsExplained'
  BY <1>2 DEF StoreInv, CutIsExplained, At
<1>6. Progress'
  <2> SUFFICES ASSUME NEW u \in Threads
               PROVE  /\ Alone(u)' \/ u = Main => SavesMemory(u)'
                      /\ Alone(u)' /\ u \in UiThreads => SetsMemory(u)'
                      /\ At(u, "set")' => u \in UiThreads
                      /\ u \notin WebThreads => thread'[u].saves = 0
    BY DEF Progress
  <2>1. SavesMemory(u)'
    BY <1>3 DEF SavesMemory, At, Busy
  <2> QED
    BY <1>2, <1>3, <2>1 DEF StoreInv, Progress, At
<1>7. Remembered'
  <2>1. ASSUME NEW content \in Contents, Holds(content) PROVE Holds(content)'
    <3>1. file \in {content, Cut} /\ file # NoFile
      BY <1>0, <2>1 DEF Holds
    <3> QED
      BY <1>2, <2>1, <3>1 DEF Holds, NoDialog
  <2> QED
    BY <1>2, <2>1 DEF StoreInv, Remembered, Undisturbed
<1> QED
  BY <1>4, <1>5, <1>6, <1>7

LEMMA EndStep ==
  ASSUME StoreInv, NEW left \in Contents \cup {Cut, NoFile}, EndWith(left)
  PROVE  BusyByProcess' /\ CutIsExplained' /\ AloneIsAlone' /\ Overlaps'
         /\ Progress' /\ Remembered'
<1>1. /\ file' = left /\ kept' = kept /\ process' = "down"
      /\ mishaps \subseteq mishaps' /\ (left = Cut => "cut" \in mishaps')
      /\ left # file => "lost" \in mishaps'
  BY DEF EndWith
<1>2. \A u \in Threads : thread'[u].at = "idle" /\ thread'[u].saves = 0
  BY DEF EndWith, IdleFrame
<1>3. \A u \in Threads : ~Busy(u)' /\ ~Alone(u)'
  BY <1>2 DEF Busy, At, Alone
<1>4. BusyByProcess' /\ AloneIsAlone' /\ Overlaps'
  BY <1>3 DEF BusyByProcess, AloneIsAlone, Overlaps
<1>5. CutIsExplained'
  BY <1>1 DEF CutIsExplained
<1>6. Progress'
  BY <1>2, <1>3 DEF Progress, SavesMemory, At
<1>7. Remembered'
  <2> SUFFICES ASSUME Undisturbed' PROVE \E content \in Contents : Holds(content)'
    BY DEF Remembered
  <2>1. CASE left = file
    <3>1. Undisturbed
      BY <1>1 DEF Undisturbed
    <3>2. PICK content \in Contents : Holds(content)
      BY <3>1 DEF StoreInv, Remembered
    <3>3. Holds(content)'
      BY <1>1, <2>1, <3>2 DEF Holds, NoDialog
    <3> QED
      BY <3>3
  <2>2. CASE left # file
    <3>1. Uniform(Default) \in Contents /\ NoFile \notin Contents
      BY UniformTypes, StoreAssumption
    <3>2. PICK content \in Contents :
            /\ left \in {content, Cut, NoFile}
            /\ left = NoFile => content = Uniform(Default)
      BY <3>1
    <3>3. Holds(content)'
      BY <1>1, <2>2, <3>2 DEF Holds, NoDialog
    <3> QED
      BY <3>3
  <2> QED
    BY <2>1, <2>2
<1> QED
  BY <1>4, <1>5, <1>6, <1>7

LEMMA NothingSeenStep ==
  ASSUME StoreInv, UNCHANGED vars \/ WriteBack PROVE StoreInv'
<1>1. UNCHANGED <<file, mem, process, thread, kept, mishaps>> /\ StoreTypeOK'
  BY TypeStep DEF vars, StoreInv, Next, WriteBack
<1>2. ASSUME NEW t \in Threads
      PROVE  /\ Busy(t)' <=> Busy(t)
             /\ Alone(t)' <=> Alone(t)
             /\ SavesMemory(t)' <=> SavesMemory(t)
             /\ SetsMemory(t)' <=> SetsMemory(t)
             /\ At(t, "write")' <=> At(t, "write")
             /\ At(t, "set")' <=> At(t, "set")
  <2>1. Busy(t)' <=> Busy(t)
    BY <1>1 DEF Busy, At
  <2>2. Alone(t)' <=> Alone(t)
    BY <1>1, <2>1 DEF Alone
  <2>3. SavesMemory(t)' <=> SavesMemory(t)
    BY <1>1 DEF SavesMemory, At
  <2>4. SetsMemory(t)' <=> SetsMemory(t)
    BY <1>1 DEF SetsMemory, At
  <2> QED
    BY <1>1, <2>1, <2>2, <2>3, <2>4 DEF At
<1>3. (Undisturbed' <=> Undisturbed) /\ (NoDialog' <=> NoDialog)
  BY <1>1, <1>2 DEF Undisturbed, NoDialog, Threads
<1>4. BusyByProcess' /\ AloneIsAlone' /\ Overlaps'
  BY <1>1, <1>2, <1>3 DEF StoreInv, BusyByProcess, AloneIsAlone, Overlaps
<1>5. CutIsExplained' /\ Remembered'
  BY <1>1, <1>2, <1>3 DEF StoreInv, CutIsExplained, Remembered, Holds
<1>6. Progress'
  BY <1>1, <1>2 DEF StoreInv, Progress
<1> QED
  BY <1>1, <1>4, <1>5, <1>6 DEF StoreInv

-----------------------------------------------------------------------------
LEMMA StoreInitially == Init => StoreInv
<1> SUFFICES ASSUME Init PROVE StoreInv
  OBVIOUS
<1>1. \A t \in Threads : ~Busy(t) /\ ~Alone(t) /\ thread[t].at = "idle" /\ thread[t].saves = 0
  BY DEF Init, Busy, At, Alone, IdleFrame
<1>2. BusyByProcess /\ AloneIsAlone /\ Overlaps
  BY <1>1 DEF BusyByProcess, AloneIsAlone, Overlaps
<1>3. CutIsExplained
  BY StoreAssumption DEF Init, CutIsExplained
<1>4. Progress
  BY <1>1 DEF Progress, SavesMemory, At
<1>5. Remembered
  <2>1. Holds(Uniform(Default)) /\ Uniform(Default) \in Contents
    BY UniformTypes, StoreAssumption DEF Init, Holds, NoDialog
  <2> QED
    BY <2>1 DEF Remembered
<1> QED
  BY <1>2, <1>3, <1>4, <1>5, TypeInitially DEF StoreInv

LEMMA StoreStep == StoreInv /\ [Next]_vars => StoreInv'
<1> SUFFICES ASSUME StoreInv, [Next]_vars PROVE StoreInv'
  OBVIOUS
<1>1. StoreTypeOK'
  BY TypeStep DEF StoreInv
<1>2. CASE Construct
  BY <1>1, <1>2, ConstructStep DEF StoreInv
<1>3. CASE LoadSettings
  BY <1>1, <1>3, LoadStep DEF StoreInv
<1>4. CASE ProcessDies
  <2>1. file \in Contents \cup {Cut, NoFile}
    BY DEF StoreInv, StoreTypeOK
  <2> QED
    BY <1>1, <1>4, <2>1, EndStep DEF StoreInv, ProcessDies
<1>13. CASE PowerCut
  <2>1. PICK left \in {onDisk, IF onDisk = file THEN file ELSE Cut} : EndWith(left)
    BY <1>13 DEF PowerCut
  <2>2. left \in Contents \cup {Cut, NoFile}
    BY DEF StoreInv, StoreTypeOK
  <2> QED
    BY <1>1, <2>1, <2>2, EndStep DEF StoreInv
<1>5. CASE \E t \in UiThreads : SaveDialog(t)
  BY <1>1, <1>5, DialogStep DEF StoreInv
<1>6. CASE \E t \in UiThreads : SetField(t)
  BY <1>1, <1>6, SetStep DEF StoreInv
<1>7. CASE \E t \in WebThreads : PostSettings(t)
  BY <1>1, <1>7, PostStep DEF StoreInv
<1>8. CASE \E t \in Threads : ReadField(t)
  BY <1>1, <1>8, ReadStep DEF StoreInv
<1>9. CASE \E t \in Threads : OpenFile(t)
  BY <1>1, <1>9, OpenStep DEF StoreInv
<1>10. CASE \E t \in Threads : WriteFile(t)
  BY <1>1, <1>10, WriteStep DEF StoreInv
<1>11. CASE \E t \in Threads : SaveFails(t)
  BY <1>1, <1>11, FailStep DEF StoreInv
<1>12. CASE UNCHANGED vars \/ WriteBack
  BY <1>12, NothingSeenStep
<1> QED
  BY <1>2, <1>3, <1>4, <1>5, <1>6, <1>7, <1>8, <1>9, <1>10, <1>11, <1>12,
     <1>13 DEF Next, SaveStep

LEMMA StoreInvariant == Spec => []StoreInv
BY StoreInitially, StoreStep, PTL DEF Spec

(* Every thread's frame, the file and the memory always have their types.  *)
THEOREM StoreTypeCorrect == Spec => []StoreTypeOK
<1>1. StoreInv => StoreTypeOK
  BY DEF StoreInv
<1> QED
  BY <1>1, StoreInvariant, PTL

(* Settings.cpp has no lock: memory and file agree between saves all the   *)
(* same, as long as no two saves overlapped and none failed, and again     *)
(* after the next dialog that is saved alone.                              *)
THEOREM MemoryIsInTheFile == Spec => []FileFollowsMemory
<1>1. StoreInv => FileFollowsMemory
  <2> SUFFICES ASSUME StoreInv, Quiet, Undisturbed PROVE file = mem
    BY DEF FileFollowsMemory
  <2>1. NoDialog /\ process = "up"
    BY DEF Quiet, NoDialog, Threads
  <2>2. \A t \in Threads : ~At(t, "write")
    BY DEF Quiet, Busy, At
  <2> QED
    BY <2>1, <2>2 DEF StoreInv, Remembered, Holds, Quiet
<1> QED
  BY <1>1, StoreInvariant, PTL

(* A running process works with all of what the last finished dialog       *)
(* showed, after any number of deaths of the process, and of power cuts    *)
(* that came after the kernel had written the file back.                   *)
THEOREM WhatWasChosenLasts == Spec => []DialogLasts
<1>1. StoreInv => DialogLasts
  BY DEF StoreInv, Remembered, Holds, DialogLasts
<1> QED
  BY <1>1, StoreInvariant, PTL

(* Only the end of a process or a power cut in a save that is not on the   *)
(* disk yet, or a failed write, leaves a file no process can start with.   *)
THEOREM CutFilesHaveACause == Spec => []OnlyCutFilesKill
<1>1. StoreInv => OnlyCutFilesKill
  <2> SUFFICES ASSUME StoreInv, process = "down", file = Cut
               PROVE  mishaps \cap {"cut", "failure"} # {}
    BY DEF OnlyCutFilesKill
  <2>1. \A t \in Threads : ~Busy(t)
    BY DEF StoreInv, BusyByProcess
  <2> QED
    BY <2>1 DEF StoreInv, CutIsExplained, Busy, At
<1> QED
  BY <1>1, StoreInvariant, PTL
=============================================================================
