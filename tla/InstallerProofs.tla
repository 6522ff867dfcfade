-------------------------- MODULE InstallerProofs ---------------------------
(***************************************************************************)
(* Proofs about the installation of packages, for any number of uploads    *)
(* and threads, any packages, any ends of the process and any power cuts.  *)
(***************************************************************************)
EXTENDS Installer, FiniteSetTheorems, TLAPS

(* The counters' bounds, which need counting, follow in CountInv.           *)
Typed ==
    /\ pkg \in Packages \cup {None, Torn}
    /\ copies \in [Files \X Versions -> Packages \cup {None, Torn}]
    /\ link \in [Files -> Versions \cup {None}]
    /\ pc \in [Uploaders -> Places]
    /\ upload \in [Uploaders -> Packages \cup {None}]
    /\ mine \in [Uploaders -> Packages \cup {None}]
    /\ idx \in [Uploaders -> 0 .. FileCount]
    /\ unpacked \in [Versions -> Nat]
    /\ disturbed \in [Uploaders -> BOOLEAN]
    /\ diskLink \in [Files -> Versions \cup {None}]
    /\ written \subseteq Files \X Versions /\ lost \subseteq Files \X Versions
    /\ abandoned \subseteq Files

Before == {"receive", "makeTmp", "extract"}
Reading == {"describe", "check"}
Working == {"copy", "copying", "permissions", "unlink", "relink"}
Copied == {"permissions", "unlink", "relink"}

Version(t) == VersionOf[mine[t]]

(* What a thread has where it is.                                          *)
LocalsFit ==
    \A t \in Uploaders :
        /\ mine[t] # None <=> pc[t] \in Reading \cup Working \cup {"finish"}
        /\ pc[t] \in Working => idx[t] \in Files /\ mine[t] \notin Unsigned
        /\ pc[t] \notin Working \cup {"finish"} => idx[t] = 0
        /\ pc[t] # "idle" => upload[t] \in Packages
        /\ pc[t] \notin {"idle", "makeTmp"} => pkg # None

(* What a link points at, or will when the power is cut.                   *)
Pointers(f) == {link[f], diskLink[f]}

(* A version that is pointed at, or that a thread has unpacked, is counted; *)
(* two threads that have unpacked it have been counted twice; and where it *)
(* was counted once, a thread that works on it has made every link to it.  *)
Counted ==
    /\ \A f \in Files : \A v \in Pointers(f) : v # None => unpacked[v] >= 1
    /\ \A t \in Uploaders : mine[t] # None => unpacked[Version(t)] >= 1
    /\ \A t, u \in Uploaders :
         t # u /\ mine[t] # None /\ mine[u] # None /\ Version(t) = Version(u)
           => unpacked[Version(t)] >= 2
    /\ \A t \in Uploaders, f \in Files :
         pc[t] \in Reading \cup Working /\ Version(t) \in Pointers(f)
         /\ unpacked[Version(t)] <= 1 => f < idx[t]

(* What LinkedIsWhole says, of what the disk's links point at as well.     *)
Whole(f, v) ==
    copies[<<f, v>>] \in Packages \ Unsigned /\ VersionOf[copies[<<f, v>>]] = v

PointersWhole ==
    \A f \in Files : \A v \in Pointers(f) :
        v # None /\ unpacked[v] <= 1 /\ <<f, v>> \notin lost => Whole(f, v)

(* A copy that is about to be linked to is there.                          *)
CopyIsWhole ==
    \A t \in Uploaders :
        pc[t] \in Copied /\ unpacked[Version(t)] <= 1 => copies[MyCopy(t)] = mine[t]

(* How far an installation without another one next to it has come.        *)
Undisturbed(t) == Active(t) /\ ~disturbed[t]

InPlace(t, f) == link[f] = Version(t) /\ copies[<<f, Version(t)>>] = mine[t]

AloneGetsOn ==
    \A t \in Uploaders : Undisturbed(t) =>
        /\ \A u \in Uploaders \ {t} : ~Active(u)
        /\ pc[t] \in Copied => copies[MyCopy(t)] = mine[t]
        /\ pc[t] \in Working => \A f \in Files : f < idx[t] => InPlace(t, f)
        /\ pc[t] = "finish" /\ mine[t] \notin Undescribed
             => \A f \in Files : InPlace(t, f)

InstallerInv ==
    /\ Typed /\ LocalsFit /\ Counted /\ CopyIsWhole /\ AloneGetsOn
    /\ PointersWhole /\ MissingOnlyInBetween

-----------------------------------------------------------------------------
(* No package and no version is "none".                                    *)
LEMMA NoneIsNothing ==
  /\ None \notin Packages /\ None \notin Versions /\ Torn \notin Packages
  /\ None # Torn /\ \A p \in Packages : VersionOf[p] \in Versions
BY PackagesAssumption DEF Versions

LEMMA TypedInitially == Init => Typed
<1>1. 0 \in 0 .. FileCount
  BY PackagesAssumption
<1> QED
  BY <1>1, NoneIsNothing, PackagesAssumption DEF Init, Typed, Places

(* What a thread works on while it works.                                  *)
LEMMA WorksOn ==
  ASSUME Typed, LocalsFit, NEW t \in Uploaders,
         pc[t] \in Reading \cup Working \cup {"finish"}
  PROVE  /\ mine[t] \in Packages /\ Version(t) \in Versions
         /\ pc[t] \in Working => MyCopy(t) \in Files \X Versions
<1>1. mine[t] \in Packages
  BY DEF Typed, LocalsFit
<1> QED
  BY <1>1, NoneIsNothing DEF LocalsFit, Version, MyCopy

(* A thread that returns.                                                  *)
LEMMA ReturnEffect ==
  ASSUME Typed, NEW t \in Uploaders, NEW answer, Return(t, answer)
  PROVE  /\ pc' = [pc EXCEPT ![t] = "idle"] /\ mine' = [mine EXCEPT ![t] = None]
         /\ pc'[t] = "idle" /\ mine'[t] = None /\ idx'[t] = 0 /\ upload'[t] = None
         /\ ~disturbed'[t]
         /\ \A u \in Uploaders \ {t} :
              /\ pc'[u] = pc[u] /\ mine'[u] = mine[u] /\ idx'[u] = idx[u]
              /\ upload'[u] = upload[u] /\ (disturbed'[u] <=> disturbed[u])
         /\ UNCHANGED <<unpacked, diskLink, written, lost>>
         /\ abandoned' = Abandoned({t})
         /\ pc' \in [Uploaders -> Places] /\ mine' \in [Uploaders -> Packages \cup {None}]
         /\ upload' \in [Uploaders -> Packages \cup {None}]
         /\ idx' \in [Uploaders -> 0 .. FileCount]
         /\ disturbed' \in [Uploaders -> BOOLEAN]
<1>1. 0 \in 0 .. FileCount
  BY PackagesAssumption
<1> QED
  BY <1>1 DEF Return, Go, Typed, Places, cache

(* A thread that goes on to the next place.                                *)
LEMMA GoEffect ==
  ASSUME Typed, NEW t \in Uploaders, NEW place \in Places, Go(t, place)
  PROVE  /\ pc' \in [Uploaders -> Places] /\ pc'[t] = place
         /\ \A u \in Uploaders \ {t} : pc'[u] = pc[u]
BY DEF Go, Typed

LEMMA TypedStep ==
  ASSUME Typed, LocalsFit, Next PROVE Typed'
<1>1. CASE WriteBack
  BY <1>1 DEF WriteBack, Typed, disk, threads, history, losses
<1>23. CASE ProcessDies
  <2>1. 0 \in 0 .. FileCount /\ abandoned' \subseteq Files
    BY <1>23, PackagesAssumption DEF ProcessDies, Abandoned, Typed
  <2> QED
    BY <1>23, <2>1 DEF ProcessDies, AllEnd, Typed, Places, disk, cache
<1>24. CASE PowerCut
  <2>1. 0 \in 0 .. FileCount /\ abandoned' \subseteq Files
    BY <1>24, PackagesAssumption DEF PowerCut
  <2>2. /\ copies' \in [Files \X Versions -> Packages \cup {None, Torn}]
        /\ lost' \subseteq Files \X Versions
    BY <1>24 DEF PowerCut, Typed
  <2>3. pkg' \in Packages \cup {None, Torn} /\ link' = diskLink /\ diskLink' = diskLink
        /\ written' = {}
    BY <1>24 DEF PowerCut, Typed
  <2> QED
    BY <1>24, <2>1, <2>2, <2>3 DEF PowerCut, AllEnd, Typed, Places
<1> SUFFICES ASSUME NEW t \in Uploaders, InstallStep(t) PROVE Typed'
  BY <1>1, <1>23, <1>24 DEF Next
<1>2. CASE Upload(t)
  BY <1>2 DEF Upload, Typed, Go, Places, cache, losses
<1>3. CASE Receive(t)
  BY <1>3 DEF Receive, Typed, LocalsFit, Go, Places, cache, history, losses
<1>4. CASE MakeTmp(t)
  BY <1>4 DEF MakeTmp, Typed, Go, Places, cache, history, losses
<1>5. CASE Extract(t)
  <2>1. PICK p \in Readable(t) \ {Torn} :
          /\ mine' = [mine EXCEPT ![t] = p]
          /\ unpacked' = [unpacked EXCEPT ![VersionOf[p]] = @ + 1]
    BY <1>5 DEF Extract
  <2>2. p \in Packages
    BY <1>5, <2>1 DEF Readable, Typed, LocalsFit, Extract
  <2>3. mine' \in [Uploaders -> Packages \cup {None}] /\ unpacked' \in [Versions -> Nat]
    BY <2>1, <2>2, NoneIsNothing DEF Typed
  <2> QED
    BY <1>5, <2>3 DEF Extract, Typed, Go, Places, disk, cache, losses
<1>6. CASE ReadDesc(t)
  BY <1>6 DEF ReadDesc, Typed, Go, Places, disk, cache, history, losses
<1>7. CASE Check(t)
  <2>1. 1 \in 0 .. FileCount
    BY PackagesAssumption
  <2> QED
    BY <1>7, <2>1 DEF Check, Typed, Go, Places, disk, cache, history, losses
<1>8. CASE CopyStarts(t)
  BY <1>8 DEF CopyStarts, Typed, Go, Places, cache, history, losses
<1>9. CASE CopyEnds(t)
  BY <1>9, WorksOn DEF CopyEnds, Typed, Go, Places, Working, cache, history, losses
<1>10. CASE Permit(t)
  BY <1>10 DEF Permit, Typed, Go, Places, disk, cache, history, losses
<1>11. CASE Unlink(t)
  BY <1>11 DEF Unlink, Typed, Go, Places, cache, history, losses
<1>12. CASE Relink(t)
  <2>1. Version(t) \in Versions
    BY <1>12, WorksOn DEF Relink, Working
  <2>2. link' \in [Files -> Versions \cup {None}]
    BY <1>12, <2>1 DEF Relink, Typed, Version
  <2>3. idx[t] < FileCount => idx[t] + 1 \in 0 .. FileCount
    BY PackagesAssumption DEF Typed
  <2>4. idx' \in [Uploaders -> 0 .. FileCount] /\ pc' \in [Uploaders -> Places]
    BY <1>12, <2>3 DEF Relink, Typed, Go, Places
  <2> QED
    BY <1>12, <2>2, <2>4 DEF Relink, Typed, cache, history, losses
<1>13. ASSUME NEW answer, Return(t, answer),
              UNCHANGED <<pkg, link>>, copies' \in [Files \X Versions -> Packages \cup {None, Torn}]
       PROVE  Typed'
  <2>1. abandoned' \subseteq Files
    BY <1>13, ReturnEffect DEF Abandoned, Typed
  <2> QED
    BY <1>13, <2>1, ReturnEffect DEF Typed
<1>14. CASE MakeTmpFails(t)
  BY <1>13, <1>14 DEF MakeTmpFails, disk, Typed
<1>15. CASE ExtractFails(t)
  BY <1>13, <1>15 DEF ExtractFails, disk, Typed
<1>16. CASE CheckFails(t)
  BY <1>13, <1>16 DEF CheckFails, Typed
<1>17. CASE CopyFails(t)
  BY <1>13, <1>17 DEF CopyFails, Typed
<1>18. CASE CleanUpThrows(t)
  BY <1>13, <1>18 DEF CleanUpThrows, Typed
<1>19. CASE PermitFails(t)
  BY <1>13, <1>19 DEF PermitFails, Typed
<1>20. CASE LinkThrows(t)
  BY <1>13, <1>20 DEF LinkThrows, disk, Typed
<1>21. CASE Finish(t)
  BY <1>13, <1>21 DEF Finish, Typed
<1> QED
  BY <1>2, <1>3, <1>4, <1>5, <1>6, <1>7, <1>8, <1>9, <1>10, <1>11, <1>12, <1>14,
     <1>15, <1>16, <1>17, <1>18, <1>19, <1>20, <1>21 DEF InstallStep

-----------------------------------------------------------------------------
(* The other threads, their copies and their links are not in the way of a *)
(* thread that works on a version which was unpacked once.                 *)
LEMMA OnlyOne ==
  ASSUME InstallerInv, NEW t \in Uploaders, pc[t] \in Working,
         unpacked[Version(t)] <= 1
  PROVE  /\ \A u \in Uploaders \ {t} : mine[u] # None => Version(u) # Version(t)
         /\ \A u \in Uploaders \ {t} : pc[u] \in Working => MyCopy(u) # MyCopy(t)
         /\ \A f \in Files : \A v \in Pointers(f) : <<f, v>> # MyCopy(t)
<1>1. mine[t] # None /\ unpacked[Version(t)] \in Nat
  BY WorksOn, NoneIsNothing DEF InstallerInv, Typed
<1>2. \A u \in Uploaders \ {t} : mine[u] # None => Version(u) # Version(t)
  BY <1>1 DEF InstallerInv, Counted
<1>3. \A u \in Uploaders : pc[u] \in Working => mine[u] # None
  BY DEF InstallerInv, LocalsFit
<1>4. idx[t] \in Nat /\ idx[t] \in Files
  BY PackagesAssumption DEF InstallerInv, LocalsFit, Files
<1>5. \A f \in Files : Version(t) \in Pointers(f) => f < idx[t]
  BY DEF InstallerInv, Counted
<1> QED
  BY <1>2, <1>3, <1>4, <1>5 DEF MyCopy, Version, Files

(* A step that writes at most thread t's copy leaves the others' whole.    *)
LEMMA OthersKeepCopies ==
  ASSUME InstallerInv, NEW t \in Uploaders, pc[t] \in Working,
         UNCHANGED <<link, diskLink, unpacked, lost>>,
         \A c \in Files \X Versions : c # MyCopy(t) => copies'[c] = copies[c],
         \A u \in Uploaders \ {t} :
           pc'[u] = pc[u] /\ mine'[u] = mine[u] /\ idx'[u] = idx[u]
  PROVE  /\ PointersWhole'
         /\ \A u \in Uploaders \ {t} :
              pc'[u] \in Copied /\ unpacked'[Version(u)'] <= 1
                => copies'[MyCopy(u)'] = mine'[u]
<1>0. Typed /\ LocalsFit
  BY DEF InstallerInv
<1>1. MyCopy(t) = <<idx[t], Version(t)>>
  BY DEF MyCopy, Version
<1>2. ASSUME NEW f \in Files, NEW v \in Pointers(f), v # None, unpacked[v] <= 1
      PROVE  copies'[<<f, v>>] = copies[<<f, v>>]
  <2>1. <<f, v>> \in Files \X Versions
    BY <1>0, <1>2 DEF Typed, Pointers
  <2>2. <<f, v>> # MyCopy(t)
    BY <1>1, <1>2, OnlyOne
  <2> QED
    BY <2>1, <2>2
<1>3. PointersWhole'
  <2>1. \A f \in Files : Pointers(f)' = Pointers(f)
    BY DEF Pointers
  <2> QED
    BY <1>2, <2>1 DEF InstallerInv, PointersWhole, Whole
<1>4. ASSUME NEW u \in Uploaders \ {t}, pc[u] \in Copied, unpacked[Version(u)] <= 1
      PROVE  copies'[MyCopy(u)] = mine[u]
  <2>1. MyCopy(u) \in Files \X Versions /\ copies[MyCopy(u)] = mine[u] /\ pc[u] \in Working
    BY <1>0, <1>4, WorksOn DEF InstallerInv, CopyIsWhole, Copied, Working
  <2>2. MyCopy(u) # MyCopy(t)
    BY <1>4, <2>1, OnlyOne
  <2> QED
    BY <2>1, <2>2
<1>5. \A u \in Uploaders \ {t} : MyCopy(u)' = MyCopy(u) /\ Version(u)' = Version(u)
  BY DEF MyCopy, Version
<1> QED
  BY <1>3, <1>4, <1>5

(* A thread that is active next to nobody undisturbed: its steps disturb   *)
(* nobody's.                                                               *)
LEMMA OthersGetOn ==
  ASSUME InstallerInv, NEW t \in Uploaders, Active(t),
         \A u \in Uploaders \ {t} : pc'[u] = pc[u] /\ (disturbed'[u] <=> disturbed[u])
  PROVE  \A u \in Uploaders \ {t} : ~Undisturbed(u)'
BY DEF InstallerInv, AloneGetsOn, Undisturbed, Active

LEMMA LeaveStep ==
  ASSUME InstallerInv, Typed', NEW t \in Uploaders, NEW answer, Return(t, answer),
         Active(t), UNCHANGED <<pkg, link>>,
         \/ copies' = copies
         \/ /\ pc[t] \in Working
            /\ \A c \in Files \X Versions : c # MyCopy(t) => copies'[c] = copies[c]
  PROVE  InstallerInv'
<1>0. Typed /\ LocalsFit
  BY DEF InstallerInv
<1>1. /\ pc'[t] = "idle" /\ mine'[t] = None /\ idx'[t] = 0 /\ ~disturbed'[t]
      /\ \A u \in Uploaders \ {t} :
           /\ pc'[u] = pc[u] /\ mine'[u] = mine[u] /\ idx'[u] = idx[u]
           /\ upload'[u] = upload[u] /\ (disturbed'[u] <=> disturbed[u])
      /\ UNCHANGED <<unpacked, diskLink, lost>> /\ abandoned' = Abandoned({t})
  BY <1>0, ReturnEffect
<1>2. LocalsFit'
  BY <1>0, <1>1 DEF LocalsFit, Reading, Working
<1>3. Counted'
  <2>1. \A u \in Uploaders \ {t} : Version(u)' = Version(u)
    BY <1>1 DEF Version
  <2> QED
    BY <1>1, <2>1 DEF InstallerInv, Counted, Pointers, Reading, Working
<1>4. CopyIsWhole' /\ PointersWhole'
  <2>1. CASE copies' = copies
    <3>1. \A u \in Uploaders \ {t} : MyCopy(u)' = MyCopy(u) /\ Version(u)' = Version(u)
      BY <1>1 DEF MyCopy, Version
    <3> QED
      BY <1>1, <2>1, <3>1 DEF InstallerInv, CopyIsWhole, PointersWhole, Pointers, Whole,
         Copied
  <2>2. CASE copies' # copies
    BY <1>1, <2>2, OthersKeepCopies DEF CopyIsWhole, Copied
  <2> QED
    BY <2>1, <2>2
<1>5. AloneGetsOn'
  BY <1>1, OthersGetOn DEF AloneGetsOn, Undisturbed, Active
<1>6. MissingOnlyInBetween'
  BY <1>1 DEF InstallerInv, MissingOnlyInBetween, Abandoned
<1> QED
  BY <1>2, <1>3, <1>4, <1>5, <1>6 DEF InstallerInv

(* A step that takes a thread on, and writes at most its package or copy.  *)
LEMMA GoStep ==
  ASSUME InstallerInv, Typed', NEW t \in Uploaders, NEW place \in Places, Go(t, place),
         UNCHANGED <<link, diskLink, upload, mine, idx, unpacked, disturbed, losses>>,
         \/ copies' = copies
         \/ /\ pc[t] \in Working
            /\ \A c \in Files \X Versions : c # MyCopy(t) => copies'[c] = copies[c],
         pkg' # None, pc[t] # "relink",
         \/ pc[t] \in Before /\ place \in Before
         \/ pc[t] \in Reading /\ place \in Reading \cup {"finish"}
         \/ pc[t] \in Working /\ place \in Working,
         place \in Copied /\ (unpacked[Version(t)] <= 1 \/ Undisturbed(t))
           => copies'[MyCopy(t)] = mine[t],
         place = "finish" => mine[t] \in Undescribed
  PROVE  InstallerInv'
<1>0. Typed /\ LocalsFit
  BY DEF InstallerInv
<1>1. pc'[t] = place /\ \A u \in Uploaders \ {t} : pc'[u] = pc[u]
  BY <1>0, GoEffect
<1>2. Active(t)
  BY DEF Active, Before, Reading, Working
<1>3. \A u \in Uploaders : Version(u)' = Version(u) /\ MyCopy(u)' = MyCopy(u)
  BY DEF Version, MyCopy
<1>4. LocalsFit'
  BY <1>0, <1>1 DEF LocalsFit, Before, Reading, Working
<1>5. Counted'
  BY <1>1, <1>3 DEF InstallerInv, Counted, Pointers, Before, Reading, Working
<1>6. CopyIsWhole' /\ PointersWhole'
  <2>1. CASE copies' = copies
    BY <1>1, <1>3, <2>1 DEF InstallerInv, CopyIsWhole, PointersWhole, Pointers,
       Whole, losses
  <2>2. CASE copies' # copies
    BY <1>1, <1>3, <2>2, OthersKeepCopies DEF CopyIsWhole, losses
  <2> QED
    BY <2>1, <2>2
<1>7. AloneGetsOn'
  <2>1. \A u \in Uploaders \ {t} : ~Undisturbed(u)'
    BY <1>1, <1>2, OthersGetOn
  <2>2. SUFFICES ASSUME Undisturbed(t)'
                 PROVE  /\ \A u \in Uploaders \ {t} : ~Active(u)'
                        /\ place \in Copied => copies'[MyCopy(t)] = mine[t]
                        /\ place \in Working => \A f \in Files : f < idx[t] => InPlace(t, f)'
                        /\ place = "finish" => mine[t] \in Undescribed
    BY <1>1, <1>3, <2>1 DEF AloneGetsOn
  <2>3. Undisturbed(t)
    BY <1>2, <2>2 DEF Undisturbed
  <2>4. \A u \in Uploaders \ {t} : ~Active(u)'
    BY <1>1, <2>3 DEF InstallerInv, AloneGetsOn, Active
  <2>5. ASSUME place \in Working, NEW f \in Files, f < idx[t] PROVE InPlace(t, f)'
    <3>1. pc[t] \in Working
      BY <2>5 DEF Before, Reading, Working
    <3>2. InPlace(t, f)
      BY <2>3, <2>5, <3>1 DEF InstallerInv, AloneGetsOn
    <3>3. <<f, Version(t)>> \in Files \X Versions /\ <<f, Version(t)>> # MyCopy(t)
      BY <1>0, <2>5, <3>1, WorksOn, PackagesAssumption DEF MyCopy, Files, LocalsFit
    <3> QED
      BY <1>3, <3>2, <3>3 DEF InPlace
  <2> QED
    BY <2>3, <2>4, <2>5
<1>8. MissingOnlyInBetween'
  BY <1>1 DEF InstallerInv, MissingOnlyInBetween, losses
<1> QED
  BY <1>4, <1>5, <1>6, <1>7, <1>8 DEF InstallerInv

LEMMA UploadStep ==
  ASSUME InstallerInv, Typed', NEW t \in Uploaders, Upload(t)
  PROVE  InstallerInv'
<1>0. Typed /\ LocalsFit
  BY DEF InstallerInv
<1>1. /\ pc[t] = "idle" /\ upload'[t] \in Packages
      /\ (pc'[t] = "receive" /\ pkg' = Torn) \/ (pc'[t] = "makeTmp" /\ pkg' = pkg)
      /\ \A u \in Uploaders \ {t} : pc'[u] = pc[u] /\ upload'[u] = upload[u]
      /\ UNCHANGED <<copies, link, diskLink, mine, idx, unpacked, losses>>
  BY <1>0 DEF Upload, Go, Typed, cache
<1>2. \A u \in Uploaders : disturbed'[u] <=> IF u = t THEN Others(t) # {} ELSE disturbed[u] \/ Active(u)
  BY DEF Upload
<1>3. mine[t] = None /\ idx[t] = 0
  BY <1>0, <1>1 DEF LocalsFit, Reading, Working
<1>4. \A u \in Uploaders : Version(u)' = Version(u) /\ MyCopy(u)' = MyCopy(u)
  BY <1>1 DEF Version, MyCopy
<1>5. LocalsFit'
  BY <1>0, <1>1, <1>3, NoneIsNothing DEF LocalsFit, Reading, Working
<1>6. Counted'
  BY <1>1, <1>4 DEF InstallerInv, Counted, Pointers, Reading, Working
<1>7. CopyIsWhole' /\ PointersWhole'
  BY <1>1, <1>4 DEF InstallerInv, CopyIsWhole, PointersWhole, Pointers, Whole,
     Copied, losses
<1>8. AloneGetsOn'
  <2>1. \A u \in Uploaders \ {t} : ~Undisturbed(u)'
    BY <1>1, <1>2 DEF Undisturbed, Active
  <2>2. Undisturbed(t)' => \A u \in Uploaders \ {t} : ~Active(u)'
    BY <1>1, <1>2 DEF Undisturbed, Active, Others
  <2> QED
    BY <1>1, <1>3, <2>1, <2>2 DEF AloneGetsOn, Copied, Working
<1>9. MissingOnlyInBetween'
  BY <1>1 DEF InstallerInv, MissingOnlyInBetween, losses
<1> QED
  BY <1>5, <1>6, <1>7, <1>8, <1>9 DEF InstallerInv

LEMMA ExtractStep ==
  ASSUME InstallerInv, Typed', NEW t \in Uploaders, Extract(t)
  PROVE  InstallerInv'
<1>0. Typed /\ LocalsFit /\ pc[t] = "extract"
  BY DEF InstallerInv, Extract
<1>1. PICK p \in Readable(t) \ {Torn} :
        /\ mine' = [mine EXCEPT ![t] = p]
        /\ unpacked' = [unpacked EXCEPT ![VersionOf[p]] = @ + 1]
  BY DEF Extract
<1>2. p \in Packages /\ VersionOf[p] \in Versions /\ p # None
  BY <1>0, <1>1, NoneIsNothing DEF Readable, Typed, LocalsFit
<1>3. /\ mine'[t] = p /\ pc'[t] = "describe"
      /\ \A u \in Uploaders \ {t} : pc'[u] = pc[u] /\ mine'[u] = mine[u]
      /\ UNCHANGED <<disk, diskLink, upload, idx, disturbed, losses>>
  BY <1>0, <1>1 DEF Extract, Go, Typed, cache
<1>4. /\ unpacked'[VersionOf[p]] = unpacked[VersionOf[p]] + 1
      /\ \A v \in Versions \ {VersionOf[p]} : unpacked'[v] = unpacked[v]
      /\ \A v \in Versions : unpacked[v] \in Nat
  BY <1>0, <1>1, <1>2 DEF Typed
<1>5. /\ Version(t)' = VersionOf[p]
      /\ \A u \in Uploaders \ {t} : Version(u)' = Version(u) /\ MyCopy(u)' = MyCopy(u)
  BY <1>3 DEF Version, MyCopy
<1>6. /\ \A u \in Uploaders : mine[u] # None => Version(u) \in Versions
      /\ \A f \in Files : \A v \in Pointers(f) : v # None => v \in Versions
  BY <1>0, NoneIsNothing DEF Typed, Version, Pointers
<1>7. mine[t] = None /\ idx[t] = 0
  BY <1>0 DEF LocalsFit, Reading, Working
<1>8. UNCHANGED <<copies, link, pkg>> /\ \A f \in Files : Pointers(f)' = Pointers(f)
  BY <1>3 DEF disk, Pointers
<1>9. LocalsFit'
  BY <1>0, <1>2, <1>3, <1>7, <1>8 DEF LocalsFit, Reading, Working
<1>10. Counted'
  <2>1. \A f \in Files : \A v \in Pointers(f)' : v # None => unpacked'[v] >= 1
    BY <1>4, <1>6, <1>8 DEF InstallerInv, Counted
  <2>2. \A u \in Uploaders : mine'[u] # None => unpacked'[Version(u)'] >= 1
    BY <1>2, <1>3, <1>4, <1>5, <1>6 DEF InstallerInv, Counted
  <2>3. \A u, w \in Uploaders :
           u # w /\ mine'[u] # None /\ mine'[w] # None /\ Version(u)' = Version(w)'
             => unpacked'[Version(u)'] >= 2
    BY <1>2, <1>3, <1>4, <1>5, <1>6 DEF InstallerInv, Counted
  <2>4. \A u \in Uploaders, f \in Files :
           pc'[u] \in Reading \cup Working /\ Version(u)' \in Pointers(f)'
           /\ unpacked'[Version(u)'] <= 1 => f < idx'[u]
    <3> SUFFICES ASSUME NEW u \in Uploaders, NEW f \in Files,
                        pc'[u] \in Reading \cup Working, Version(u)' \in Pointers(f),
                        unpacked'[Version(u)'] <= 1
                 PROVE  f < idx'[u]
      BY <1>8
    <3>1. CASE u = t
      <4>1. VersionOf[p] \in Pointers(f) /\ unpacked[VersionOf[p]] >= 1
        BY <1>2, <1>5, <3>1, NoneIsNothing DEF InstallerInv, Counted
      <4> QED
        BY <1>2, <1>4, <1>5, <3>1, <4>1
    <3>2. CASE u # t
      <4>1. mine[u] # None /\ pc[u] \in Reading \cup Working /\ idx'[u] = idx[u]
        BY <1>0, <1>3, <3>2 DEF LocalsFit
      <4>2. Version(u) \in Versions /\ unpacked[Version(u)] <= 1
        BY <1>2, <1>4, <1>5, <1>6, <3>2, <4>1
      <4> QED
        BY <1>5, <3>2, <4>1, <4>2 DEF InstallerInv, Counted
    <3> QED
      BY <3>1, <3>2
  <2> QED
    BY <2>1, <2>2, <2>3, <2>4 DEF Counted
<1>11. CopyIsWhole'
  <2> SUFFICES ASSUME NEW u \in Uploaders, pc'[u] \in Copied, unpacked'[Version(u)'] <= 1
               PROVE  copies'[MyCopy(u)'] = mine'[u]
    BY DEF CopyIsWhole
  <2>1. u # t
    BY <1>3 DEF Copied
  <2>2. pc[u] \in Copied /\ mine[u] # None
    BY <1>0, <1>3, <2>1 DEF LocalsFit, Copied, Working
  <2>3. unpacked[Version(u)] <= 1
    BY <1>2, <1>4, <1>5, <1>6, <2>1, <2>2
  <2> QED
    BY <1>3, <1>5, <1>8, <2>1, <2>2, <2>3 DEF InstallerInv, CopyIsWhole
<1>12. PointersWhole'
  <2>1. \A f \in Files : \A v \in Pointers(f) :
          v # None /\ unpacked'[v] <= 1 => unpacked[v] <= 1
    BY <1>2, <1>4, <1>6
  <2> QED
    BY <1>3, <1>8, <2>1 DEF InstallerInv, PointersWhole, Whole, losses
<1>13. AloneGetsOn'
  <2>1. \A u \in Uploaders \ {t} : ~Undisturbed(u)'
    BY <1>0, <1>3, OthersGetOn DEF Active
  <2>2. Undisturbed(t)' => Undisturbed(t)
    BY <1>0, <1>3 DEF Undisturbed, Active
  <2>3. Undisturbed(t) => \A u \in Uploaders \ {t} : ~Active(u) /\ ~Active(u)'
    BY <1>3 DEF InstallerInv, AloneGetsOn, Active
  <2> QED
    BY <1>3, <2>1, <2>2, <2>3 DEF AloneGetsOn, Copied, Working
<1>14. MissingOnlyInBetween'
  BY <1>0, <1>3, <1>8 DEF InstallerInv, MissingOnlyInBetween, losses
<1> QED
  BY <1>9, <1>10, <1>11, <1>12, <1>13, <1>14 DEF InstallerInv

LEMMA CheckStep ==
  ASSUME InstallerInv, Typed', NEW t \in Uploaders, Check(t)
  PROVE  InstallerInv'
<1>0. Typed /\ LocalsFit /\ pc[t] = "check"
  BY DEF InstallerInv, Check
<1>1. /\ pc'[t] = "copy" /\ idx'[t] = 1 /\ mine[t] \notin Unsigned
      /\ \A u \in Uploaders \ {t} : pc'[u] = pc[u] /\ idx'[u] = idx[u]
      /\ UNCHANGED <<pkg, copies, link, diskLink, mine, upload, unpacked, disturbed,
                     losses>>
  BY <1>0 DEF Check, Go, Typed, disk, cache, history
<1>2. mine[t] # None /\ idx[t] = 0 /\ 1 \in Files
  BY <1>0, PackagesAssumption DEF LocalsFit, Reading, Working, Files
<1>3. \A u \in Uploaders : Version(u)' = Version(u)
  BY <1>1 DEF Version
<1>4. \A u \in Uploaders \ {t} : MyCopy(u)' = MyCopy(u)
  BY <1>1 DEF MyCopy
<1>5. LocalsFit'
  BY <1>0, <1>1, <1>2 DEF LocalsFit, Reading, Working
<1>6. Counted'
  <2>1. \A f \in Files : f < idx[t] => f < idx'[t]
    BY <1>1, <1>2 DEF Files
  <2> QED
    BY <1>0, <1>1, <1>3, <2>1 DEF InstallerInv, Counted, Pointers, Reading, Working
<1>7. CopyIsWhole' /\ PointersWhole'
  BY <1>1, <1>3, <1>4 DEF InstallerInv, CopyIsWhole, PointersWhole, Pointers, Whole,
     Copied, losses
<1>8. AloneGetsOn'
  <2>1. \A u \in Uploaders \ {t} : ~Undisturbed(u)'
    BY <1>0, <1>1, OthersGetOn DEF Active
  <2>2. Undisturbed(t)' => Undisturbed(t)
    BY <1>0, <1>1 DEF Undisturbed, Active
  <2>3. \A f \in Files : ~(f < idx'[t])
    BY <1>1 DEF Files
  <2> QED
    BY <1>1, <2>1, <2>2, <2>3 DEF InstallerInv, AloneGetsOn, Active, Copied
<1>9. MissingOnlyInBetween'
  BY <1>0, <1>1 DEF InstallerInv, MissingOnlyInBetween, losses
<1> QED
  BY <1>5, <1>6, <1>7, <1>8, <1>9 DEF InstallerInv

LEMMA UnlinkStep ==
  ASSUME InstallerInv, Typed', NEW t \in Uploaders, Unlink(t)
  PROVE  InstallerInv'
<1>0. Typed /\ LocalsFit /\ pc[t] = "unlink"
  BY DEF InstallerInv, Unlink
<1>1. /\ pc'[t] = "relink" /\ \A u \in Uploaders \ {t} : pc'[u] = pc[u]
      /\ UNCHANGED <<pkg, copies, diskLink, mine, idx, upload, unpacked, disturbed, losses>>
  BY <1>0 DEF Unlink, Go, Typed, cache, history
<1>2. idx[t] \in Files /\ \A f \in Files : link'[f] = link[f] \/ (link'[f] = None /\ f = idx[t])
  BY <1>0 DEF Unlink, Typed, LocalsFit, Working
<1>3. \A u \in Uploaders : Version(u)' = Version(u) /\ MyCopy(u)' = MyCopy(u)
  BY <1>1 DEF Version, MyCopy
<1>4. LocalsFit'
  BY <1>0, <1>1 DEF LocalsFit, Reading, Working
<1>5. Counted'
  <2>1. \A u \in Uploaders : pc[u] \in Reading \cup Working => Version(u) # None
    BY <1>0, WorksOn, NoneIsNothing
  <2>2. \A u \in Uploaders : pc'[u] \in Reading \cup Working => pc[u] \in Reading \cup Working
    BY <1>0, <1>1 DEF Working
  <2>3. \A f \in Files : \A v \in Pointers(f)' : v # None => v \in Pointers(f)
    BY <1>1, <1>2 DEF Pointers
  <2>4. \A u \in Uploaders, f \in Files :
           pc'[u] \in Reading \cup Working /\ Version(u)' \in Pointers(f)'
           /\ unpacked'[Version(u)'] <= 1 => f < idx'[u]
    BY <1>1, <1>3, <2>1, <2>2, <2>3 DEF InstallerInv, Counted
  <2>5. \A f \in Files : \A v \in Pointers(f)' : v # None => unpacked'[v] >= 1
    BY <1>1, <2>3 DEF InstallerInv, Counted
  <2> QED
    BY <1>1, <1>3, <2>4, <2>5 DEF InstallerInv, Counted
<1>6. CopyIsWhole'
  BY <1>0, <1>1, <1>3 DEF InstallerInv, CopyIsWhole, Copied
<1>7. PointersWhole'
  <2>1. \A f \in Files : \A v \in Pointers(f)' : v # None => v \in Pointers(f)
    BY <1>1, <1>2 DEF Pointers
  <2>2. UNCHANGED <<copies, unpacked, lost>>
    BY <1>1 DEF losses
  <2> QED
    BY <2>1, <2>2 DEF InstallerInv, PointersWhole, Whole
<1>8. AloneGetsOn'
  <2>1. \A u \in Uploaders \ {t} : ~Undisturbed(u)'
    BY <1>0, <1>1, OthersGetOn DEF Active
  <2>2. Undisturbed(t)' => Undisturbed(t)
    BY <1>0, <1>1 DEF Undisturbed, Active
  <2>3. ASSUME Undisturbed(t), NEW f \in Files, f < idx[t] PROVE InPlace(t, f)'
    <3>1. InPlace(t, f)
      BY <1>0, <2>3 DEF InstallerInv, AloneGetsOn, Working
    <3>2. f # idx[t]
      BY <1>2, <2>3, PackagesAssumption DEF Files
    <3> QED
      BY <1>1, <1>2, <1>3, <3>1, <3>2 DEF InPlace
  <2> QED
    BY <1>0, <1>1, <1>3, <2>1, <2>2, <2>3 DEF InstallerInv, AloneGetsOn, Active, Copied
<1>9. MissingOnlyInBetween'
  BY <1>0, <1>1, <1>2 DEF InstallerInv, MissingOnlyInBetween, losses
<1> QED
  BY <1>4, <1>5, <1>6, <1>7, <1>8, <1>9 DEF InstallerInv

LEMMA RelinkStep ==
  ASSUME InstallerInv, Typed', NEW t \in Uploaders, Relink(t)
  PROVE  InstallerInv'
<1>0. Typed /\ LocalsFit /\ pc[t] = "relink"
  BY DEF InstallerInv, Relink
<1>1. /\ idx[t] \in Files /\ Version(t) \in Versions /\ mine[t] \in Packages
      /\ mine[t] \notin Unsigned /\ Version(t) # None
  BY <1>0, WorksOn, NoneIsNothing DEF LocalsFit, Working
<1>2. /\ link'[idx[t]] = Version(t)
      /\ \A f \in Files \ {idx[t]} : link'[f] = link[f]
      /\ \A u \in Uploaders \ {t} : pc'[u] = pc[u] /\ idx'[u] = idx[u]
      /\ UNCHANGED <<pkg, copies, diskLink, mine, upload, unpacked, disturbed, lost>>
      /\ abandoned' = abandoned \ {idx[t]}
  BY <1>0, <1>1 DEF Relink, Go, Typed, Version, cache
<1>3. \/ pc'[t] = "copy" /\ idx[t] < FileCount /\ idx'[t] = idx[t] + 1
      \/ pc'[t] = "finish" /\ idx[t] = FileCount /\ idx'[t] = idx[t]
  BY <1>0, <1>1, PackagesAssumption DEF Relink, Go, Typed, Files
<1>4. \A u \in Uploaders : Version(u)' = Version(u)
  BY <1>2 DEF Version
<1>5. \A u \in Uploaders \ {t} : MyCopy(u)' = MyCopy(u)
  BY <1>2 DEF MyCopy
<1>6. \A f \in Files : f < idx[t] \/ f = idx[t] =>
        (pc'[t] = "copy" => f < idx'[t])
  BY <1>1, <1>3, PackagesAssumption DEF Files
<1>13. \A f \in Files : \A v \in Pointers(f)' :
         v \in Pointers(f) \/ (f = idx[t] /\ v = Version(t))
  BY <1>2 DEF Pointers
<1>7. LocalsFit'
  <2>1. pc'[t] = "copy" => idx'[t] \in Files
    BY <1>1, <1>3, PackagesAssumption DEF Files
  <2> QED
    BY <1>0, <1>1, <1>2, <1>3, <2>1 DEF LocalsFit, Reading, Working
<1>8. Counted'
  <2>1. \A f \in Files : \A v \in Pointers(f)' : v # None => unpacked'[v] >= 1
    BY <1>0, <1>1, <1>2, <1>13, NoneIsNothing DEF InstallerInv, Counted
  <2>2. \A u, w \in Uploaders :
           u # w /\ mine'[u] # None /\ mine'[w] # None /\ Version(u)' = Version(w)'
             => unpacked'[Version(u)'] >= 2
    BY <1>2, <1>4 DEF InstallerInv, Counted
  <2>3. \A u \in Uploaders : mine'[u] # None => unpacked'[Version(u)'] >= 1
    BY <1>2, <1>4 DEF InstallerInv, Counted
  <2>4. \A u \in Uploaders, f \in Files :
           pc'[u] \in Reading \cup Working /\ Version(u)' \in Pointers(f)'
           /\ unpacked'[Version(u)'] <= 1 => f < idx'[u]
    <3> SUFFICES ASSUME NEW u \in Uploaders, NEW f \in Files,
                        pc'[u] \in Reading \cup Working, Version(u) \in Pointers(f)',
                        unpacked[Version(u)] <= 1
                 PROVE  f < idx'[u]
      BY <1>2, <1>4
    <3>1. CASE u = t
      <4>1. pc'[t] = "copy"
        BY <1>3, <3>1 DEF Reading, Working
      <4>2. f = idx[t] \/ f < idx[t]
        BY <1>0, <1>2, <1>13, <3>1 DEF InstallerInv, Counted, Working
      <4> QED
        BY <1>6, <3>1, <4>1, <4>2
    <3>2. CASE u # t
      <4>1. mine[u] # None /\ mine[t] # None /\ pc[u] \in Reading \cup Working
        BY <1>0, <1>1, <1>2, <3>2, NoneIsNothing DEF LocalsFit
      <4>2. Version(u) # Version(t)
        <5>1. unpacked[Version(t)] \in Nat
          BY <1>0, <1>1 DEF Typed
        <5>2. Version(u) = Version(t) => unpacked[Version(t)] >= 2
          BY <3>2, <4>1 DEF InstallerInv, Counted
        <5> QED
          BY <5>1, <5>2
      <4> QED
        BY <1>2, <1>13, <3>2, <4>1, <4>2 DEF InstallerInv, Counted
    <3> QED
      BY <3>1, <3>2
  <2> QED
    BY <2>1, <2>2, <2>3, <2>4 DEF Counted
<1>9. CopyIsWhole'
  BY <1>2, <1>3, <1>4, <1>5 DEF InstallerInv, CopyIsWhole, Copied
<1>10. PointersWhole'
  <2>1. unpacked[Version(t)] <= 1 => copies[<<idx[t], Version(t)>>] = mine[t]
    BY <1>0 DEF InstallerInv, CopyIsWhole, Copied, MyCopy, Version
  <2>2. VersionOf[mine[t]] = Version(t)
    BY DEF Version
  <2> QED
    BY <1>1, <1>2, <1>13, <2>1, <2>2 DEF InstallerInv, PointersWhole, Whole
<1>11. AloneGetsOn'
  <2>1. \A u \in Uploaders \ {t} : ~Undisturbed(u)'
    BY <1>0, <1>2, OthersGetOn DEF Active
  <2>2. Undisturbed(t)' => Undisturbed(t)
    BY <1>0, <1>2 DEF Undisturbed, Active
  <2>3. ASSUME Undisturbed(t), NEW f \in Files, f < idx[t] \/ f = idx[t]
        PROVE  InPlace(t, f)'
    <3>1. CASE f = idx[t]
      <4>1. copies[MyCopy(t)] = mine[t]
        BY <1>0, <2>3 DEF InstallerInv, AloneGetsOn, Copied
      <4> QED
        BY <1>2, <1>4, <3>1, <4>1 DEF InPlace, MyCopy, Version
    <3>2. CASE f # idx[t]
      <4>1. InPlace(t, f)
        BY <1>0, <2>3, <3>2 DEF InstallerInv, AloneGetsOn, Working
      <4> QED
        BY <1>2, <1>4, <3>2, <4>1 DEF InPlace
    <3> QED
      BY <3>1, <3>2
  <2>4. \A f \in Files : pc'[t] = "finish" \/ f < idx'[t] => f < idx[t] \/ f = idx[t]
    BY <1>1, <1>3, PackagesAssumption DEF Files
  <2>5. SUFFICES ASSUME Undisturbed(t)
                 PROVE  /\ \A u \in Uploaders \ {t} : ~Active(u)'
                        /\ \A f \in Files : pc'[t] = "finish" \/ f < idx'[t] => InPlace(t, f)'
    BY <1>3, <2>1, <2>2 DEF AloneGetsOn, Copied, Working
  <2>6. \A u \in Uploaders \ {t} : ~Active(u)'
    BY <1>2, <2>5 DEF InstallerInv, AloneGetsOn, Active
  <2> QED
    BY <2>3, <2>4, <2>5, <2>6
<1>12. MissingOnlyInBetween'
  BY <1>1, <1>2 DEF InstallerInv, MissingOnlyInBetween
<1> QED
  BY <1>7, <1>8, <1>9, <1>10, <1>11, <1>12 DEF InstallerInv

LEMMA WriteBackStep ==
  ASSUME InstallerInv, Typed', WriteBack PROVE InstallerInv'
<1>1. UNCHANGED <<pkg, copies, link, pc, upload, mine, idx, unpacked, disturbed, losses>>
  BY DEF WriteBack, disk, threads, history
<1>2. \A f \in Files : \A v \in Pointers(f)' : v \in Pointers(f)
  BY <1>1 DEF WriteBack, Pointers
<1>3. \A u \in Uploaders : Version(u)' = Version(u) /\ MyCopy(u)' = MyCopy(u)
  BY <1>1 DEF Version, MyCopy
<1>4. LocalsFit'
  BY <1>1 DEF InstallerInv, LocalsFit
<1>5. Counted'
  BY <1>1, <1>2, <1>3 DEF InstallerInv, Counted
<1>6. CopyIsWhole' /\ PointersWhole'
  BY <1>1, <1>2, <1>3 DEF InstallerInv, CopyIsWhole, PointersWhole, Whole, losses
<1>7. AloneGetsOn'
  <2>1. \A u \in Uploaders : (Undisturbed(u)' <=> Undisturbed(u)) /\ (Active(u)' <=> Active(u))
    BY <1>1 DEF Undisturbed, Active
  <2>2. \A u \in Uploaders, f \in Files : InPlace(u, f)' <=> InPlace(u, f)
    BY <1>1, <1>3 DEF InPlace
  <2> QED
    BY <1>1, <1>3, <2>1, <2>2 DEF InstallerInv, AloneGetsOn
<1>8. MissingOnlyInBetween'
  BY <1>1 DEF InstallerInv, MissingOnlyInBetween, losses
<1> QED
  BY <1>4, <1>5, <1>6, <1>7, <1>8 DEF InstallerInv

(* Whatever ends all threads and loses at most copies it records as lost.  *)
LEMMA EndStep ==
  ASSUME InstallerInv, Typed', AllEnd, diskLink' = diskLink,
         \A f \in Files : Pointers(f)' \subseteq Pointers(f),
         lost \subseteq lost',
         \A c \in (Files \X Versions) \ lost' : copies'[c] = copies[c],
         MissingOnlyInBetween'
  PROVE  InstallerInv'
<1>1. /\ \A u \in Uploaders : pc'[u] = "idle" /\ mine'[u] = None /\ idx'[u] = 0
      /\ unpacked' = unpacked
  BY DEF AllEnd
<1>2. LocalsFit'
  BY <1>1 DEF LocalsFit, Reading, Working
<1>3. Counted'
  BY <1>1 DEF InstallerInv, Counted, Reading, Working
<1>4. CopyIsWhole' /\ AloneGetsOn'
  BY <1>1 DEF CopyIsWhole, AloneGetsOn, Undisturbed, Active, Copied
<1>5. PointersWhole'
  <2> SUFFICES ASSUME NEW f \in Files, NEW v \in Pointers(f)', v # None, unpacked[v] <= 1,
                      <<f, v>> \notin lost'
               PROVE  Whole(f, v)'
    BY <1>1 DEF PointersWhole
  <2>1. v \in Pointers(f) /\ v \in Versions /\ <<f, v>> \notin lost
    BY DEF InstallerInv, Typed, Pointers
  <2>2. Whole(f, v) /\ copies'[<<f, v>>] = copies[<<f, v>>]
    BY <2>1 DEF InstallerInv, PointersWhole
  <2> QED
    BY <2>2 DEF Whole
<1> QED
  BY <1>2, <1>3, <1>4, <1>5 DEF InstallerInv

LEMMA DeathStep ==
  ASSUME InstallerInv, Typed', ProcessDies PROVE InstallerInv'
<1>1. /\ AllEnd /\ UNCHANGED <<copies, link, diskLink, lost>>
      /\ abandoned' = Abandoned(Uploaders)
  BY DEF ProcessDies, disk, cache
<1>2. MissingOnlyInBetween'
  BY <1>1 DEF InstallerInv, MissingOnlyInBetween, Abandoned
<1> QED
  BY <1>1, <1>2, EndStep DEF Pointers

LEMMA PowerCutStep ==
  ASSUME InstallerInv, Typed', PowerCut PROVE InstallerInv'
<1>1. /\ AllEnd /\ link' = diskLink /\ diskLink' = diskLink
      /\ abandoned' = {f \in Files : diskLink[f] = None}
  BY DEF PowerCut
<1>2. /\ lost \subseteq lost'
      /\ \A c \in (Files \X Versions) \ lost' : copies'[c] = copies[c]
  BY DEF PowerCut
<1>3. MissingOnlyInBetween'
  BY <1>1 DEF MissingOnlyInBetween
<1> QED
  BY <1>1, <1>2, <1>3, EndStep DEF Pointers

LEMMA InstallerInitially == Init => InstallerInv
<1> SUFFICES ASSUME Init PROVE InstallerInv
  OBVIOUS
<1> DEFINE first == VersionOf[FirstPackage]
<1>1. /\ \A u \in Uploaders : pc[u] = "idle" /\ mine[u] = None /\ idx[u] = 0
      /\ \A f \in Files : Pointers(f) = {first} /\ link[f] = first /\ copies[<<f, first>>] = FirstPackage
      /\ unpacked[first] = 1 /\ first \in Versions /\ first # None
      /\ FirstPackage \in Packages \ Unsigned
  BY NoneIsNothing, PackagesAssumption DEF Init, Pointers
<1> HIDE DEF first
<1>2. LocalsFit /\ Counted /\ CopyIsWhole /\ AloneGetsOn
  <2>1. LocalsFit
    BY <1>1 DEF LocalsFit, Reading, Working
  <2>2. ASSUME NEW f \in Files, NEW v \in Pointers(f) PROVE unpacked[v] >= 1
    <3>1. Pointers(f) = {first} /\ unpacked[first] = 1
      BY <1>1
    <3>2. v = first
      BY <3>1
    <3> QED
      BY <3>1, <3>2
  <2>3. Counted
    BY <1>1, <2>2 DEF Counted, Reading, Working
  <2> QED
    BY <1>1, <2>1, <2>3 DEF CopyIsWhole, AloneGetsOn, Undisturbed, Active, Copied
<1>3. PointersWhole /\ MissingOnlyInBetween
  <2>1. VersionOf[FirstPackage] = first
    BY DEF first
  <2> QED
    BY <1>1, <2>1 DEF PointersWhole, Whole, MissingOnlyInBetween
<1> QED
  BY <1>2, <1>3, TypedInitially DEF InstallerInv

LEMMA InstallerStep == InstallerInv /\ [Next]_vars => InstallerInv'
<1>1. CASE UNCHANGED vars
  <2>1. UNCHANGED <<pkg, copies, link, cache, pc, upload, mine, idx, unpacked, disturbed, losses>>
    BY <1>1 DEF vars, disk, threads, history
  <2>2. \A u \in Uploaders : Version(u)' = Version(u) /\ MyCopy(u)' = MyCopy(u)
    BY <2>1 DEF Version, MyCopy
  <2>7. \A f \in Files : Pointers(f)' = Pointers(f)
    BY <2>1 DEF Pointers, cache
  <2>3. InstallerInv => Typed' /\ LocalsFit'
    BY <2>1 DEF InstallerInv, Typed, LocalsFit, cache, losses
  <2>4. InstallerInv => Counted' /\ CopyIsWhole'
    BY <2>1, <2>2, <2>7 DEF InstallerInv, Counted, CopyIsWhole
  <2>6. AloneGetsOn => AloneGetsOn'
    <3>1. \A u \in Uploaders : (Undisturbed(u)' <=> Undisturbed(u)) /\ (Active(u)' <=> Active(u))
      BY <2>1 DEF Undisturbed, Active
    <3>2. \A u \in Uploaders, f \in Files : InPlace(u, f)' <=> InPlace(u, f)
      BY <2>1, <2>2 DEF InPlace
    <3> QED
      BY <2>1, <2>2, <3>1, <3>2 DEF AloneGetsOn
  <2>5. InstallerInv => PointersWhole' /\ MissingOnlyInBetween'
    BY <2>1, <2>7 DEF InstallerInv, PointersWhole, Whole, MissingOnlyInBetween, losses
  <2> QED
    BY <2>3, <2>4, <2>5, <2>6 DEF InstallerInv
<1> SUFFICES ASSUME InstallerInv, Next PROVE InstallerInv'
  BY <1>1
<1>2. Typed' /\ Typed /\ LocalsFit
  BY TypedStep DEF InstallerInv
<1>3. CASE WriteBack
  BY <1>2, <1>3, WriteBackStep
<1>23. CASE ProcessDies
  BY <1>2, <1>23, DeathStep
<1>24. CASE PowerCut
  BY <1>2, <1>24, PowerCutStep
<1> SUFFICES ASSUME NEW t \in Uploaders, InstallStep(t) PROVE InstallerInv'
  BY <1>3, <1>23, <1>24 DEF Next
<1>4. CASE Upload(t)
  BY <1>2, <1>4, UploadStep
<1>5. CASE Receive(t)
  <2>1. /\ pc[t] = "receive" /\ Go(t, "makeTmp") /\ pkg' \in {upload[t], Torn} /\ copies' = copies
        /\ UNCHANGED <<link, diskLink, upload, mine, idx, unpacked, disturbed, losses>>
    BY <1>5 DEF Receive, cache, history
  <2>2. pkg' # None
    BY <1>2, <2>1, NoneIsNothing DEF LocalsFit
  <2> QED
    BY <1>2, <2>1, <2>2, GoStep DEF Places, Before, Copied
<1>6. CASE MakeTmp(t)
  <2>1. /\ pc[t] = "makeTmp" /\ Go(t, "extract") /\ copies' = copies /\ pkg' = pkg
        /\ UNCHANGED <<link, diskLink, upload, mine, idx, unpacked, disturbed, losses>>
    BY <1>6 DEF MakeTmp, cache, history
  <2>2. pkg # None
    BY <1>6 DEF MakeTmp
  <2> QED
    BY <1>2, <2>1, <2>2, GoStep DEF Places, Before, Copied
<1>7. CASE Extract(t)
  BY <1>2, <1>7, ExtractStep
<1>8. CASE ReadDesc(t)
  <2>1. PICK place \in {"check", "finish"} :
          /\ pc[t] = "describe" /\ Go(t, place) /\ copies' = copies /\ pkg' = pkg
          /\ place = "finish" => mine[t] \in Undescribed
          /\ UNCHANGED <<link, diskLink, upload, mine, idx, unpacked, disturbed, losses>>
    BY <1>8 DEF ReadDesc, disk, cache, history
  <2>2. pkg # None
    BY <1>2, <2>1 DEF LocalsFit
  <2> QED
    BY <1>2, <2>1, <2>2, GoStep DEF Places, Reading, Copied
<1>9. CASE Check(t)
  BY <1>2, <1>9, CheckStep
<1>10. CASE CopyStarts(t)
  <2>1. /\ pc[t] = "copy" /\ Go(t, "copying") /\ pkg' = pkg
        /\ copies' = [copies EXCEPT ![MyCopy(t)] = Torn]
        /\ UNCHANGED <<link, diskLink, upload, mine, idx, unpacked, disturbed, losses>>
    BY <1>10 DEF CopyStarts, cache, history
  <2>2. \A c \in Files \X Versions : c # MyCopy(t) => copies'[c] = copies[c]
    BY <1>2, <2>1 DEF Typed
  <2>3. pkg # None
    BY <1>2, <2>1 DEF LocalsFit
  <2> QED
    BY <1>2, <2>1, <2>2, <2>3, GoStep DEF Places, Working, Copied
<1>11. CASE CopyEnds(t)
  <2>1. /\ pc[t] = "copying" /\ Go(t, "permissions") /\ pkg' = pkg
        /\ copies' = [copies EXCEPT ![MyCopy(t)] = mine[t]]
        /\ UNCHANGED <<link, diskLink, upload, mine, idx, unpacked, disturbed, losses>>
    BY <1>11 DEF CopyEnds, history
  <2>2. /\ \A c \in Files \X Versions : c # MyCopy(t) => copies'[c] = copies[c]
        /\ copies'[MyCopy(t)] = mine[t]
    BY <1>2, <2>1, WorksOn DEF Typed, Working
  <2>3. pkg # None
    BY <1>2, <2>1 DEF LocalsFit
  <2> QED
    BY <1>2, <2>1, <2>2, <2>3, GoStep DEF Places, Working
<1>12. CASE Permit(t)
  <2>1. /\ pc[t] = "permissions" /\ Go(t, "unlink") /\ pkg' = pkg /\ copies' = copies
        /\ UNCHANGED <<link, diskLink, upload, mine, idx, unpacked, disturbed, losses>>
    BY <1>12 DEF Permit, disk, cache, history
  <2>2. pkg # None
    BY <1>2, <2>1 DEF LocalsFit
  <2>3. unpacked[Version(t)] <= 1 \/ Undisturbed(t) => copies'[MyCopy(t)] = mine[t]
    BY <2>1 DEF InstallerInv, CopyIsWhole, AloneGetsOn, Copied
  <2> QED
    BY <1>2, <2>1, <2>2, <2>3, GoStep DEF Places, Working
<1>13. CASE Unlink(t)
  BY <1>2, <1>13, UnlinkStep
<1>14. CASE Relink(t)
  BY <1>2, <1>14, RelinkStep
<1>15. CASE MakeTmpFails(t)
  BY <1>2, <1>15, LeaveStep DEF MakeTmpFails, disk, Active
<1>16. CASE ExtractFails(t)
  BY <1>2, <1>16, LeaveStep DEF ExtractFails, disk, Active
<1>17. CASE CheckFails(t)
  BY <1>2, <1>17, LeaveStep DEF CheckFails, Active
<1>18. CASE CopyFails(t)
  BY <1>2, <1>18, LeaveStep DEF CopyFails, Active
<1>19. CASE CleanUpThrows(t)
  <2>1. /\ Return(t, "none") /\ Active(t) /\ UNCHANGED <<pkg, link>>
        /\ pc[t] # "permissions" => copies' = copies
    BY <1>19 DEF CleanUpThrows, Active
  <2>2. pc[t] = "permissions" =>
          \A c \in Files \X Versions : c # MyCopy(t) => copies'[c] = copies[c]
    BY <1>2, <1>19 DEF CleanUpThrows, Typed
  <2> QED
    BY <1>2, <2>1, <2>2, LeaveStep DEF Working
<1>20. CASE PermitFails(t)
  <2>1. \A c \in Files \X Versions : c # MyCopy(t) => copies'[c] = copies[c]
    BY <1>2, <1>20 DEF PermitFails, Typed
  <2> QED
    BY <1>2, <1>20, <2>1, LeaveStep DEF PermitFails, Active, Working
<1>21. CASE LinkThrows(t)
  BY <1>2, <1>21, LeaveStep DEF LinkThrows, disk, Active
<1>22. CASE Finish(t)
  BY <1>2, <1>22, LeaveStep DEF Finish, Active
<1> QED
  BY <1>4, <1>5, <1>6, <1>7, <1>8, <1>9, <1>10, <1>11, <1>12, <1>13, <1>14, <1>15,
     <1>16, <1>17, <1>18, <1>19, <1>20, <1>21, <1>22 DEF InstallStep

LEMMA InstallerInvariant == Spec => []InstallerInv
BY InstallerInitially, InstallerStep, PTL DEF Spec

-----------------------------------------------------------------------------
(* The temporary directories are those of the threads that hold one, and   *)
(* the ones a mess left behind; each upload makes one and unpacks once.    *)
Early == {"receive", "makeTmp"}
Holding == Places \ (Early \cup {"idle"})
At(places) == {t \in Uploaders : pc[t] \in places}

CountInv ==
    /\ tmpDirs \in Nat /\ mess \in BOOLEAN
    /\ reply \in [Uploaders -> {"none", "successful", "failed"}]
    /\ uploads \in 0 .. MaxUploads /\ crashes \in 0 .. MaxCrashes
    /\ IsFiniteSet(At(Early)) /\ IsFiniteSet(At(Before)) /\ IsFiniteSet(At(Holding))
    /\ Cardinality(At(Holding)) <= tmpDirs
    /\ ~mess => tmpDirs = Cardinality(At(Holding))
    /\ tmpDirs + Cardinality(At(Early)) <= uploads
    /\ \A v \in Versions : unpacked[v] + Cardinality(At(Before)) <= uploads + 1

(* How the number of threads at some places changes with a thread's step.  *)
Weight(place, places) == IF place \in places THEN 1 ELSE 0

LEMMA AtEffect ==
  ASSUME Typed, NEW t \in Uploaders, NEW place, pc' = [pc EXCEPT ![t] = place],
         NEW CONSTANT places, IsFiniteSet(At(places))
  PROVE  /\ IsFiniteSet(At(places)')
         /\ Cardinality(At(places)) \in Nat /\ Cardinality(At(places)') \in Nat
         /\ Cardinality(At(places)') + Weight(pc[t], places)
              = Cardinality(At(places)) + Weight(place, places)
<1>1. At(places)' = IF place \in places THEN At(places) \cup {t} ELSE At(places) \ {t}
  BY DEF At, Typed
<1>2. t \in At(places) <=> pc[t] \in places
  BY DEF At
<1>3. /\ IsFiniteSet(At(places) \cup {t}) /\ IsFiniteSet(At(places) \ {t})
      /\ Cardinality(At(places) \cup {t})
           = IF t \in At(places) THEN Cardinality(At(places)) ELSE Cardinality(At(places)) + 1
      /\ Cardinality(At(places) \ {t})
           = IF t \in At(places) THEN Cardinality(At(places)) - 1 ELSE Cardinality(At(places))
  BY FS_AddElement, FS_RemoveElement
<1>4. IsFiniteSet(At(places)')
  BY <1>1, <1>3
<1>5. Cardinality(At(places)) \in Nat /\ Cardinality(At(places)') \in Nat
  BY <1>4, FS_CardinalityType
<1> HIDE DEF At
<1>6. CASE place \in places
  BY <1>1, <1>2, <1>3, <1>5, <1>6 DEF Weight
<1>7. CASE place \notin places
  BY <1>1, <1>2, <1>3, <1>5, <1>7 DEF Weight
<1> QED
  BY <1>4, <1>5, <1>6, <1>7

(* A step that keeps the balance of directories and of unpackings.         *)
LEMMA CountStep ==
  ASSUME Typed, CountInv, NEW t \in Uploaders, NEW place, Typed',
         pc' = [pc EXCEPT ![t] = place],
         tmpDirs' \in Int, mess' \in BOOLEAN, mess => mess',
         reply' \in [Uploaders -> {"none", "successful", "failed"}],
         uploads' \in 0 .. MaxUploads, crashes' = crashes,
         tmpDirs' - tmpDirs >= Weight(place, Holding) - Weight(pc[t], Holding),
         ~mess' => tmpDirs' - tmpDirs = Weight(place, Holding) - Weight(pc[t], Holding),
         tmpDirs' + Weight(place, Early) - tmpDirs - Weight(pc[t], Early)
           <= uploads' - uploads,
         \A v \in Versions :
           unpacked'[v] + Weight(place, Before) - unpacked[v] - Weight(pc[t], Before)
             <= uploads' - uploads
  PROVE  CountInv'
<1> DEFINE held == Cardinality(At(Holding))   early == Cardinality(At(Early))
           before == Cardinality(At(Before))
<1>1. /\ IsFiniteSet(At(Holding)') /\ held \in Nat /\ held' \in Nat
      /\ held' + Weight(pc[t], Holding) = held + Weight(place, Holding)
  BY AtEffect DEF CountInv
<1>2. /\ IsFiniteSet(At(Early)') /\ early \in Nat /\ early' \in Nat
      /\ early' + Weight(pc[t], Early) = early + Weight(place, Early)
  BY AtEffect DEF CountInv
<1>3. /\ IsFiniteSet(At(Before)') /\ before \in Nat /\ before' \in Nat
      /\ before' + Weight(pc[t], Before) = before + Weight(place, Before)
  BY AtEffect DEF CountInv
<1>4. \A p, P : Weight(p, P) \in {0, 1}
  BY DEF Weight
<1>5. /\ tmpDirs \in Nat /\ uploads \in Nat /\ uploads' \in Nat
      /\ held <= tmpDirs /\ (~mess => tmpDirs = held) /\ tmpDirs + early <= uploads
      /\ \A v \in Versions : unpacked[v] + before <= uploads + 1
  BY PackagesAssumption DEF CountInv
<1>6. \A v \in Versions : unpacked[v] \in Nat /\ unpacked'[v] \in Nat
  BY DEF Typed
<1> HIDE DEF held, early, before
<1>7. held' <= tmpDirs' /\ tmpDirs' \in Nat
  BY <1>1, <1>4, <1>5
<1>8. ~mess' => tmpDirs' = held'
  <2>1. Weight(place, Holding) \in Int /\ Weight(pc[t], Holding) \in Int
    BY <1>4
  <2>2. SUFFICES ASSUME tmpDirs' - tmpDirs = Weight(place, Holding) - Weight(pc[t], Holding),
                        tmpDirs = held
                 PROVE  tmpDirs' = held'
    BY <1>5
  <2> QED
    BY <1>1, <1>5, <2>1, <2>2
<1>9. tmpDirs' + early' <= uploads'
  <2>1. Weight(place, Early) \in Int /\ Weight(pc[t], Early) \in Int
    BY <1>4
  <2>2. tmpDirs' + Weight(place, Early) - tmpDirs - Weight(pc[t], Early) <= uploads' - uploads
    OBVIOUS
  <2>3. tmpDirs + early <= uploads /\ tmpDirs \in Nat /\ uploads \in Nat /\ uploads' \in Nat
    BY <1>5
  <2>4. early' = early + Weight(place, Early) - Weight(pc[t], Early)
    BY <1>2, <2>1
  <2>5. tmpDirs' <= tmpDirs + uploads' - uploads - (Weight(place, Early) - Weight(pc[t], Early))
    BY <1>7, <2>1, <2>2, <2>3
  <2>6. early \in Nat
    BY <1>2
  <2> QED
    BY <1>7, <2>1, <2>3, <2>4, <2>5, <2>6
<1>10. \A v \in Versions : unpacked'[v] + before' <= uploads' + 1
  BY <1>3, <1>4, <1>5, <1>6
<1> QED
  BY <1>1, <1>2, <1>3, <1>7, <1>8, <1>9, <1>10 DEF CountInv, held, early, before

(* What each place weighs.                                                 *)
LEMMA Weights ==
  /\ \A place \in {"idle"} :
       Weight(place, Holding) = 0 /\ Weight(place, Early) = 0 /\ Weight(place, Before) = 0
  /\ \A place \in Early :
       Weight(place, Holding) = 0 /\ Weight(place, Early) = 1 /\ Weight(place, Before) = 1
  /\ \A place \in {"extract"} :
       Weight(place, Holding) = 1 /\ Weight(place, Early) = 0 /\ Weight(place, Before) = 1
  /\ \A place \in Reading \cup Working \cup {"finish"} :
       Weight(place, Holding) = 1 /\ Weight(place, Early) = 0 /\ Weight(place, Before) = 0
BY DEF Weight, Holding, Early, Before, Reading, Working, Places

(* A thread goes on among places of one weight.                            *)
LEMMA CountGoes ==
  ASSUME Typed, CountInv, Typed', NEW t \in Uploaders, NEW place, Go(t, place),
         \/ pc[t] \in Early /\ place \in Early
         \/ /\ pc[t] \in Reading \cup Working \cup {"finish"}
            /\ place \in Reading \cup Working \cup {"finish"},
         UNCHANGED <<tmpDirs, mess, reply, unpacked, uploads, crashes>>
  PROVE  CountInv'
<1>1. /\ Weight(place, Holding) = Weight(pc[t], Holding) /\ Weight(pc[t], Holding) \in Int
      /\ Weight(place, Early) = Weight(pc[t], Early) /\ Weight(pc[t], Early) \in Int
      /\ Weight(place, Before) = Weight(pc[t], Before) /\ Weight(pc[t], Before) \in Int
  BY Weights
<1>2. tmpDirs \in Int /\ uploads \in Int /\ \A v \in Versions : unpacked[v] \in Int
  BY DEF CountInv, Typed
<1>3. /\ tmpDirs' - tmpDirs = Weight(place, Holding) - Weight(pc[t], Holding)
      /\ tmpDirs' - tmpDirs >= Weight(place, Holding) - Weight(pc[t], Holding)
      /\ tmpDirs' + Weight(place, Early) - tmpDirs - Weight(pc[t], Early)
           <= uploads' - uploads
  BY <1>1, <1>2
<1>4. \A v \in Versions :
        unpacked'[v] + Weight(place, Before) - unpacked[v] - Weight(pc[t], Before)
          <= uploads' - uploads
  BY <1>1, <1>2
<1>5. /\ pc' = [pc EXCEPT ![t] = place] /\ tmpDirs' \in Int /\ mess' \in BOOLEAN
      /\ reply' \in [Uploaders -> {"none", "successful", "failed"}]
      /\ uploads' \in 0 .. MaxUploads
  BY <1>2 DEF CountInv, Go
<1> QED
  BY <1>3, <1>4, <1>5, CountStep

(* A handler returns, and with it goes its directory, or it leaves a mess. *)
LEMMA CountReturns ==
  ASSUME Typed, CountInv, Typed', NEW t \in Uploaders,
         NEW answer \in {"none", "successful", "failed"}, Return(t, answer),
         pc[t] # "idle", mess' \in BOOLEAN, mess => mess',
         \/ pc[t] = "makeTmp" /\ tmpDirs' = tmpDirs
         \/ pc[t] \in Reading \cup Working \cup {"finish"} /\ tmpDirs' = tmpDirs - 1
         \/ /\ pc[t] \in {"extract", "finish"} \cup Reading \cup Working
            /\ tmpDirs' = tmpDirs /\ mess'
  PROVE  CountInv'
<1>1. /\ Weight("idle", Holding) = 0 /\ Weight("idle", Early) = 0
      /\ Weight("idle", Before) = 0
  BY Weights
<1>2. /\ tmpDirs \in Int /\ uploads \in Int /\ unpacked' = unpacked /\ uploads' = uploads
      /\ crashes' = crashes /\ \A v \in Versions : unpacked[v] \in Int
  BY DEF CountInv, Typed, Return, counters
<1>3. /\ Weight(pc[t], Holding) \in {0, 1} /\ Weight(pc[t], Early) \in {0, 1}
      /\ Weight(pc[t], Before) \in {0, 1}
  BY DEF Weight
<1>4. /\ tmpDirs' \in Int /\ tmpDirs' - tmpDirs >= 0 - Weight(pc[t], Holding)
      /\ tmpDirs' - tmpDirs - Weight(pc[t], Early) <= 0
  <2>1. CASE pc[t] = "makeTmp" /\ tmpDirs' = tmpDirs
    BY <1>2, <1>3, <2>1
  <2>2. CASE pc[t] \in Reading \cup Working \cup {"finish"} /\ tmpDirs' = tmpDirs - 1
    BY <1>2, <2>2, Weights
  <2>3. CASE tmpDirs' = tmpDirs
    BY <1>2, <1>3, <2>3
  <2> QED
    BY <2>1, <2>2, <2>3
<1>5. ~mess' => tmpDirs' - tmpDirs = 0 - Weight(pc[t], Holding)
  <2>1. CASE pc[t] = "makeTmp" /\ tmpDirs' = tmpDirs
    <3>1. Weight(pc[t], Holding) = 0
      BY <2>1, Weights DEF Early
    <3> QED
      BY <1>2, <2>1, <3>1
  <2>2. CASE pc[t] \in Reading \cup Working \cup {"finish"} /\ tmpDirs' = tmpDirs - 1
    BY <1>2, <2>2, Weights
  <2> QED
    BY <2>1, <2>2
<1>6. /\ pc' = [pc EXCEPT ![t] = "idle"]
      /\ reply' \in [Uploaders -> {"none", "successful", "failed"}]
      /\ uploads' \in 0 .. MaxUploads
  BY <1>2 DEF CountInv, Return, Go
<1>7. \A v \in Versions :
        unpacked'[v] + Weight("idle", Before) - unpacked[v] - Weight(pc[t], Before)
          <= uploads' - uploads
  BY <1>1, <1>2, <1>3
<1>8. /\ tmpDirs' - tmpDirs >= Weight("idle", Holding) - Weight(pc[t], Holding)
      /\ tmpDirs' + Weight("idle", Early) - tmpDirs - Weight(pc[t], Early)
           <= uploads' - uploads
  BY <1>1, <1>2, <1>3, <1>4
<1>9. ~mess' => tmpDirs' - tmpDirs = Weight("idle", Holding) - Weight(pc[t], Holding)
  BY <1>1, <1>5
<1> QED
  BY <1>2, <1>4, <1>6, <1>7, <1>8, <1>9, CountStep

LEMMA CountUpload ==
  ASSUME Typed, CountInv, Typed', NEW t \in Uploaders, Upload(t) PROVE CountInv'
<1>0. PICK place \in {"receive", "makeTmp"} : pc' = [pc EXCEPT ![t] = place]
  BY DEF Upload, Go
<1>1. /\ Weight("idle", Holding) = 0 /\ Weight("idle", Early) = 0
      /\ Weight("idle", Before) = 0
      /\ Weight(place, Holding) = 0 /\ Weight(place, Early) = 1
      /\ Weight(place, Before) = 1
  BY DEF Weight, Holding, Early, Before
<1>2. /\ tmpDirs \in Int /\ uploads \in Int /\ \A v \in Versions : unpacked[v] \in Int
      /\ tmpDirs' = tmpDirs /\ unpacked' = unpacked /\ uploads' = uploads + 1
      /\ crashes' = crashes /\ mess' = mess /\ mess \in BOOLEAN
  BY DEF CountInv, Typed, Upload
<1>3. /\ pc[t] = "idle"
      /\ reply' \in [Uploaders -> {"none", "successful", "failed"}]
  BY DEF CountInv, Upload
<1>4. uploads' \in 0 .. MaxUploads
  BY PackagesAssumption DEF CountInv, Upload
<1>5. /\ tmpDirs' - tmpDirs >= Weight(place, Holding) - Weight(pc[t], Holding)
      /\ tmpDirs' - tmpDirs = Weight(place, Holding) - Weight(pc[t], Holding)
      /\ tmpDirs' + Weight(place, Early) - tmpDirs - Weight(pc[t], Early)
           <= uploads' - uploads
  BY <1>1, <1>2, <1>3
<1>6. \A v \in Versions :
        unpacked'[v] + Weight(place, Before) - unpacked[v] - Weight(pc[t], Before)
          <= uploads' - uploads
  BY <1>1, <1>2, <1>3
<1> QED
  BY <1>0, <1>2, <1>3, <1>4, <1>5, <1>6, CountStep

LEMMA CountMakeTmp ==
  ASSUME Typed, CountInv, Typed', NEW t \in Uploaders, MakeTmp(t) PROVE CountInv'
<1>1. /\ Weight("makeTmp", Holding) = 0 /\ Weight("makeTmp", Early) = 1
      /\ Weight("makeTmp", Before) = 1
      /\ Weight("extract", Holding) = 1 /\ Weight("extract", Early) = 0
      /\ Weight("extract", Before) = 1
  BY DEF Weight, Holding, Early, Before, Places
<1>2. /\ tmpDirs \in Int /\ uploads \in Int /\ \A v \in Versions : unpacked[v] \in Int
      /\ tmpDirs' = tmpDirs + 1 /\ unpacked' = unpacked /\ uploads' = uploads
      /\ crashes' = crashes /\ mess' \in BOOLEAN /\ (mess => mess') /\ tmpDirs' \in Int
      /\ uploads' \in 0 .. MaxUploads
      /\ reply' \in [Uploaders -> {"none", "successful", "failed"}]
  BY DEF CountInv, Typed, MakeTmp, history, counters
<1>3. pc' = [pc EXCEPT ![t] = "extract"] /\ pc[t] = "makeTmp"
  BY DEF MakeTmp, Go
<1>4. /\ tmpDirs' - tmpDirs >= Weight("extract", Holding) - Weight(pc[t], Holding)
      /\ tmpDirs' - tmpDirs = Weight("extract", Holding) - Weight(pc[t], Holding)
      /\ tmpDirs' + Weight("extract", Early) - tmpDirs - Weight(pc[t], Early)
           <= uploads' - uploads
  BY <1>1, <1>2, <1>3
<1>5. \A v \in Versions :
        unpacked'[v] + Weight("extract", Before) - unpacked[v] - Weight(pc[t], Before)
          <= uploads' - uploads
  BY <1>1, <1>2, <1>3
<1> QED
  BY <1>2, <1>3, <1>4, <1>5, CountStep

LEMMA CountExtract ==
  ASSUME Typed, CountInv, Typed', NEW t \in Uploaders, Extract(t) PROVE CountInv'
<1>1. /\ Weight("extract", Holding) = 1 /\ Weight("extract", Early) = 0
      /\ Weight("extract", Before) = 1
      /\ Weight("describe", Holding) = 1 /\ Weight("describe", Early) = 0
      /\ Weight("describe", Before) = 0
  BY DEF Weight, Holding, Early, Before, Places
<1>2. /\ tmpDirs \in Int /\ uploads \in Int /\ unpacked \in [Versions -> Nat]
      /\ tmpDirs' = tmpDirs /\ uploads' = uploads
      /\ crashes' = crashes /\ mess' = mess /\ mess \in BOOLEAN
      /\ uploads' \in 0 .. MaxUploads
      /\ reply' \in [Uploaders -> {"none", "successful", "failed"}]
  BY DEF CountInv, Typed, Extract, disk, counters
<1>3. pc' = [pc EXCEPT ![t] = "describe"] /\ pc[t] = "extract"
  BY DEF Extract, Go
<1>4. /\ tmpDirs' - tmpDirs >= Weight("describe", Holding) - Weight(pc[t], Holding)
      /\ tmpDirs' - tmpDirs = Weight("describe", Holding) - Weight(pc[t], Holding)
      /\ tmpDirs' + Weight("describe", Early) - tmpDirs - Weight(pc[t], Early)
           <= uploads' - uploads
  BY <1>1, <1>2, <1>3
<1>5. PICK p : unpacked' = [unpacked EXCEPT ![VersionOf[p]] = @ + 1]
  BY DEF Extract
<1>6. \A v \in Versions : unpacked'[v] \in Int /\ unpacked'[v] <= unpacked[v] + 1
  BY <1>2, <1>5
<1>7. \A v \in Versions :
        unpacked'[v] + Weight("describe", Before) - unpacked[v] - Weight(pc[t], Before)
          <= uploads' - uploads
  BY <1>1, <1>2, <1>3, <1>6
<1> QED
  BY <1>2, <1>3, <1>4, <1>7, CountStep

(* An end of all threads, which may take temporary directories along.      *)
LEMMA CountEnd ==
  ASSUME Typed, CountInv, AllEnd, tmpDirs' \in 0 .. tmpDirs PROVE CountInv'
<1>1. At(Holding)' = {} /\ At(Early)' = {} /\ At(Before)' = {}
  BY DEF AllEnd, At, Holding, Early, Before
<1>2. /\ IsFiniteSet({}) /\ Cardinality({}) = 0
      /\ Cardinality(At(Holding)) \in Nat /\ Cardinality(At(Early)) \in Nat
      /\ Cardinality(At(Before)) \in Nat
  BY FS_EmptySet, FS_CardinalityType DEF CountInv
<1>3. ~mess' => ~mess /\ tmpDirs' = 0
  <2> SUFFICES ASSUME ~mess' PROVE ~mess /\ tmpDirs' = 0
    OBVIOUS
  <2>1. ~mess /\ At(Holding) = {}
    BY DEF AllEnd, Active, At, Holding
  <2> QED
    BY <1>2, <2>1 DEF CountInv
<1>4. /\ unpacked' = unpacked /\ uploads' = uploads
      /\ reply' = [t \in Uploaders |-> "none"] /\ mess' \in BOOLEAN
  BY DEF AllEnd
<1>5. crashes' \in 0 .. MaxCrashes
  BY PackagesAssumption DEF AllEnd, CountInv
<1>6. /\ tmpDirs \in Nat /\ uploads \in 0 .. MaxUploads
      /\ tmpDirs + Cardinality(At(Early)) <= uploads
      /\ \A v \in Versions :
           unpacked[v] \in Nat /\ unpacked[v] + Cardinality(At(Before)) <= uploads + 1
  BY DEF CountInv, Typed
<1>7. tmpDirs' \in Nat /\ 0 <= tmpDirs' /\ tmpDirs' + 0 <= uploads
  <2>1. tmpDirs \in Nat /\ tmpDirs' \in Nat /\ tmpDirs' <= tmpDirs
    BY <1>6
  <2>2. uploads \in Nat
    BY <1>6, PackagesAssumption
  <2>3. \A n \in Nat : tmpDirs + n <= uploads => tmpDirs <= uploads
    BY <2>1, <2>2
  <2>4. tmpDirs <= uploads
    BY <1>2, <1>6, <2>3
  <2>5. \A m, n, k \in Nat : m <= n /\ n <= k => m <= k /\ 0 <= m /\ m + 0 <= k
    OBVIOUS
  <2> QED
    BY <2>1, <2>2, <2>4, <2>5
<1>8. \A v \in Versions : unpacked[v] + 0 <= uploads + 1
  BY <1>2, <1>6, PackagesAssumption
<1> HIDE DEF At
<1> QED
  BY <1>1, <1>2, <1>3, <1>4, <1>5, <1>6, <1>7, <1>8 DEF CountInv

LEMMA CountNext ==
  ASSUME Typed, LocalsFit, CountInv, Typed', [Next]_vars PROVE CountInv'
<1>1. CASE UNCHANGED vars
  BY <1>1 DEF vars, disk, threads, history, counters, CountInv, At
<1>2. CASE WriteBack
  BY <1>2 DEF WriteBack, disk, threads, history, counters, CountInv, At
<1>20. CASE ProcessDies \/ PowerCut
  <2>1. tmpDirs \in Nat
    BY DEF CountInv
  <2>2. AllEnd /\ tmpDirs' \in 0 .. tmpDirs
    BY <1>20, <2>1 DEF ProcessDies, PowerCut, disk
  <2> QED
    BY <2>2, CountEnd
<1> SUFFICES ASSUME NEW t \in Uploaders, InstallStep(t) PROVE CountInv'
  BY <1>1, <1>2, <1>20 DEF Next
<1>3. mess \in BOOLEAN
  BY DEF CountInv
<1>4. CASE Receive(t)
  BY <1>4, CountGoes DEF Receive, history, counters, Early
<1>5. CASE ReadDesc(t)
  BY <1>5, CountGoes DEF ReadDesc, disk, history, counters, Reading
<1>6. CASE Check(t)
  BY <1>6, CountGoes DEF Check, disk, history, counters, Reading, Working
<1>7. CASE CopyStarts(t)
  BY <1>7, CountGoes DEF CopyStarts, history, counters, Working
<1>8. CASE CopyEnds(t)
  BY <1>8, CountGoes DEF CopyEnds, history, counters, Working
<1>9. CASE Permit(t)
  BY <1>9, CountGoes DEF Permit, disk, history, counters, Working
<1>10. CASE Unlink(t)
  BY <1>10, CountGoes DEF Unlink, history, counters, Working
<1>11. CASE Relink(t)
  BY <1>11, CountGoes DEF Relink, history, counters, Working
<1>12. CASE MakeTmpFails(t)
  BY <1>3, <1>12, CountReturns DEF MakeTmpFails, disk
<1>13. CASE ExtractFails(t)
  BY <1>3, <1>13, CountReturns DEF ExtractFails, disk
<1>14. CASE CheckFails(t)
  BY <1>3, <1>14, CountReturns DEF CheckFails, Reading
<1>15. CASE CopyFails(t)
  BY <1>3, <1>15, CountReturns DEF CopyFails, Working
<1>16. CASE CleanUpThrows(t)
  BY <1>3, <1>16, CountReturns DEF CleanUpThrows, Reading, Working
<1>17. CASE PermitFails(t)
  BY <1>3, <1>17, CountReturns DEF PermitFails, Working
<1>18. CASE LinkThrows(t)
  BY <1>3, <1>18, CountReturns DEF LinkThrows, disk, Working
<1>19. CASE Finish(t)
  BY <1>3, <1>19, CountReturns DEF Finish
<1> QED
  BY <1>4, <1>5, <1>6, <1>7, <1>8, <1>9, <1>10, <1>11, <1>12, <1>13, <1>14, <1>15,
     <1>16, <1>17, <1>18, <1>19, CountUpload, CountMakeTmp, CountExtract DEF InstallStep

LEMMA CountInitially == Init => CountInv
<1> SUFFICES ASSUME Init PROVE CountInv
  OBVIOUS
<1>1. At(Holding) = {} /\ At(Early) = {} /\ At(Before) = {}
  BY DEF Init, At, Holding, Early, Before
<1>2. IsFiniteSet({}) /\ Cardinality({}) = 0
  BY FS_EmptySet
<1>3. /\ tmpDirs = 0 /\ uploads = 0 /\ crashes = 0 /\ mess \in BOOLEAN
      /\ \A v \in Versions : unpacked[v] \in {0, 1}
      /\ reply \in [Uploaders -> {"none", "successful", "failed"}]
  BY DEF Init
<1>4. 0 \in 0 .. MaxUploads /\ 0 \in 0 .. MaxCrashes
  BY PackagesAssumption
<1>5. 0 <= tmpDirs /\ tmpDirs + 0 <= uploads /\ \A v \in Versions : unpacked[v] + 0 <= uploads + 1
  BY <1>3
<1> HIDE DEF At
<1> QED
  BY <1>1, <1>2, <1>3, <1>4, <1>5 DEF CountInv

LEMMA CountsHold == Spec => []CountInv
<1>1. InstallerInv => Typed /\ LocalsFit
  BY DEF InstallerInv
<1>2. CountInv /\ InstallerInv /\ InstallerInv' /\ [Next]_vars => CountInv'
  BY CountNext DEF InstallerInv
<1> QED
  BY <1>1, <1>2, CountInitially, InstallerInvariant, PTL DEF Spec

-----------------------------------------------------------------------------
(* Whatever uploads overlap, fail or are cut off, the device holds         *)
(* packages or parts of them, there are never more temporary directories   *)
(* than there were uploads, and no version is unpacked more often.         *)
THEOREM InstallerTypeCorrect == Spec => []InstallerTypeOK
<1>1. ASSUME InstallerInv, CountInv PROVE InstallerTypeOK
  <2>1. tmpDirs \in 0 .. MaxUploads
    <3>1. Cardinality(At(Early)) \in Nat
      BY <1>1, FS_CardinalityType DEF CountInv
    <3> QED
      BY <1>1, <3>1, PackagesAssumption DEF CountInv
  <2>2. unpacked \in [Versions -> 0 .. MaxUploads + 1]
    <3>1. Cardinality(At(Before)) \in Nat
      BY <1>1, FS_CardinalityType DEF CountInv
    <3>2. \A v \in Versions : unpacked[v] \in 0 .. MaxUploads + 1
      BY <1>1, <3>1, PackagesAssumption DEF CountInv, InstallerInv, Typed
    <3> QED
      BY <1>1, <3>2 DEF InstallerInv, Typed
  <2> QED
    BY <1>1, <2>1, <2>2 DEF InstallerTypeOK, InstallerInv, Typed, CountInv
<1> QED
  BY <1>1, InstallerInvariant, CountsHold, PTL

(* Every way out of an installation removes its temporary directory, but   *)
(* for an archive that cannot be read, an exception, and the process's end. *)
THEOREM NothingIsLeftOver == Spec => []CleanWhenIdle
<1>1. ASSUME CountInv PROVE CleanWhenIdle
  <2>1. (\A t \in Uploaders : ~Active(t)) => At(Holding) = {}
    BY DEF Active, At, Holding
  <2> QED
    BY <1>1, <2>1, FS_EmptySet DEF CountInv, CleanWhenIdle
<1> QED
  BY <1>1, CountsHold, PTL

-----------------------------------------------------------------------------
(* What a link points at is whole, was checked and has the link's version, *)
(* whatever failed, threw, overlapped or was cut off, as long as that      *)
(* version was unpacked once and no power cut tore the copy before it was  *)
(* written back.                                                           *)
THEOREM LinksAreWhole == Spec => []LinkedIsWhole
<1>1. InstallerInv => LinkedIsWhole
  BY DEF InstallerInv, PointersWhole, Pointers, Whole, LinkedIsWhole
<1> QED
  BY <1>1, InstallerInvariant, PTL

(* A link is missing only between its removal and the creation of its      *)
(* successor, or where the two were torn apart for good: by an exception,  *)
(* the end of the process, or a power cut after only one was written back. *)
THEOREM LinksAreMissingInBetween == Spec => []MissingOnlyInBetween
<1>1. InstallerInv => MissingOnlyInBetween
  BY DEF InstallerInv
<1> QED
  BY <1>1, InstallerInvariant, PTL

(* An update nobody else's overlapped says "successful" only when each     *)
(* file of the package it unpacked is in place and linked to, but for a    *)
(* package without a description that can be read.                         *)
THEOREM SuccessIsTrue == Spec => SuccessIsComplete
<1>1. ASSUME InstallerInv, NEW t \in Uploaders, Finish(t), ~disturbed[t],
             mine[t] \notin Undescribed
      PROVE  Installed(mine[t])
  <2>1. pc[t] = "finish" /\ Undisturbed(t)
    BY <1>1 DEF Finish, Undisturbed, Active
  <2>2. \A f \in Files : InPlace(t, f)
    BY <1>1, <2>1 DEF InstallerInv, AloneGetsOn
  <2> QED
    BY <2>2 DEF Installed, InPlace, Version
<1>2. InstallerInv /\ [Next]_vars =>
        [\A t \in Uploaders :
           Finish(t) /\ ~disturbed[t] /\ mine[t] \notin Undescribed
             => Installed(mine[t])]_vars
  BY <1>1
<1> QED
  BY <1>2, InstallerInvariant, PTL DEF Spec, SuccessIsComplete
=============================================================================
