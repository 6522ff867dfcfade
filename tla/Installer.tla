----------------------------- MODULE Installer ------------------------------
(***************************************************************************)
(* An update over the air: WebServer::update stores the uploaded package   *)
(* under one fixed name and Package::InstallPackage unpacks it, checks it, *)
(* copies every file beside its predecessor under a name that ends with    *)
(* its version, and moves a symbolic link to it.  Both of the web server's *)
(* threads may do so at once, any step may fail or throw, and the process  *)
(* may die, or the power be cut, between any two operations.  Nothing is   *)
(* ever synced: what was copied and linked is in the kernel's cache until  *)
(* the kernel writes it back, and a power cut loses it.                    *)
(*                                                                         *)
(* A package is a model value: what matters of it is its version, whether  *)
(* its description can be read, and whether its files have the hashes the  *)
(* description names.  Every package brings the same files, in the same    *)
(* order, all with the package's version.                                  *)
(***************************************************************************)
EXTENDS Integers

CONSTANTS
    Uploaders,      \* the web server's threads
    FileCount,      \* files of a package
    Packages,
    VersionOf,      \* the version of each package
    Unsigned,       \* packages with a file whose hash is wrong
    Undescribed,    \* packages without a description that can be read
    FirstPackage,   \* what the device was delivered with
    None, Torn,     \* no such file; a file that need not be whole
    MaxUploads, MaxCrashes      \* bounds

Files == 1 .. FileCount
Versions == {VersionOf[p] : p \in Packages}

ASSUME PackagesAssumption ==
    /\ FileCount \in Nat \ {0}
    /\ VersionOf \in [Packages -> Versions]
    /\ Unsigned \subseteq Packages /\ Undescribed \subseteq Packages
    /\ FirstPackage \in Packages \ (Unsigned \cup Undescribed)
    /\ None # Torn /\ {None, Torn} \cap (Packages \cup Versions) = {}
    /\ MaxUploads \in Nat /\ MaxCrashes \in Nat

VARIABLES
    pkg,        \* /tmp/HydroGarden.pkg
    copies,     \* <name>.<version> in the destination directories
    link,       \* the version each file's link points at
    tmpDirs,    \* how many temporary directories there are
    written,    \* the copies whose content is only in the kernel's cache
    diskLink,   \* the links as a power cut would leave them
    pc,         \* where each thread is
    upload,     \* the package it was sent
    mine,       \* what it found in its temporary directory
    idx,        \* i + 1 in InstallPackage
    reply,      \* what it answered last
    unpacked,   \* history: how often a version was unpacked, or delivered
    disturbed,  \* history: whether another upload overlapped this one
    mess,       \* history: whether a temporary directory was left behind
    lost,       \* history: the copies a power cut has torn
    abandoned,  \* history: the files whose link was removed and not replaced
    uploads, crashes

disk == <<pkg, copies, link, tmpDirs>>
cache == <<written, diskLink>>
threads == <<pc, upload, mine, idx, reply>>
losses == <<lost, abandoned>>
history == <<unpacked, disturbed, mess, losses>>
counters == <<uploads, crashes>>
vars == <<disk, cache, threads, history, counters>>

Places == {"idle", "receive", "makeTmp", "extract", "describe", "check", "copy",
           "copying", "permissions", "unlink", "relink", "finish"}

InstallerTypeOK ==
    /\ pkg \in Packages \cup {None, Torn}
    /\ copies \in [Files \X Versions -> Packages \cup {None, Torn}]
    /\ link \in [Files -> Versions \cup {None}]
    /\ tmpDirs \in 0 .. MaxUploads
    /\ written \subseteq Files \X Versions
    /\ diskLink \in [Files -> Versions \cup {None}]
    /\ pc \in [Uploaders -> Places]
    /\ upload \in [Uploaders -> Packages \cup {None}]
    /\ mine \in [Uploaders -> Packages \cup {None}]
    /\ idx \in [Uploaders -> 0 .. FileCount]
    /\ reply \in [Uploaders -> {"none", "successful", "failed"}]
    /\ unpacked \in [Versions -> 0 .. MaxUploads + 1]
    /\ disturbed \in [Uploaders -> BOOLEAN] /\ mess \in BOOLEAN
    /\ lost \subseteq Files \X Versions /\ abandoned \subseteq Files
    /\ uploads \in 0 .. MaxUploads /\ crashes \in 0 .. MaxCrashes

Init ==
    /\ pkg = None
    /\ link = [f \in Files |-> VersionOf[FirstPackage]]
    /\ copies = [c \in Files \X Versions |->
                   IF c[2] = VersionOf[FirstPackage] THEN FirstPackage ELSE None]
    /\ tmpDirs = 0
    /\ written = {} /\ diskLink = link
    /\ pc = [t \in Uploaders |-> "idle"]
    /\ upload = [t \in Uploaders |-> None] /\ mine = [t \in Uploaders |-> None]
    /\ idx = [t \in Uploaders |-> 0] /\ reply = [t \in Uploaders |-> "none"]
    /\ unpacked = [v \in Versions |-> IF v = VersionOf[FirstPackage] THEN 1 ELSE 0]
    /\ disturbed = [t \in Uploaders |-> FALSE] /\ mess = FALSE
    /\ lost = {} /\ abandoned = {}
    /\ uploads = 0 /\ crashes = 0

-----------------------------------------------------------------------------
Active(t) == pc[t] # "idle"
Others(t) == {u \in Uploaders \ {t} : Active(u)}

Go(t, place) == pc' = [pc EXCEPT ![t] = place]

(* The copy this thread is at: copiedFiles[i].                             *)
MyCopy(t) == <<idx[t], VersionOf[mine[t]]>>

(* The links that are missing for good when these threads end here.        *)
Abandoned(ending) ==
    abandoned \cup
      {f \in Files : link[f] = None /\ \E t \in ending : pc[t] = "relink" /\ idx[t] = f}

(* The handler returns: an answer, or none when an exception ended it.     *)
Return(t, answer) ==
    /\ Go(t, "idle")
    /\ reply' = [reply EXCEPT ![t] = answer]
    /\ upload' = [upload EXCEPT ![t] = None]
    /\ mine' = [mine EXCEPT ![t] = None]
    /\ idx' = [idx EXCEPT ![t] = 0]
    /\ disturbed' = [disturbed EXCEPT ![t] = FALSE]
    /\ abandoned' = Abandoned({t})
    /\ UNCHANGED <<cache, unpacked, lost, counters>>

(* WebServer::update opens, and so truncates, the package file.  Whether   *)
(* it could is not looked at: if not, nothing is written, and the package  *)
(* of an earlier upload, or none, is there to be installed ...             *)
Upload(t) ==
    /\ pc[t] = "idle" /\ uploads < MaxUploads
    /\ \E p \in Packages : upload' = [upload EXCEPT ![t] = p]
    /\ uploads' = uploads + 1
    /\ \/ pkg' = Torn /\ Go(t, "receive")
       \/ pkg' = pkg /\ Go(t, "makeTmp")
    /\ reply' = [reply EXCEPT ![t] = "none"]
    /\ disturbed' = [u \in Uploaders |->
                       IF u = t THEN Others(t) # {} ELSE disturbed[u] \/ Active(u)]
    /\ UNCHANGED <<copies, link, tmpDirs, cache, mine, idx, unpacked, mess, losses,
                   crashes>>

(* ... it is written, again without a look at the result, whether the disk *)
(* is full or another thread writes over it, ...                           *)
Receive(t) ==
    /\ pc[t] = "receive"
    /\ pkg' \in {upload[t], Torn}
    /\ Go(t, "makeTmp")
    /\ UNCHANGED <<copies, link, tmpDirs, cache, upload, mine, idx, reply, history,
                   counters>>

(* ... and InstallPackage called: a temporary directory of its own, ...    *)
MakeTmp(t) ==
    /\ pc[t] = "makeTmp" /\ pkg # None
    /\ tmpDirs' = tmpDirs + 1
    /\ Go(t, "extract")
    /\ UNCHANGED <<pkg, copies, link, cache, upload, mine, idx, reply, history, counters>>

(* Mutation: it removes the directory that could not be created.           *)
MakeTmpFailsClean(t) ==
    /\ pc[t] = "makeTmp"
    /\ tmpDirs' = tmpDirs - 1
    /\ Return(t, "failed")
    /\ UNCHANGED <<pkg, copies, link, mess>>

(* ... there is no package, or create_directory fails or throws, ...       *)
MakeTmpFails(t) ==
    /\ pc[t] = "makeTmp"
    /\ \E answer \in {"failed", "none"} : Return(t, answer)
    /\ UNCHANGED <<disk, mess>>

(* ... uncompressFile, which may read while another thread writes, ...     *)
Readable(t) ==
    IF \E u \in Others(t) : pc[u] = "receive" THEN {pkg, Torn} ELSE {pkg}

Extract(t) ==
    /\ pc[t] = "extract"
    /\ \E p \in Readable(t) \ {Torn} :
        /\ mine' = [mine EXCEPT ![t] = p]
        /\ unpacked' = [unpacked EXCEPT ![VersionOf[p]] = @ + 1]
    /\ Go(t, "describe")
    /\ UNCHANGED <<disk, cache, upload, idx, reply, disturbed, mess, losses, counters>>

ExtractFails(t) ==      \* the temporary directory stays
    /\ pc[t] = "extract"
    /\ mess' = TRUE
    /\ Return(t, "failed")
    /\ UNCHANGED disk

(* ... readDesc, which turns what it cannot read into an empty one, ...    *)
ReadDesc(t) ==
    /\ pc[t] = "describe"
    /\ Go(t, IF mine[t] \in Undescribed THEN "finish" ELSE "check")
    /\ UNCHANGED <<disk, cache, upload, mine, idx, reply, history, counters>>

(* Mutation: the temporary directory is not removed.                       *)
CheckFailsDirty(t) ==
    /\ pc[t] = "check"
    /\ mine[t] \in Unsigned
    /\ Return(t, "failed")
    /\ UNCHANGED <<disk, mess>>

(* ... and the hashes of all files.                                        *)
CheckFails(t) ==
    /\ pc[t] = "check"
    /\ mine[t] \in Unsigned
    /\ tmpDirs' = tmpDirs - 1
    /\ Return(t, "failed")
    /\ UNCHANGED <<pkg, copies, link, mess>>

(* Mutation: the hashes are not compared.                                  *)
CheckNothing(t) ==
    /\ pc[t] = "check"
    /\ idx' = [idx EXCEPT ![t] = 1]
    /\ Go(t, "copy")
    /\ UNCHANGED <<disk, cache, upload, mine, reply, history, counters>>

Check(t) ==
    /\ pc[t] = "check"
    /\ mine[t] \notin Unsigned
    /\ idx' = [idx EXCEPT ![t] = 1]
    /\ Go(t, "copy")
    /\ UNCHANGED <<disk, cache, upload, mine, reply, history, counters>>

-----------------------------------------------------------------------------
(* Mutation: the old link is removed before the new file is copied.        *)
CopyStartsUnlinked(t) ==
    /\ pc[t] = "copy"
    /\ copies' = [copies EXCEPT ![MyCopy(t)] = Torn]
    /\ link' = [link EXCEPT ![idx[t]] = None]
    /\ Go(t, "copying")
    /\ UNCHANGED <<pkg, tmpDirs, cache, upload, mine, idx, reply, history, counters>>

(* Then, file by file: copy_file, which overwrites what is there, ...      *)
CopyStarts(t) ==
    /\ pc[t] = "copy"
    /\ copies' = [copies EXCEPT ![MyCopy(t)] = Torn]
    /\ Go(t, "copying")
    /\ UNCHANGED <<pkg, link, tmpDirs, cache, upload, mine, idx, reply, history, counters>>

CopyEnds(t) ==
    /\ pc[t] = "copying"
    /\ copies' = [copies EXCEPT ![MyCopy(t)] = mine[t]]
    /\ written' = written \cup {MyCopy(t)}
    /\ Go(t, "permissions")
    /\ UNCHANGED <<pkg, link, tmpDirs, diskLink, upload, mine, idx, reply, history,
                   counters>>

(* ... and on failure a roll-back that reads one past the end of           *)
(* copiedFiles, once for each file copied before: it goes on, throws, or   *)
(* ends the process (which is ProcessDies).                                *)
CopyFails(t) ==
    /\ pc[t] \in {"copy", "copying"}
    /\ tmpDirs' = tmpDirs - 1
    /\ Return(t, "failed")
    /\ UNCHANGED <<pkg, copies, link, mess>>

(* The permissions of the copy; here the roll-back removes that one copy.  *)
Permit(t) ==
    /\ pc[t] = "permissions"
    /\ Go(t, "unlink")
    /\ UNCHANGED <<disk, cache, upload, mine, idx, reply, history, counters>>

PermitFails(t) ==
    /\ pc[t] = "permissions"
    /\ copies' = [copies EXCEPT ![MyCopy(t)] = None]
    /\ tmpDirs' = tmpDirs - 1
    /\ Return(t, "failed")
    /\ UNCHANGED <<pkg, link, mess>>

(* What nobody catches: GenerateHash, the roll-backs' remove, and the      *)
(* remove_all at every way out may throw.                                  *)
CleanUpThrows(t) ==
    /\ pc[t] \in {"check", "copy", "copying", "permissions", "finish"}
    /\ copies' = IF pc[t] = "permissions"
                   THEN [copies EXCEPT ![MyCopy(t)] = None] ELSE copies
    /\ mess' = TRUE
    /\ Return(t, "none")
    /\ UNCHANGED <<pkg, link, tmpDirs>>

(* if (exists(linkSrc)) remove(linkSrc): exists follows the link.          *)
Resolves(f) == link[f] # None /\ copies[<<f, link[f]>>] # None

Unlink(t) ==
    /\ pc[t] = "unlink"
    /\ link' = IF Resolves(idx[t]) THEN [link EXCEPT ![idx[t]] = None] ELSE link
    /\ Go(t, "relink")
    /\ UNCHANGED <<pkg, copies, tmpDirs, cache, upload, mine, idx, reply, history,
                   counters>>

(* Mutation: the loop ends one file early.                                 *)
RelinkButLast(t) ==
    /\ pc[t] = "relink"
    /\ link[idx[t]] = None
    /\ link' = [link EXCEPT ![idx[t]] = VersionOf[mine[t]]]
    /\ IF idx[t] + 1 < FileCount
         THEN idx' = [idx EXCEPT ![t] = @ + 1] /\ Go(t, "copy")
         ELSE Go(t, "finish") /\ UNCHANGED idx
    /\ abandoned' = abandoned \ {idx[t]}
    /\ UNCHANGED <<pkg, copies, tmpDirs, cache, upload, mine, reply, unpacked, disturbed,
                   mess, lost, counters>>

(* create_symlink                                                          *)
Relink(t) ==
    /\ pc[t] = "relink"
    /\ link[idx[t]] = None
    /\ link' = [link EXCEPT ![idx[t]] = VersionOf[mine[t]]]
    /\ IF idx[t] < FileCount
         THEN idx' = [idx EXCEPT ![t] = @ + 1] /\ Go(t, "copy")
         ELSE Go(t, "finish") /\ UNCHANGED idx
    /\ abandoned' = abandoned \ {idx[t]}
    /\ UNCHANGED <<pkg, copies, tmpDirs, cache, upload, mine, reply, unpacked, disturbed,
                   mess, lost, counters>>

(* exists, remove and create_symlink throw for whatever reason, the last   *)
(* one also when the name is taken, and nothing catches it.                *)
LinkThrows(t) ==
    /\ pc[t] \in {"unlink", "relink"}
    /\ mess' = TRUE
    /\ Return(t, "none")
    /\ UNCHANGED disk

Finish(t) ==
    /\ pc[t] = "finish"
    /\ tmpDirs' = tmpDirs - 1
    /\ Return(t, "successful")
    /\ UNCHANGED <<pkg, copies, link, mess>>

-----------------------------------------------------------------------------
(* The kernel writes back what it likes, when it likes: the directories    *)
(* with their links, and with them or later the content of the copies.     *)
WriteBack ==
    /\ diskLink' = link
    /\ written' \in {written, {}}
    /\ UNCHANGED <<disk, threads, history, counters>>

AllEnd ==
    /\ crashes < MaxCrashes
    /\ crashes' = crashes + 1
    /\ pc' = [t \in Uploaders |-> "idle"]
    /\ upload' = [t \in Uploaders |-> None] /\ mine' = [t \in Uploaders |-> None]
    /\ idx' = [t \in Uploaders |-> 0] /\ reply' = [t \in Uploaders |-> "none"]
    /\ disturbed' = [t \in Uploaders |-> FALSE]
    /\ mess' = (mess \/ \E t \in Uploaders : Active(t))
    /\ UNCHANGED <<unpacked, uploads>>

(* The process dies and leaves its files as they are.                      *)
ProcessDies ==
    /\ AllEnd
    /\ abandoned' = Abandoned(Uploaders)
    /\ UNCHANGED <<disk, cache, lost>>

(* The power is cut: of what was not written back anything may be gone,    *)
(* and what is under /tmp need not outlive the boot.                       *)
PowerCut ==
    /\ AllEnd
    /\ \E torn \in SUBSET written :
        /\ copies' = [c \in Files \X Versions |-> IF c \in torn THEN Torn ELSE copies[c]]
        /\ lost' = lost \cup torn
    /\ link' = diskLink
    /\ abandoned' = {f \in Files : diskLink[f] = None}
    /\ pkg' \in IF pkg = None THEN {None} ELSE {None, Torn, pkg}
    /\ tmpDirs' \in 0 .. tmpDirs
    /\ written' = {} /\ UNCHANGED diskLink

InstallStep(t) ==
    \/ Upload(t) \/ Receive(t) \/ MakeTmp(t) \/ MakeTmpFails(t)
    \/ Extract(t) \/ ExtractFails(t) \/ ReadDesc(t) \/ Check(t) \/ CheckFails(t)
    \/ CopyStarts(t) \/ CopyEnds(t) \/ CopyFails(t) \/ CleanUpThrows(t)
    \/ Permit(t) \/ PermitFails(t) \/ Unlink(t) \/ Relink(t) \/ LinkThrows(t)
    \/ Finish(t)

Next ==
    \/ WriteBack \/ ProcessDies \/ PowerCut
    \/ \E t \in Uploaders : InstallStep(t)

Spec == Init /\ [][Next]_vars

-----------------------------------------------------------------------------
(* What an update promises.                                                *)

(* The file a link points at is whole, comes from a package of that        *)
(* version and was checked, whatever failed or was cut off, with two       *)
(* exceptions: a package of that version was unpacked a second time, when  *)
(* copy_file writes over the very file the link points at; and the power   *)
(* was cut before the kernel had written the copy back.                    *)
LinkedIsWhole ==
    \A f \in Files :
        /\ link[f] # None /\ unpacked[link[f]] <= 1 /\ <<f, link[f]>> \notin lost
        => /\ copies[<<f, link[f]>>] \in Packages \ Unsigned
           /\ VersionOf[copies[<<f, link[f]>>]] = link[f]

(* There is no moment without the program but the one between removing a   *)
(* link and creating its successor, unless it was between the two that the *)
(* installation ended, with an exception or with the process, or that the  *)
(* directory was last written back before a power cut.                     *)
MissingOnlyInBetween ==
    \A f \in Files :
        link[f] = None =>
            \/ f \in abandoned
            \/ \E t \in Uploaders : pc[t] = "relink" /\ idx[t] = f

(* Every way out of InstallPackage removes its directory, a failed copy's  *)
(* included, but the ones recorded as a mess: an archive that cannot be    *)
(* read, an exception, the end of the process.                             *)
CleanWhenIdle ==
    (\A t \in Uploaders : ~Active(t)) /\ ~mess => tmpDirs = 0

(* Each file of the package is in place and linked to.                     *)
Installed(p) ==
    \A f \in Files :
        link[f] = VersionOf[p] /\ copies[<<f, VersionOf[p]>>] = p

(* An update no other one overlapped that ends successfully has installed  *)
(* every file of the package it unpacked, if that package has a            *)
(* description (Package.cpp:268-270).  It need not be the package that was *)
(* sent: see Upload.                                                       *)
SuccessIsComplete ==
    [][\A t \in Uploaders :
         Finish(t) /\ ~disturbed[t] /\ mine[t] \notin Undescribed
           => Installed(mine[t])]_vars

(* "Update Successful" (WebServer.cpp:430, 432): the answer says so only   *)
(* when the uploaded package has been installed.                           *)
SuccessMeansInstalled ==
    [][\A t \in Uploaders :
         Finish(t) /\ ~disturbed[t] => Installed(upload[t])]_vars
=============================================================================
