-------------------------------- MODULE Wifi --------------------------------
(***************************************************************************)
(* NetworkTools::ConnectWifi, which the network screen's Connect button    *)
(* runs on the screen's thread, next to the wpa_supplicant it commands.    *)
(* Each command to the supplicant is a step; between two of them the       *)
(* supplicant joins and loses networks as it likes, any command may fail,  *)
(* with or without having taken effect, and the program may die.           *)
(*                                                                         *)
(* The supplicant is external: a table of networks, some of them enabled,  *)
(* of which one may be the current one.  What belongs to a network beyond  *)
(* its name (keys, signal, addresses) only decides whether joining it      *)
(* succeeds, which is left open.                                           *)
(***************************************************************************)
EXTENDS Integers

CONSTANTS
    Ssids,          \* names of networks
    Ids,            \* what the supplicant numbers networks with
    FirstNetworks,  \* ids of the networks somebody configured beforehand
    MaxAttempts,    \* bound: clicks on Connect
    MaxFailures,    \* bound: commands that fail
    MaxCrashes      \* bound: crashes of the program and of the device

NoNet == -1         \* no network, and what AddNetwork returns when it failed
Unnamed == "unnamed"

ASSUME WifiAssumption ==
    /\ Ids \subseteq Nat /\ 0 \in Ids
    /\ FirstNetworks \subseteq Ids /\ FirstNetworks # {}
    /\ Unnamed \notin Ssids
    /\ MaxAttempts \in Nat /\ MaxFailures \in Nat /\ MaxCrashes \in Nat

VARIABLES
    nets,       \* the supplicant's networks, by id
    current,    \* its current network, or NoNet
    completed,  \* whether it is connected to it
    saved,      \* the networks in its configuration file
    at,         \* where ConnectWifi is
    wanted, id, home,   \* ConnectWifi's arguments and locals
    todo,       \* networks EnableNetwork still has to disable
    goingBack,  \* EnableNetwork is on the way back to `home'
    before,     \* history: the names of the networks there were when it was called
    outcome,    \* history: how the last call ended
    mishap,     \* history: one of its commands failed
    attempts, failures, crashes

supplicant == <<nets, current, completed>>
locals == <<wanted, id, home, todo, goingBack>>
counters == <<attempts, failures, crashes>>
vars == <<supplicant, saved, at, locals, before, outcome, mishap, counters>>

Networks == [ssid: Ssids \cup {Unnamed}, enabled: BOOLEAN]

WifiTypeOK ==
    /\ \A table \in {nets, saved} :
         DOMAIN table \subseteq Ids /\ \A n \in DOMAIN table : table[n] \in Networks
    /\ current \in DOMAIN nets \cup {NoNet} /\ completed \in BOOLEAN
    /\ at \in {"idle", "list", "find", "add", "name", "password", "disableOld",
               "disable", "enable", "poll", "save", "unname", "discard", "remove"}
    /\ wanted \in Ssids
    /\ id \in Ids \cup {NoNet} /\ home \in Ids \cup {NoNet}
    /\ todo \subseteq Ids /\ goingBack \in BOOLEAN
    /\ DOMAIN before \subseteq Ids
    /\ outcome \in {"none", "connected", "failed"} /\ mishap \in BOOLEAN

Init ==
    /\ nets \in [FirstNetworks -> [ssid: Ssids, enabled: BOOLEAN]]
    /\ \E n \in FirstNetworks : nets[n].enabled
    /\ saved = nets
    /\ current = NoNet /\ completed = FALSE
    /\ at = "idle" /\ wanted \in Ssids
    /\ id = NoNet /\ home = NoNet /\ todo = {} /\ goingBack = FALSE
    /\ before = <<>> /\ outcome = "none" /\ mishap = FALSE
    /\ attempts = 0 /\ failures = 0 /\ crashes = 0

-----------------------------------------------------------------------------
(* The supplicant on its own: it tries an enabled network, completes the   *)
(* connection, or loses it.                                                *)
Joins ==
    /\ \/ /\ current = NoNet
          /\ \E n \in DOMAIN nets : nets[n].enabled /\ current' = n
          /\ completed' = FALSE
       \/ /\ current # NoNet /\ ~completed
          /\ completed' = TRUE /\ UNCHANGED current
       \/ /\ current # NoNet
          /\ current' = NoNet /\ completed' = FALSE
    /\ UNCHANGED <<nets, saved, at, locals, before, outcome, mishap, counters>>

(* It leaves its current network when that is disabled or removed.         *)
Apply(table) ==
    /\ nets' = table
    /\ LET stays == current \in DOMAIN table /\ table[current].enabled
       IN  /\ current' = IF stays THEN current ELSE NoNet
           /\ completed' = (completed /\ stays)

Answered == UNCHANGED <<failures, mishap>>
Fails == failures < MaxFailures /\ failures' = failures + 1 /\ mishap' = TRUE

(* A command about network n that would make `table' of the networks.      *)
Command(n, table, ok) ==
    \/ ok /\ n \in DOMAIN nets /\ Apply(table) /\ Answered
    \/ ~ok /\ n \notin DOMAIN nets /\ UNCHANGED supplicant /\ Answered
    \/ ~ok /\ n \in DOMAIN nets /\ (Apply(table) \/ UNCHANGED supplicant) /\ Fails

Without(n) == [m \in DOMAIN nets \ {n} |-> nets[m]]
With(n, ssid, enabled) ==
    [m \in DOMAIN nets \cup {n} |->
       IF m = n THEN [ssid |-> ssid, enabled |-> enabled] ELSE nets[m]]

(* ListNetworks takes a line that has flags.  Those are printed for the    *)
(* current network, for disabled ones and for ones disabled for a while,   *)
(* so that other enabled networks are missing from its result.             *)
Listed(listed) ==
    \/ /\ listed \in SUBSET DOMAIN nets
       /\ \A n \in DOMAIN nets : n = current \/ ~nets[n].enabled => n \in listed
       /\ Answered
    \/ listed = {} /\ Fails

-----------------------------------------------------------------------------
(* connect_cb calls ConnectWifi.                                           *)
Connect ==
    /\ at = "idle"
    /\ attempts < MaxAttempts /\ attempts' = attempts + 1
    /\ wanted' \in Ssids
    /\ at' = "list" /\ before' = [n \in DOMAIN nets |-> nets[n].ssid]
    /\ outcome' = "none" /\ mishap' = FALSE
    /\ id' = NoNet /\ home' = NoNet /\ goingBack' = FALSE
    /\ UNCHANGED <<supplicant, saved, todo, failures, crashes>>

(* Which network is the device on?                                         *)
FindHome ==
    /\ at = "list"
    /\ \E listed \in SUBSET DOMAIN nets :
         /\ Listed(listed)
         /\ home' = IF current \in listed THEN current ELSE NoNet
    /\ at' = "find"
    /\ UNCHANGED <<supplicant, saved, wanted, id, todo, goingBack, before, outcome,
                   attempts, crashes>>

(* AddNetwork(ssid): a listed network of that name, or a new one.          *)
FindNetwork ==
    /\ at = "find"
    /\ \E listed \in SUBSET DOMAIN nets :
         LET same == {n \in listed : nets[n].ssid = wanted}
         IN  /\ Listed(listed)
             /\ IF same = {} THEN id' = NoNet /\ at' = "add"
                ELSE id' \in same /\ at' = "password"
    /\ UNCHANGED <<supplicant, saved, wanted, home, todo, goingBack, before, outcome,
                   attempts, crashes>>

(* Mutation: networks are taken to be numbered from 1. *)
AddNetworkFromOne ==
    /\ at = "add"
    /\ \E new \in Ids \ DOMAIN nets :
         \/ /\ Apply(With(new, Unnamed, FALSE)) /\ Answered
            /\ id' = new + 1 /\ at' = "name"
         \/ /\ Apply(With(new, Unnamed, FALSE)) \/ UNCHANGED supplicant
            /\ Fails
            /\ id' = NoNet /\ at' = "password"
         \/ UNCHANGED supplicant /\ Fails /\ id' = 0 /\ at' = "name"
    /\ UNCHANGED <<saved, wanted, home, todo, goingBack, before, outcome, attempts, crashes>>

(* If the command does not get through, AddNetwork returns -1; a refusal   *)
(* it reads as a number, which makes it network 0.                         *)
AddNetwork ==
    /\ at = "add"
    /\ \E new \in Ids \ DOMAIN nets :
         \/ /\ Apply(With(new, Unnamed, FALSE)) /\ Answered
            /\ id' = new /\ at' = "name"
         \/ /\ Apply(With(new, Unnamed, FALSE)) \/ UNCHANGED supplicant
            /\ Fails
            /\ id' = NoNet /\ at' = "password"
         \/ UNCHANGED supplicant /\ Fails /\ id' = 0 /\ at' = "name"
    /\ UNCHANGED <<saved, wanted, home, todo, goingBack, before, outcome, attempts, crashes>>

SetNetworkSSID ==
    /\ at = "name"
    /\ \E ok \in BOOLEAN :
         /\ Command(id, With(id, wanted, FALSE), ok)
         /\ at' = IF ok THEN "password" ELSE "unname"
    /\ UNCHANGED <<saved, locals, before, outcome, attempts, crashes>>

(* The supplicant refuses keys that are too long; that is no failure of a  *)
(* command.  A network that was there before may be given a wrong key.     *)
SetPasswordWEP ==
    /\ at = "password"
    /\ \/ \E ok \in BOOLEAN :
            /\ Command(id, nets, ok)
            /\ at' = IF ok THEN "disableOld" ELSE "discard"
       \/ at' = "discard" /\ UNCHANGED supplicant /\ Answered
    /\ UNCHANGED <<saved, locals, before, outcome, attempts, crashes>>

-----------------------------------------------------------------------------
Returns(how) == at' = "idle" /\ outcome' = how

(* EnableNetwork, of `id' and later of `home', disables what is listed.    *)
Target == IF goingBack THEN home ELSE id

ListOld ==
    /\ at = "disableOld"
    /\ todo' \in SUBSET DOMAIN nets
    /\ Listed(todo')
    /\ at' = "disable"
    /\ UNCHANGED <<supplicant, saved, wanted, id, home, goingBack, before, outcome,
                   attempts, crashes>>

(* Nobody looks at what DisableNetwork returns.                            *)
DisableNetwork ==
    /\ at = "disable"
    /\ \/ \E n \in todo, ok \in BOOLEAN :
            /\ Command(n, With(n, nets[n].ssid, FALSE), ok)
            /\ todo' = todo \ {n} /\ UNCHANGED at
       \/ todo = {} /\ at' = "enable" /\ UNCHANGED <<supplicant, failures, mishap, todo>>
    /\ UNCHANGED <<saved, wanted, id, home, goingBack, before, outcome, attempts, crashes>>

(* Mutation: the way back enables the new network once more.               *)
EnableNetworkId ==
    /\ at = "enable"
    /\ \E ok \in BOOLEAN :
         /\ Command(id, IF id \in DOMAIN nets THEN With(id, nets[id].ssid, TRUE)
                        ELSE nets, ok)
         /\ IF goingBack THEN Returns("failed")
            ELSE at' = (IF ok THEN "poll" ELSE "remove") /\ UNCHANGED outcome
    /\ UNCHANGED <<saved, locals, before, attempts, crashes>>

(* Mutation: whatever came of it, the configuration is saved.              *)
EnableNetworkSaves ==
    /\ at = "enable"
    /\ \E ok \in BOOLEAN :
         /\ Command(Target, IF Target \in DOMAIN nets
                              THEN With(Target, nets[Target].ssid, TRUE) ELSE nets, ok)
         /\ at' = IF goingBack THEN "save" ELSE IF ok THEN "poll" ELSE "remove"
    /\ UNCHANGED <<saved, locals, before, outcome, attempts, crashes>>

EnableNetwork ==
    /\ at = "enable"
    /\ \E ok \in BOOLEAN :
         /\ Command(Target, IF Target \in DOMAIN nets
                              THEN With(Target, nets[Target].ssid, TRUE) ELSE nets, ok)
         /\ IF goingBack THEN Returns("failed")
            ELSE at' = (IF ok THEN "poll" ELSE "remove") /\ UNCHANGED outcome
    /\ UNCHANGED <<saved, locals, before, attempts, crashes>>

(* Eight looks at the status, five milliseconds apart: one of them finds   *)
(* the connection, or the last one does not.                               *)
Connected == completed /\ nets[current].ssid = wanted

GetWifiStatus ==
    /\ at = "poll"
    /\ \/ Connected /\ at' = "save" /\ Answered
       \/ ~Connected /\ at' = "remove" /\ Answered
       \/ Connected /\ at' = "remove" /\ Fails
    /\ UNCHANGED <<supplicant, saved, locals, before, outcome, attempts, crashes>>

(* Nobody looks at what the supplicant makes of "save config".             *)
SaveConfig ==
    /\ at = "save"
    /\ \/ saved' = nets /\ Answered
       \/ saved' \in {saved, nets} /\ Fails
    /\ Returns("connected")
    /\ UNCHANGED <<supplicant, locals, before, attempts, crashes>>

(* Mutation: the networks listed before are taken for the one added.       *)
RemoveNetworkHome ==
    /\ \E ok \in BOOLEAN : Command(home, Without(home), ok)
    /\ \/ at = "unname" /\ at' = "password" /\ id' = NoNet /\ UNCHANGED outcome
       \/ at = "discard" /\ Returns("failed") /\ UNCHANGED id
       \/ at = "remove" /\ at' = "disableOld" /\ UNCHANGED <<id, outcome>>
    /\ goingBack' = (at = "remove")
    /\ UNCHANGED <<saved, wanted, home, todo, before, attempts, crashes>>

(* Mutation: a network the device did not get on stays in the table.       *)
RemoveNetworkNot ==
    /\ \E ok \in BOOLEAN : Command(id, IF at = "remove" THEN nets ELSE Without(id), ok)
    /\ \/ at = "unname" /\ at' = "password" /\ id' = NoNet /\ UNCHANGED outcome
       \/ at = "discard" /\ Returns("failed") /\ UNCHANGED id
       \/ at = "remove" /\ at' = "disableOld" /\ UNCHANGED <<id, outcome>>
    /\ goingBack' = (at = "remove")
    /\ UNCHANGED <<saved, wanted, home, todo, before, attempts, crashes>>

(* RemoveNetwork where the network could not be named, where its key was   *)
(* refused, and where the device did not get on it; only in the last case  *)
(* is there a way back.  Nobody asks whether the network is a new one.     *)
RemoveNetwork ==
    /\ \E ok \in BOOLEAN : Command(id, Without(id), ok)
    /\ \/ at = "unname" /\ at' = "password" /\ id' = NoNet /\ UNCHANGED outcome
       \/ at = "discard" /\ Returns("failed") /\ UNCHANGED id
       \/ at = "remove" /\ at' = "disableOld" /\ UNCHANGED <<id, outcome>>
    /\ goingBack' = (at = "remove")
    /\ UNCHANGED <<saved, wanted, home, todo, before, attempts, crashes>>

(* The program dies; so does, if the device restarts, the supplicant.      *)
Crash ==
    /\ crashes < MaxCrashes /\ crashes' = crashes + 1
    /\ at' = "idle" /\ outcome' = "none"
    /\ id' = NoNet /\ home' = NoNet /\ todo' = {} /\ goingBack' = FALSE
    /\ \/ UNCHANGED supplicant
       \/ nets' = saved /\ current' = NoNet /\ completed' = FALSE
    /\ UNCHANGED <<saved, wanted, before, mishap, attempts, failures>>

ConnectWifi ==
    \/ FindHome \/ FindNetwork \/ AddNetwork \/ SetNetworkSSID \/ SetPasswordWEP
    \/ ListOld \/ DisableNetwork \/ EnableNetwork \/ GetWifiStatus \/ SaveConfig
    \/ RemoveNetwork

Next == Joins \/ Connect \/ ConnectWifi \/ Crash

Spec == Init /\ [][Next]_vars

-----------------------------------------------------------------------------
Failed == at = "idle" /\ outcome = "failed" /\ ~mishap

(* If the device was on a network and could not be brought onto another    *)
(* one, that network is enabled again, whatever the supplicant did in the  *)
(* meantime.  (It is not if the device was between two networks when       *)
(* ConnectWifi looked, or was asked onto the network it is on already.)    *)
HomeIsBack ==
    Failed /\ home \in DOMAIN before /\ before[home] # wanted
      => home \in DOMAIN nets /\ nets[home].enabled

(* A call that failed leaves no network behind that was not there.         *)
NothingLeftBehind == Failed => DOMAIN nets \subseteq DOMAIN before

(* While no command fails, networks of other names stay in the table, and  *)
(* nobody renames them.                                                    *)
OthersStay ==
    [][\A n \in DOMAIN nets :
         \/ nets[n].ssid \in {wanted, Unnamed}
         \/ n \in DOMAIN nets' /\ nets'[n].ssid = nets[n].ssid
         \/ mishap' \/ crashes' # crashes]_vars

(* A device that restarts, at any time and after any failed commands,      *)
(* finds an enabled network in its configuration: ConnectWifi saves only   *)
(* what it has just connected to.                                          *)
RestartFindsNetwork == \E n \in DOMAIN saved : saved[n].enabled
=============================================================================
