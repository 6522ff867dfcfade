----------------------------- MODULE WifiProofs -----------------------------
(***************************************************************************)
(* Proofs about ConnectWifi, for any networks, any number of attempts and  *)
(* of failed commands, and any crashes.                                    *)
(***************************************************************************)
EXTENDS Wifi, TLAPS

IsTable(table) ==
    DOMAIN table \subseteq Ids /\ \A n \in DOMAIN table : table[n] \in Networks

(* The current network is an enabled one.                                  *)
SupplicantFits ==
    /\ IsTable(nets)
    /\ current # NoNet => current \in DOMAIN nets /\ nets[current].enabled
    /\ completed \in BOOLEAN /\ (completed => current # NoNet)

(* What is saved has just been connected to.                               *)
SavesWell ==
    /\ IsTable(saved) /\ \E n \in DOMAIN saved : saved[n].enabled
    /\ at = "save" => \E n \in DOMAIN nets : nets[n].enabled

Looking == {"list", "find", "add"}
Preparing == {"name", "password", "unname", "discard"}
OnTheWay == {"idle", "disableOld", "disable", "enable"}

(* The network ConnectWifi works on has the wanted name, or none yet,      *)
(* unless a refusal was taken for network 0.                               *)
IdFits ==
    /\ wanted \in Ssids /\ mishap \in BOOLEAN /\ goingBack \in BOOLEAN
    /\ at \in Looking => id = NoNet
    /\ at # "idle" /\ id \in DOMAIN nets /\ ~mishap => nets[id].ssid \in {wanted, Unnamed}

(* While nothing fails, it is there until it is removed, and is the only   *)
(* one that was not there before.                                          *)
CallFits ==
    /\ DOMAIN before \subseteq Ids
    /\ at \notin OnTheWay => ~goingBack
    /\ at = "unname" => mishap
    /\ at \in Looking => /\ DOMAIN before = DOMAIN nets
                         /\ \A n \in DOMAIN nets : before[n] = nets[n].ssid
    /\ at \notin Looking \cup {"idle"} /\ ~goingBack /\ ~mishap
         => id \in DOMAIN nets /\ DOMAIN nets \subseteq DOMAIN before \cup {id}
    /\ goingBack /\ at # "idle" /\ ~mishap => DOMAIN nets \subseteq DOMAIN before
    /\ Failed => DOMAIN nets \subseteq DOMAIN before

(* The network the device was on stays in the table; it is enabled until   *)
(* others are disabled, and in the end it is enabled again.                *)
HomeCounts == home \in DOMAIN before /\ before[home] # wanted /\ ~mishap

HomeFits ==
    /\ at = "list" => home = NoNet
    /\ HomeCounts =>
         /\ at # "idle" => home \in DOMAIN nets /\ nets[home].ssid = before[home]
         /\ at \notin Looking \cup {"idle"} => id # home
         /\ at \in {"find", "add"} \cup Preparing => nets[home].enabled
         /\ Failed => home \in DOMAIN nets /\ nets[home].enabled

WifiInv == SupplicantFits /\ SavesWell /\ IdFits /\ CallFits /\ HomeFits

-----------------------------------------------------------------------------
LEMMA NoNetIsNoId == NoNet \notin Ids
BY WifiAssumption DEF NoNet

(* The table with one network removed.                                     *)
LEMMA WithoutEffect ==
  ASSUME IsTable(nets), NEW n
  PROVE  /\ IsTable(Without(n)) /\ DOMAIN Without(n) = DOMAIN nets \ {n}
         /\ \A m \in DOMAIN nets \ {n} : Without(n)[m] = nets[m]
BY DEF IsTable, Without

LEMMA ApplyEffect ==
  ASSUME SupplicantFits, NEW table, IsTable(table), Apply(table)
  PROVE  SupplicantFits' /\ nets' = table
<1>1. nets' = table
  BY DEF Apply
<1>2. /\ current' # NoNet => current' \in DOMAIN table /\ table[current'].enabled
      /\ completed' \in BOOLEAN /\ (completed' => current' # NoNet)
  BY NoNetIsNoId DEF Apply, SupplicantFits, IsTable
<1> QED
  BY <1>1, <1>2 DEF SupplicantFits, IsTable

(* What a command leaves behind, and what it means that none has failed.   *)
LEMMA CommandEffect ==
  ASSUME SupplicantFits, mishap \in BOOLEAN, NEW n, NEW table, NEW ok \in BOOLEAN,
         n \in DOMAIN nets => IsTable(table), Command(n, table, ok)
  PROVE  /\ SupplicantFits' /\ mishap' \in BOOLEAN
         /\ nets' = nets \/ (n \in DOMAIN nets /\ nets' = table)
         /\ ~mishap' => ~mishap /\ IF ok THEN n \in DOMAIN nets /\ nets' = table
                                   ELSE n \notin DOMAIN nets /\ nets' = nets
<1>1. UNCHANGED supplicant => SupplicantFits' /\ nets' = nets
  BY DEF supplicant, SupplicantFits, IsTable
<1>2. n \in DOMAIN nets /\ Apply(table) => SupplicantFits' /\ nets' = table
  BY ApplyEffect
<1>3. CASE ok /\ n \in DOMAIN nets /\ Apply(table) /\ Answered
  BY <1>2, <1>3 DEF Answered
<1>4. CASE ~ok /\ n \notin DOMAIN nets /\ UNCHANGED supplicant /\ Answered
  BY <1>1, <1>4 DEF Answered
<1>5. CASE ~ok /\ n \in DOMAIN nets /\ (Apply(table) \/ UNCHANGED supplicant) /\ Fails
  BY <1>1, <1>2, <1>5 DEF Fails
<1> QED
  BY <1>3, <1>4, <1>5 DEF Command

LEMMA ListedEffect ==
  ASSUME mishap \in BOOLEAN, NEW listed, Listed(listed)
  PROVE  mishap' \in BOOLEAN /\ (~mishap' => ~mishap)
BY DEF Listed, Answered, Fails

LEMMA SameSupplicant ==
  ASSUME SupplicantFits, UNCHANGED supplicant PROVE SupplicantFits'
BY DEF SupplicantFits, supplicant, IsTable

-----------------------------------------------------------------------------
(* A step within a call that adds and removes nothing.                     *)
LEMMA GoesOn ==
  ASSUME WifiInv, SupplicantFits', mishap' \in BOOLEAN, ~mishap' => ~mishap,
         DOMAIN nets' = DOMAIN nets,
         \A m \in DOMAIN nets :
           nets'[m].ssid = nets[m].ssid \/ (m = id /\ nets'[m].ssid = wanted),
         UNCHANGED <<saved, wanted, id, home, goingBack, before, outcome>>,
         at \notin Looking \cup {"idle"}, at' \notin Looking \cup {"idle"},
         at' \in OnTheWay \/ at \notin OnTheWay \/ ~goingBack,
         at' = "unname" => mishap',
         at' \in Preparing => at \in Preparing
                              /\ \A m \in DOMAIN nets \ {id} : nets'[m] = nets[m],
         at' = "save" => \E n \in DOMAIN nets' : nets'[n].enabled
  PROVE  WifiInv'
<1>1. SavesWell'
  BY DEF WifiInv, SavesWell, IsTable
<1>2. IdFits'
  BY DEF WifiInv, IdFits, Looking
<1>3. CallFits'
  BY DEF WifiInv, CallFits, Failed, Looking, OnTheWay
<1>4. HomeFits'
  <2>1. HomeCounts' => HomeCounts
    BY DEF HomeCounts
  <2>2. ~Failed'
    BY DEF Failed, Looking
  <2>3. at' \notin {"list", "find", "add"}
    BY DEF Looking
  <2>4. HomeCounts => /\ home \in DOMAIN nets /\ nets[home].ssid = before[home] /\ id # home
                      /\ at \in Preparing => nets[home].enabled
    BY DEF WifiInv, HomeFits
  <2>5. HomeCounts' /\ at' \in Preparing => nets'[home].enabled
    BY <2>1, <2>4
  <2> QED
    BY <2>1, <2>2, <2>3, <2>4, <2>5 DEF HomeFits
<1> QED
  BY <1>1, <1>2, <1>3, <1>4 DEF WifiInv

LEMMA SSIDStep ==
  ASSUME WifiInv, SetNetworkSSID PROVE WifiInv'
<1>0. SupplicantFits /\ mishap \in BOOLEAN /\ wanted \in Ssids /\ at = "name"
  BY DEF WifiInv, IdFits, SetNetworkSSID
<1>1. PICK ok \in BOOLEAN : /\ Command(id, With(id, wanted, FALSE), ok)
                            /\ at' = IF ok THEN "password" ELSE "unname"
  BY DEF SetNetworkSSID
<1>2. UNCHANGED <<saved, wanted, id, home, goingBack, before, outcome>>
  BY DEF SetNetworkSSID, locals
<1>3. id \in DOMAIN nets =>
        /\ IsTable(With(id, wanted, FALSE)) /\ DOMAIN With(id, wanted, FALSE) = DOMAIN nets
        /\ With(id, wanted, FALSE)[id].ssid = wanted
        /\ \A m \in DOMAIN nets \ {id} : With(id, wanted, FALSE)[m] = nets[m]
  BY <1>0 DEF SupplicantFits, IsTable, With, Networks
<1>4. /\ SupplicantFits' /\ mishap' \in BOOLEAN
      /\ nets' = nets \/ (id \in DOMAIN nets /\ nets' = With(id, wanted, FALSE))
      /\ ~mishap' => ~mishap /\ (~ok => id \notin DOMAIN nets)
  BY <1>0, <1>1, <1>3, CommandEffect
<1>5. at' = "unname" => mishap'
  BY <1>0, <1>1, <1>4 DEF WifiInv, CallFits, Looking, OnTheWay
<1>6. /\ DOMAIN nets' = DOMAIN nets /\ \A m \in DOMAIN nets \ {id} : nets'[m] = nets[m]
      /\ \A m \in DOMAIN nets : nets'[m].ssid = nets[m].ssid \/ (m = id /\ nets'[m].ssid = wanted)
  BY <1>3, <1>4
<1> QED
  BY <1>0, <1>1, <1>2, <1>4, <1>5, <1>6, GoesOn DEF Looking, OnTheWay, Preparing

LEMMA PasswordStep ==
  ASSUME WifiInv, SetPasswordWEP PROVE WifiInv'
<1>0. SupplicantFits /\ mishap \in BOOLEAN /\ at = "password"
  BY DEF WifiInv, IdFits, SetPasswordWEP
<1>1. CASE at' = "discard" /\ UNCHANGED supplicant /\ Answered
  <2>1. SupplicantFits' /\ nets' = nets /\ mishap' = mishap
    BY <1>0, <1>1, SameSupplicant DEF supplicant, Answered
  <2> QED
    BY <1>0, <1>1, <2>1, GoesOn DEF SetPasswordWEP, locals, Looking, OnTheWay, Preparing
<1>2. CASE \E ok \in BOOLEAN : /\ Command(id, nets, ok)
                              /\ at' = IF ok THEN "disableOld" ELSE "discard"
  <2>1. PICK ok \in BOOLEAN : /\ Command(id, nets, ok)
                              /\ at' = IF ok THEN "disableOld" ELSE "discard"
    BY <1>2
  <2>2. UNCHANGED <<saved, wanted, id, home, goingBack, before, outcome>>
    BY DEF SetPasswordWEP, locals
  <2>3. SupplicantFits' /\ mishap' \in BOOLEAN /\ nets' = nets /\ (~mishap' => ~mishap)
    BY <1>0, <2>1, CommandEffect DEF SupplicantFits
  <2> QED
    BY <1>0, <2>1, <2>2, <2>3, GoesOn DEF Looking, OnTheWay, Preparing
<1> QED
  BY <1>1, <1>2 DEF SetPasswordWEP

LEMMA ListOldStep ==
  ASSUME WifiInv, ListOld PROVE WifiInv'
<1>1. /\ UNCHANGED <<saved, wanted, id, home, goingBack, before, outcome>>
      /\ UNCHANGED supplicant /\ nets' = nets /\ at = "disableOld" /\ at' = "disable"
  BY DEF ListOld, supplicant
<1>2. mishap' \in BOOLEAN /\ (~mishap' => ~mishap)
  BY ListedEffect DEF ListOld, WifiInv, IdFits
<1>3. SupplicantFits'
  BY <1>1, SameSupplicant DEF WifiInv
<1> QED
  BY <1>1, <1>2, <1>3, GoesOn DEF Looking, OnTheWay, Preparing

LEMMA DisableStep ==
  ASSUME WifiInv, DisableNetwork PROVE WifiInv'
<1>0. SupplicantFits /\ mishap \in BOOLEAN /\ at = "disable"
      /\ UNCHANGED <<saved, wanted, id, home, goingBack, before, outcome>>
  BY DEF WifiInv, IdFits, DisableNetwork
<1>1. CASE \E n \in todo, ok \in BOOLEAN :
             /\ Command(n, With(n, nets[n].ssid, FALSE), ok)
             /\ todo' = todo \ {n} /\ UNCHANGED at
  <2>1. PICK n \in todo, ok \in BOOLEAN : Command(n, With(n, nets[n].ssid, FALSE), ok)
    BY <1>1
  <2> DEFINE table == With(n, nets[n].ssid, FALSE)
  <2>2. n \in DOMAIN nets =>
          /\ IsTable(table) /\ DOMAIN table = DOMAIN nets
          /\ \A m \in DOMAIN nets : table[m].ssid = nets[m].ssid
    BY <1>0 DEF SupplicantFits, IsTable, With, Networks
  <2> HIDE DEF table
  <2>3. /\ SupplicantFits' /\ mishap' \in BOOLEAN
        /\ nets' = nets \/ (n \in DOMAIN nets /\ nets' = table)
        /\ ~mishap' => ~mishap
    BY <1>0, <2>1, <2>2, CommandEffect DEF table
  <2>4. DOMAIN nets' = DOMAIN nets /\ \A m \in DOMAIN nets : nets'[m].ssid = nets[m].ssid
    BY <2>2, <2>3
  <2> QED
    BY <1>0, <1>1, <2>3, <2>4, GoesOn DEF Looking, OnTheWay, Preparing
<1>2. CASE todo = {} /\ at' = "enable" /\ UNCHANGED <<supplicant, failures, mishap, todo>>
  <2>1. SupplicantFits' /\ nets' = nets
    BY <1>0, <1>2, SameSupplicant DEF supplicant
  <2> QED
    BY <1>0, <1>2, <2>1, GoesOn DEF Looking, OnTheWay, Preparing
<1> QED
  BY <1>1, <1>2 DEF DisableNetwork

LEMMA StatusStep ==
  ASSUME WifiInv, GetWifiStatus PROVE WifiInv'
<1>1. /\ UNCHANGED <<saved, wanted, id, home, goingBack, before, outcome>>
      /\ UNCHANGED supplicant /\ nets' = nets /\ at = "poll"
      /\ at' \in {"save", "remove"} /\ (at' = "save" => Connected)
      /\ mishap' \in BOOLEAN /\ (~mishap' => ~mishap)
  BY DEF GetWifiStatus, locals, supplicant, Answered, Fails, WifiInv, IdFits
<1>2. SupplicantFits'
  BY <1>1, SameSupplicant DEF WifiInv
<1>3. Connected => \E n \in DOMAIN nets : nets[n].enabled
  BY DEF Connected, WifiInv, SupplicantFits
<1> QED
  BY <1>1, <1>2, <1>3, GoesOn DEF Looking, OnTheWay, Preparing
-----------------------------------------------------------------------------
(* The steps that are not of that kind.                                    *)
LEMMA JoinsStep ==
  ASSUME WifiInv, Joins PROVE WifiInv'
<1>1. UNCHANGED <<nets, saved, at, locals, before, outcome, mishap>>
  BY DEF Joins
<1>2. SupplicantFits'
  <2>1. /\ current' # NoNet => current' \in DOMAIN nets /\ nets[current'].enabled
        /\ completed' \in BOOLEAN /\ (completed' => current' # NoNet)
    BY DEF Joins, WifiInv, SupplicantFits
  <2> QED
    BY <1>1, <2>1 DEF WifiInv, SupplicantFits, IsTable
<1>3. SavesWell' /\ IdFits' /\ CallFits' /\ HomeFits'
  BY <1>1 DEF WifiInv, SavesWell, IdFits, CallFits, HomeFits, Preparing,
     HomeCounts, Failed,
              IsTable, locals
<1> QED
  BY <1>2, <1>3 DEF WifiInv

LEMMA ConnectStep ==
  ASSUME WifiInv, Connect PROVE WifiInv'
<1>1. /\ nets' = nets /\ UNCHANGED supplicant /\ saved' = saved
      /\ wanted' \in Ssids /\ at' = "list" /\ before' = [n \in DOMAIN nets |-> nets[n].ssid]
      /\ outcome' = "none" /\ mishap' = FALSE
      /\ id' = NoNet /\ home' = NoNet /\ goingBack' = FALSE
  BY DEF Connect, supplicant
<1>2. SupplicantFits' /\ SavesWell'
  BY <1>1, SameSupplicant DEF WifiInv, SavesWell, IsTable
<1>3. NoNet \notin DOMAIN nets /\ DOMAIN nets \subseteq Ids
  BY NoNetIsNoId DEF WifiInv, SupplicantFits, IsTable
<1>4. IdFits' /\ CallFits'
  BY <1>1, <1>3 DEF IdFits, CallFits, Failed, Looking, OnTheWay
<1>5. HomeFits'
  BY <1>1, <1>3 DEF HomeFits, Preparing, HomeCounts
<1> QED
  BY <1>2, <1>4, <1>5 DEF WifiInv

LEMMA FindHomeStep ==
  ASSUME WifiInv, FindHome PROVE WifiInv'
<1>1. PICK listed \in SUBSET DOMAIN nets :
        Listed(listed) /\ home' = IF current \in listed THEN current ELSE NoNet
  BY DEF FindHome
<1>2. /\ nets' = nets /\ UNCHANGED supplicant /\ at = "list" /\ at' = "find"
      /\ UNCHANGED <<saved, wanted, id, goingBack, before, outcome>>
  BY DEF FindHome, supplicant
<1>3. mishap' \in BOOLEAN /\ (~mishap' => ~mishap)
  BY <1>1, ListedEffect DEF WifiInv, IdFits
<1>4. /\ DOMAIN before = DOMAIN nets /\ \A n \in DOMAIN nets : before[n] = nets[n].ssid
      /\ NoNet \notin DOMAIN nets
  BY <1>2, NoNetIsNoId DEF WifiInv, CallFits, Failed, SupplicantFits, IsTable, Looking
<1>5. SupplicantFits' /\ SavesWell' /\ IdFits' /\ CallFits'
  BY <1>2, <1>3, SameSupplicant
     DEF WifiInv, SavesWell, IdFits, CallFits, Failed, IsTable, Looking, OnTheWay
<1>6. HomeFits'
  BY <1>1, <1>2, <1>4
     DEF WifiInv, SupplicantFits, HomeFits, Preparing, HomeCounts, Looking, Failed
<1> QED
  BY <1>5, <1>6 DEF WifiInv

LEMMA FindNetworkStep ==
  ASSUME WifiInv, FindNetwork PROVE WifiInv'
<1>1. PICK listed \in SUBSET DOMAIN nets :
        LET same == {n \in listed : nets[n].ssid = wanted}
        IN  /\ Listed(listed)
            /\ IF same = {} THEN id' = NoNet /\ at' = "add"
               ELSE id' \in same /\ at' = "password"
  BY DEF FindNetwork
<1>2. /\ nets' = nets /\ UNCHANGED supplicant /\ at = "find"
      /\ UNCHANGED <<saved, wanted, home, goingBack, before, outcome>>
  BY DEF FindNetwork, supplicant
<1>3. \/ id' = NoNet /\ at' = "add"
      \/ id' \in DOMAIN nets /\ nets[id'].ssid = wanted /\ at' = "password"
  BY <1>1
<1>4. mishap' \in BOOLEAN /\ (~mishap' => ~mishap)
  BY <1>1, ListedEffect DEF WifiInv, IdFits
<1>5. /\ DOMAIN before = DOMAIN nets /\ \A n \in DOMAIN nets : before[n] = nets[n].ssid
      /\ NoNet \notin DOMAIN nets /\ ~goingBack
  BY <1>2, NoNetIsNoId DEF WifiInv, IdFits, CallFits, Failed, SupplicantFits,
     IsTable, Looking, OnTheWay
<1>6. SupplicantFits' /\ SavesWell'
  BY <1>2, <1>3, SameSupplicant DEF WifiInv, SavesWell, IsTable
<1>7. IdFits'
  BY <1>2, <1>3, <1>4, <1>5 DEF WifiInv, IdFits, Looking
<1>8. CallFits'
  BY <1>2, <1>3, <1>4, <1>5 DEF WifiInv, CallFits, Failed, Looking, OnTheWay
<1>9. HomeFits'
  BY <1>2, <1>3, <1>4, <1>5 DEF WifiInv, HomeFits, Preparing, HomeCounts,
     Failed, Looking
<1> QED
  BY <1>6, <1>7, <1>8, <1>9 DEF WifiInv

LEMMA AddNetworkStep ==
  ASSUME WifiInv, AddNetwork PROVE WifiInv'
<1>1. PICK new \in Ids \ DOMAIN nets :
        \/ /\ Apply(With(new, Unnamed, FALSE)) /\ Answered
           /\ id' = new /\ at' = "name"
        \/ /\ Apply(With(new, Unnamed, FALSE)) \/ UNCHANGED supplicant
           /\ Fails
           /\ id' = NoNet /\ at' = "password"
        \/ UNCHANGED supplicant /\ Fails /\ id' = 0 /\ at' = "name"
  BY DEF AddNetwork
<1>2. at = "add" /\ UNCHANGED <<saved, wanted, home, goingBack, before, outcome>>
  BY DEF AddNetwork
<1> DEFINE table == With(new, Unnamed, FALSE)
<1>3. /\ IsTable(table) /\ DOMAIN table = DOMAIN nets \cup {new}
      /\ table[new].ssid = Unnamed
      /\ \A m \in DOMAIN nets : table[m] = nets[m]
  BY DEF WifiInv, SupplicantFits, IsTable, With, Networks
<1>4. Apply(table) => SupplicantFits' /\ nets' = table
  BY <1>3, ApplyEffect DEF WifiInv
<1> HIDE DEF table
<1>5. UNCHANGED supplicant => SupplicantFits' /\ nets' = nets
  BY SameSupplicant DEF WifiInv, supplicant
<1>6. /\ DOMAIN before = DOMAIN nets /\ \A n \in DOMAIN nets : before[n] = nets[n].ssid
      /\ NoNet \notin DOMAIN nets \cup {new} /\ ~goingBack /\ mishap \in BOOLEAN
  BY <1>2, NoNetIsNoId
     DEF WifiInv, IdFits, CallFits, Failed, SupplicantFits, IsTable, Looking, OnTheWay
<1>7. \/ nets' = table /\ id' = new /\ at' = "name" /\ mishap' = mishap
      \/ (nets' = table \/ nets' = nets) /\ at' \in {"name", "password"} /\ mishap' = TRUE
  BY <1>1, <1>4, <1>5 DEF Answered, Fails, table
<1>8. SupplicantFits' /\ SavesWell'
  BY <1>1, <1>2, <1>4, <1>5, <1>7 DEF WifiInv, SavesWell, IsTable, table
<1>9. IdFits'
  BY <1>2, <1>3, <1>6, <1>7 DEF WifiInv, IdFits, Looking
<1>10. CallFits'
  BY <1>2, <1>3, <1>6, <1>7 DEF WifiInv, CallFits, Failed, Looking, OnTheWay
<1>11. HomeFits'
  BY <1>1, <1>2, <1>3, <1>6, <1>7 DEF WifiInv, HomeFits, Preparing, HomeCounts,
     Failed, Looking
<1> QED
  BY <1>8, <1>9, <1>10, <1>11 DEF WifiInv

LEMMA EnableStep ==
  ASSUME WifiInv, EnableNetwork PROVE WifiInv'
<1> DEFINE table == IF Target \in DOMAIN nets THEN With(Target, nets[Target].ssid, TRUE)
                    ELSE nets
<1>0. SupplicantFits /\ mishap \in BOOLEAN /\ goingBack \in BOOLEAN /\ at = "enable"
      /\ UNCHANGED <<saved, wanted, id, home, goingBack, before>>
  BY DEF WifiInv, IdFits, EnableNetwork, locals
<1>1. PICK ok \in BOOLEAN :
        /\ Command(Target, table, ok)
        /\ IF goingBack THEN Returns("failed")
           ELSE at' = (IF ok THEN "poll" ELSE "remove") /\ UNCHANGED outcome
  BY DEF EnableNetwork
<1>2. Target \in DOMAIN nets =>
        /\ IsTable(table) /\ DOMAIN table = DOMAIN nets /\ table[Target].enabled
        /\ \A m \in DOMAIN nets : table[m].ssid = nets[m].ssid
  BY <1>0 DEF SupplicantFits, IsTable, With, Networks
<1> HIDE DEF table
<1>3. /\ SupplicantFits' /\ mishap' \in BOOLEAN
      /\ nets' = nets \/ (Target \in DOMAIN nets /\ nets' = table)
      /\ ~mishap' => ~mishap /\ (Target \in DOMAIN nets => nets' = table)
  BY <1>0, <1>1, <1>2, CommandEffect
<1>4. DOMAIN nets' = DOMAIN nets /\ \A m \in DOMAIN nets : nets'[m].ssid = nets[m].ssid
  BY <1>2, <1>3
<1>5. CASE ~goingBack
  <2>1. at' \in {"poll", "remove"} /\ outcome' = outcome
    BY <1>1, <1>5
  <2> QED
    BY <1>0, <1>3, <1>4, <1>5, <2>1, GoesOn DEF Looking, OnTheWay, Preparing
<1>6. CASE goingBack
  <2>1. at' = "idle" /\ outcome' = "failed" /\ Target = home
    BY <1>1, <1>6 DEF Returns, Target
  <2>2. SavesWell' /\ IdFits' /\ CallFits'
    BY <1>0, <1>3, <1>4, <1>6, <2>1
       DEF WifiInv, SavesWell, IdFits, CallFits, Failed, IsTable, Looking, OnTheWay
  <2>3. HomeFits'
    <3>1. HomeCounts' => ~mishap' /\ home \in DOMAIN nets
      BY <1>0, <1>3 DEF WifiInv, HomeFits, Preparing, HomeCounts
    <3>2. HomeCounts' => home \in DOMAIN nets' /\ nets'[home].enabled
      BY <1>2, <1>3, <2>1, <3>1
    <3> QED
      BY <1>0, <2>1, <3>2 DEF HomeFits, Preparing
  <2> QED
    BY <1>3, <2>2, <2>3 DEF WifiInv
<1> QED
  BY <1>5, <1>6

LEMMA SaveStep ==
  ASSUME WifiInv, SaveConfig PROVE WifiInv'
<1>1. /\ nets' = nets /\ UNCHANGED supplicant /\ at = "save" /\ at' = "idle"
      /\ outcome' = "connected" /\ saved' \in {saved, nets}
      /\ UNCHANGED <<wanted, id, home, goingBack, before>>
      /\ mishap' \in BOOLEAN /\ (~mishap' => ~mishap)
  BY DEF SaveConfig, supplicant, locals, Answered, Fails, Returns, WifiInv, IdFits
<1>2. SupplicantFits'
  BY <1>1, SameSupplicant DEF WifiInv
<1>3. SavesWell'
  BY <1>1 DEF WifiInv, SavesWell, SupplicantFits, IsTable
<1>4. IdFits' /\ CallFits' /\ HomeFits'
  BY <1>1 DEF WifiInv, IdFits, CallFits, HomeFits, Preparing, HomeCounts,
     Failed, Looking, OnTheWay
<1> QED
  BY <1>2, <1>3, <1>4 DEF WifiInv

LEMMA RemoveStep ==
  ASSUME WifiInv, RemoveNetwork PROVE WifiInv'
<1>0. SupplicantFits /\ mishap \in BOOLEAN /\ at \in {"unname", "discard", "remove"}
      /\ UNCHANGED <<saved, wanted, home, before>>
  BY DEF WifiInv, IdFits, RemoveNetwork
<1>1. PICK ok \in BOOLEAN : Command(id, Without(id), ok)
  BY DEF RemoveNetwork
<1>2. /\ \/ at = "unname" /\ at' = "password" /\ id' = NoNet /\ UNCHANGED outcome
         \/ at = "discard" /\ Returns("failed") /\ UNCHANGED id
         \/ at = "remove" /\ at' = "disableOld" /\ UNCHANGED <<id, outcome>>
      /\ goingBack' = (at = "remove")
  BY DEF RemoveNetwork
<1>3. /\ IsTable(Without(id)) /\ DOMAIN Without(id) = DOMAIN nets \ {id}
      /\ \A m \in DOMAIN nets \ {id} : Without(id)[m] = nets[m]
  BY <1>0, WithoutEffect DEF SupplicantFits
<1>4. /\ SupplicantFits' /\ mishap' \in BOOLEAN
      /\ nets' = nets \/ (id \in DOMAIN nets /\ nets' = Without(id))
      /\ ~mishap' => ~mishap /\ (id \in DOMAIN nets => nets' = Without(id))
  BY <1>0, <1>1, <1>3, CommandEffect
<1>5. /\ DOMAIN nets' \subseteq DOMAIN nets
      /\ \A m \in DOMAIN nets \ {id} : m \in DOMAIN nets' /\ nets'[m] = nets[m]
      /\ \A m \in DOMAIN nets' : nets'[m] = nets[m]
      /\ ~mishap' /\ id \in DOMAIN nets => id \notin DOMAIN nets'
  BY <1>3, <1>4
<1>6. CASE at = "unname"
  <2>1. mishap' /\ goingBack' = FALSE /\ at' = "password" /\ id' = NoNet
    BY <1>2, <1>4, <1>6 DEF WifiInv, CallFits
  <2>2. NoNet \notin DOMAIN nets'
    BY <1>4, NoNetIsNoId DEF SupplicantFits, IsTable
  <2>3. SavesWell' /\ IdFits' /\ CallFits' /\ HomeFits'
    BY <1>0, <1>4, <2>1, <2>2
       DEF WifiInv, SavesWell, IdFits, CallFits, Failed, HomeFits, HomeCounts,
           IsTable, Looking, OnTheWay
  <2> QED
    BY <1>4, <2>3 DEF WifiInv
<1>7. CASE at = "discard"
  <2>1. id' = id /\ goingBack' = FALSE /\ at' = "idle" /\ outcome' = "failed"
    BY <1>2, <1>7 DEF Returns
  <2>2. ~mishap' => DOMAIN nets' \subseteq DOMAIN before
    BY <1>4, <1>5, <1>7 DEF WifiInv, CallFits, Looking, OnTheWay
  <2>3. SavesWell' /\ IdFits'
    BY <1>0, <1>4, <2>1 DEF WifiInv, SavesWell, IdFits, IsTable, Looking
  <2>4. CallFits'
    BY <1>0, <1>4, <2>1, <2>2 DEF WifiInv, CallFits, Failed, Looking, OnTheWay
  <2>5. HomeFits'
    BY <1>0, <1>4, <1>5, <1>7, <2>1
       DEF WifiInv, HomeFits, HomeCounts, Failed, Looking, Preparing
  <2> QED
    BY <1>4, <2>3, <2>4, <2>5 DEF WifiInv
<1>8. CASE at = "remove"
  <2>1. id' = id /\ goingBack' = TRUE /\ at' = "disableOld" /\ outcome' = outcome
    BY <1>2, <1>8
  <2>2. ~mishap' => DOMAIN nets' \subseteq DOMAIN before
    BY <1>4, <1>5, <1>8 DEF WifiInv, CallFits, Failed, Looking, OnTheWay
  <2>3. SavesWell' /\ IdFits'
    BY <1>0, <1>4, <1>5, <1>8, <2>1 DEF WifiInv, SavesWell, IdFits, IsTable, Looking
  <2>4. CallFits'
    BY <1>0, <1>4, <2>1, <2>2 DEF WifiInv, CallFits, Failed, Looking, OnTheWay
  <2>5. HomeFits'
    BY <1>0, <1>4, <1>5, <1>8, <2>1 DEF WifiInv, HomeFits, Preparing,
       HomeCounts, Failed, Looking
  <2> QED
    BY <1>4, <2>3, <2>4, <2>5 DEF WifiInv
<1> QED
  BY <1>0, <1>6, <1>7, <1>8

LEMMA CrashStep ==
  ASSUME WifiInv, Crash PROVE WifiInv'
<1>1. /\ at' = "idle" /\ outcome' = "none" /\ goingBack' = FALSE
      /\ UNCHANGED <<saved, wanted, before, mishap>>
      /\ UNCHANGED supplicant \/ (nets' = saved /\ current' = NoNet /\ completed' = FALSE)
  BY DEF Crash
<1>2. SupplicantFits'
  BY <1>1, SameSupplicant DEF WifiInv, SupplicantFits, SavesWell, IsTable
<1>3. SavesWell' /\ IdFits' /\ CallFits' /\ HomeFits'
  BY <1>1 DEF WifiInv, SavesWell, IdFits, CallFits, HomeFits, Preparing,
     HomeCounts, Failed,
              IsTable, Looking, OnTheWay
<1> QED
  BY <1>2, <1>3 DEF WifiInv

LEMMA WifiInit == Init => WifiInv
<1> SUFFICES ASSUME Init PROVE WifiInv
  OBVIOUS
<1>1. IsTable(nets) /\ saved = nets /\ \E n \in DOMAIN nets : nets[n].enabled
  BY WifiAssumption DEF Init, IsTable, Networks
<1>2. SupplicantFits /\ SavesWell
  BY <1>1 DEF Init, SupplicantFits, SavesWell
<1>3. DOMAIN before = {}
  BY DEF Init
<1>4. IdFits /\ CallFits /\ HomeFits
  BY <1>3 DEF Init, IdFits, CallFits, HomeFits, Preparing, HomeCounts, Failed,
     Looking, OnTheWay
<1> QED
  BY <1>2, <1>4 DEF WifiInv

LEMMA WifiStep == WifiInv /\ [Next]_vars => WifiInv'
<1> SUFFICES ASSUME WifiInv, [Next]_vars PROVE WifiInv'
  OBVIOUS
<1>1. CASE UNCHANGED vars
  BY <1>1 DEF vars, supplicant, locals, WifiInv, SupplicantFits, SavesWell, IdFits,
              CallFits, HomeFits, Preparing, HomeCounts, Failed, IsTable
<1>2. CASE ConnectWifi
  BY <1>2, FindHomeStep, FindNetworkStep, AddNetworkStep, SSIDStep, PasswordStep,
     ListOldStep, DisableStep, EnableStep, StatusStep, SaveStep, RemoveStep
     DEF ConnectWifi
<1> QED
  BY <1>1, <1>2, JoinsStep, ConnectStep, CrashStep DEF Next

LEMMA WifiInvHolds == Spec => []WifiInv
BY WifiInit, WifiStep, PTL DEF Spec

(* Only so can a crash be told from what the program does.                 *)
LEMMA CrashesCounted == Spec => [](crashes \in Nat)
<1>1. Init => crashes \in Nat
  BY DEF Init
<1>2. crashes \in Nat /\ [Next]_vars => (crashes \in Nat)'
  <2>1. ConnectWifi => crashes' = crashes
    BY DEF ConnectWifi, FindHome, FindNetwork, AddNetwork, SetNetworkSSID, SetPasswordWEP,
           ListOld, DisableNetwork, EnableNetwork, GetWifiStatus, SaveConfig, RemoveNetwork
  <2>2. Joins \/ Connect => crashes' = crashes
    BY DEF Joins, Connect, counters
  <2>3. crashes \in Nat /\ Crash => crashes' \in Nat
    BY DEF Crash
  <2> QED
    BY <2>1, <2>2, <2>3 DEF Next, vars, counters
<1> QED
  BY <1>1, <1>2, PTL DEF Spec

-----------------------------------------------------------------------------
(* What the type invariant says beyond WifiInv: the places of the call,    *)
(* its locals, and how the last one ended.                                 *)
LocalsFit ==
    /\ at \in Looking \cup Preparing \cup OnTheWay \cup {"poll", "save", "remove"}
    /\ id \in Ids \cup {NoNet} /\ home \in Ids \cup {NoNet}
    /\ todo \subseteq Ids
    /\ outcome \in {"none", "connected", "failed"}

LEMMA LocalsStep ==
  ASSUME WifiInv, LocalsFit, [Next]_vars PROVE LocalsFit'
<1>0. DOMAIN nets \subseteq Ids /\ current \in Ids \cup {NoNet} /\ 0 \in Ids
  BY WifiAssumption DEF WifiInv, SupplicantFits, IsTable
<1> USE DEF LocalsFit, Looking, Preparing, OnTheWay
<1>1. CASE UNCHANGED <<at, id, home, todo, outcome>>
  BY <1>1
<1>2. Joins \/ UNCHANGED vars => UNCHANGED <<at, id, home, todo, outcome>>
  BY DEF Joins, vars, locals
<1>3. CASE Connect
  BY <1>3 DEF Connect
<1>4. CASE FindHome
  BY <1>0, <1>4 DEF FindHome
<1>5. CASE FindNetwork
  <2>1. /\ id' \in Ids \cup {NoNet} /\ at' \in {"add", "password"}
        /\ UNCHANGED <<home, todo, outcome>>
    BY <1>0, <1>5 DEF FindNetwork
  <2> QED
    BY <2>1
<1>6. CASE AddNetwork
  <2>1. /\ id' \in Ids \cup {NoNet} /\ at' \in {"name", "password"}
        /\ UNCHANGED <<home, todo, outcome>>
    BY <1>0, <1>6 DEF AddNetwork
  <2> QED
    BY <2>1
<1>7. CASE SetNetworkSSID
  BY <1>7 DEF SetNetworkSSID, locals
<1>8. CASE SetPasswordWEP
  BY <1>8 DEF SetPasswordWEP, locals
<1>9. CASE ListOld
  BY <1>0, <1>9 DEF ListOld
<1>10. CASE DisableNetwork
  BY <1>10 DEF DisableNetwork
<1>11. CASE EnableNetwork
  BY <1>11 DEF EnableNetwork, locals, Returns
<1>12. CASE GetWifiStatus
  BY <1>12 DEF GetWifiStatus, locals
<1>13. CASE SaveConfig
  BY <1>13 DEF SaveConfig, locals, Returns
<1>14. CASE RemoveNetwork
  BY <1>14 DEF RemoveNetwork, Returns
<1>15. CASE Crash
  BY <1>15 DEF Crash
<1> QED
  BY <1>1, <1>2, <1>3, <1>4, <1>5, <1>6, <1>7, <1>8, <1>9, <1>10, <1>11, <1>12, <1>13,
     <1>14, <1>15 DEF Next, ConnectWifi

-----------------------------------------------------------------------------
(* Whatever fails, is refused or dies, the supplicant's table and its file *)
(* hold networks, its current network is one of the table, and the locals  *)
(* of the call are numbers of networks or none.                            *)
THEOREM WifiTypeCorrect == Spec => []WifiTypeOK
<1>1. Init => LocalsFit
  BY DEF Init, LocalsFit, Looking, Preparing, OnTheWay
<1>2. WifiInv /\ LocalsFit /\ [Next]_vars => LocalsFit'
  BY LocalsStep
<1>3. WifiInv /\ LocalsFit => WifiTypeOK
  BY DEF WifiInv, SupplicantFits, SavesWell, IdFits, CallFits, IsTable, LocalsFit,
         WifiTypeOK, Looking, Preparing, OnTheWay
<1> QED
  BY <1>1, <1>2, <1>3, WifiInvHolds, PTL DEF Spec

(* A device that could not be brought onto another network gets its own    *)
(* one enabled again.                                                      *)
THEOREM HomeComesBack == Spec => []HomeIsBack
<1>1. WifiInv => HomeIsBack
  BY DEF WifiInv, HomeFits, Preparing, HomeCounts, HomeIsBack, Failed
<1> QED
  BY <1>1, WifiInvHolds, PTL

(* A call that failed leaves no network behind that was not there.         *)
THEOREM NothingIsLeft == Spec => []NothingLeftBehind
<1>1. WifiInv => NothingLeftBehind
  BY DEF WifiInv, CallFits, NothingLeftBehind, Failed
<1> QED
  BY <1>1, WifiInvHolds, PTL

(* At any time a restart finds an enabled network in the configuration.    *)
THEOREM RestartHasANetwork == Spec => []RestartFindsNetwork
<1>1. WifiInv => RestartFindsNetwork
  BY DEF WifiInv, SavesWell, RestartFindsNetwork
<1> QED
  BY <1>1, WifiInvHolds, PTL

(* While no command fails, networks of other names stay and keep theirs.   *)
THEOREM OthersAreKept == Spec => OthersStay
<1> DEFINE Stays(n) == n \in DOMAIN nets' /\ nets'[n].ssid = nets[n].ssid
           Kept == \A n \in DOMAIN nets :
                     \/ nets[n].ssid \in {wanted, Unnamed}
                     \/ n \in DOMAIN nets' /\ nets'[n].ssid = nets[n].ssid
                     \/ mishap' \/ crashes' # crashes
<1>1. WifiInv /\ crashes \in Nat /\ Next => Kept
  <2> SUFFICES ASSUME WifiInv, crashes \in Nat, Next,
                      NEW m \in DOMAIN nets,
                      nets[m].ssid \notin {wanted, Unnamed}, ~mishap', crashes' = crashes
               PROVE  Stays(m)
    OBVIOUS
  <2>0. /\ mishap \in BOOLEAN /\ (UNCHANGED supplicant => nets' = nets)
        /\ at # "idle" /\ id \in DOMAIN nets /\ ~mishap => id # m
    BY DEF WifiInv, IdFits, supplicant
  <2>1. ASSUME NEW n, NEW table, NEW ok \in BOOLEAN, Command(n, table, ok),
               n \in DOMAIN nets => m \in DOMAIN table /\ table[m].ssid = nets[m].ssid
        PROVE  Stays(m)
    BY <2>0, <2>1 DEF Command, Apply
  <2>2. \A n, ssid, enabled :
          LET table == With(n, ssid, enabled)
          IN  n # m \/ ssid = nets[m].ssid =>
                m \in DOMAIN table /\ table[m].ssid = nets[m].ssid
    BY DEF With
  <2>3. ASSUME NEW n, NEW table, NEW ok \in BOOLEAN, Command(n, table, ok)
        PROVE  ~mishap
    BY <2>0, <2>3 DEF Command, Answered, Fails
  <2>4. CASE Joins
    BY <2>4 DEF Joins
  <2>5. CASE Connect \/ FindHome \/ FindNetwork \/ ListOld \/ GetWifiStatus \/ SaveConfig
    BY <2>0, <2>5 DEF Connect, FindHome, FindNetwork, ListOld, GetWifiStatus, SaveConfig
  <2>6. CASE AddNetwork
    <3>1. PICK new \in Ids \ DOMAIN nets :
            Apply(With(new, Unnamed, FALSE)) \/ UNCHANGED supplicant
      BY <2>6 DEF AddNetwork
    <3> QED
      BY <2>0, <2>2, <3>1 DEF Apply
  <2>7. CASE SetNetworkSSID
    <3>1. PICK ok \in BOOLEAN : Command(id, With(id, wanted, FALSE), ok)
      BY <2>7 DEF SetNetworkSSID
    <3>2. id \in DOMAIN nets => id # m
      BY <2>0, <2>3, <2>7, <3>1 DEF SetNetworkSSID
    <3> QED
      BY <2>1, <2>2, <3>1, <3>2
  <2>8. CASE SetPasswordWEP
    <3>1. CASE UNCHANGED supplicant
      BY <2>0, <3>1
    <3>2. CASE \E ok \in BOOLEAN : Command(id, nets, ok)
      BY <2>1, <3>2
    <3> QED
      BY <2>8, <3>1, <3>2 DEF SetPasswordWEP
  <2>9. CASE DisableNetwork
    <3>1. CASE UNCHANGED supplicant
      BY <2>0, <3>1
    <3>2. CASE \E n \in todo, ok \in BOOLEAN : Command(n, With(n, nets[n].ssid, FALSE), ok)
      BY <2>1, <2>2, <3>2
    <3> QED
      BY <2>9, <3>1, <3>2 DEF DisableNetwork
  <2>10. CASE EnableNetwork
    <3> DEFINE table == IF Target \in DOMAIN nets
                          THEN With(Target, nets[Target].ssid, TRUE) ELSE nets
    <3>1. PICK ok \in BOOLEAN : Command(Target, table, ok)
      BY <2>10 DEF EnableNetwork
    <3>2. m \in DOMAIN table /\ table[m].ssid = nets[m].ssid
      BY <2>2
    <3> HIDE DEF table
    <3> QED
      BY <2>1, <3>1, <3>2
  <2>11. CASE RemoveNetwork
    <3>1. PICK ok \in BOOLEAN : Command(id, Without(id), ok)
      BY <2>11 DEF RemoveNetwork
    <3>2. id \in DOMAIN nets => id # m
      BY <2>0, <2>3, <2>11, <3>1 DEF RemoveNetwork
    <3>3. id # m => m \in DOMAIN Without(id) /\ Without(id)[m] = nets[m]
      BY DEF Without
    <3> QED
      BY <2>1, <3>1, <3>2, <3>3
  <2>12. CASE Crash
    BY <2>12 DEF Crash
  <2> QED
    BY <2>4, <2>5, <2>6, <2>7, <2>8, <2>9, <2>10, <2>11, <2>12 DEF Next, ConnectWifi
<1>2. WifiInv /\ crashes \in Nat /\ [Next]_vars => [Kept]_vars
  BY <1>1
<1> QED
  BY <1>2, WifiInvHolds, CrashesCounted, PTL DEF Spec, OthersStay
=============================================================================
