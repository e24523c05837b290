--------------------------- MODULE NetworkMonitor ---------------------------
(***************************************************************************)
(* The script network_monitor of Fetch.  It pings some hosts; when none    *)
(* answers it tries the saved networks, then restarts NetworkManager, then *)
(* reboots the robot, which leaves a file behind so that the next run      *)
(* sends a mail.  It relies on upstart to run it again after it exits; the *)
(* supervisor that took upstart's place starts it at boot only.            *)
(*                                                                         *)
(* A network is its place in the order of the names, in the reverse of     *)
(* which they are tried.  A ping of the hosts is one step, as is a call of *)
(* nmcli.  The lines that nmcli lists are split at blanks: a name with a   *)
(* blank leaves no number where the strength should be, and the exception  *)
(* ends the script.                                                        *)
(***************************************************************************)
EXTENDS Naturals, FiniteSetsExt

CONSTANTS
  NumNetworks,  (* how many networks are saved                             *)
  Blank,        (* those with a blank in their names                       *)
  Sanshiro,     (* the one that is tried first                             *)
  NoNetwork     (* wlan0 is not connected                                  *)

VARIABLES
  options,      (* the arguments and environment variables that are set    *)
  reach,        (* the networks through which a host answers               *)
  listing,      (* nmcli lists names without blanks, or some with, none at *)
                (*   all, or fails                                         *)
  works,        (* the networks that nmcli could bring up                  *)
  link,         (* the network wlan0 is connected to                       *)
  touchFile,    (* TOUCH_FILE exists                                       *)
  netPc

netEnvVars == <<options, reach, listing, works>>
netVars == <<netEnvVars, link, touchFile, netPc>>

Networks == 1..NumNetworks
Listing == {"names", "blanks", "nothing", "failure"}
Option == {"argument", "hostnames", "disabled", "reboot", "email", "respawn"}

Init ==
  /\ options = {} /\ reach = {} /\ listing = "names" /\ works = {}
  /\ link = NoNetwork /\ touchFile = FALSE /\ netPc = "off"

Set(o) == o \in options
Usable ==
  {n \in works : listing = "blanks" \/ (listing = "names" /\ n \notin Blank)}
NetGoto(l) == netPc' = l

(* The environment. *)
Launch ==
  /\ netPc = "off" /\ NetGoto("start")
  /\ reach' \in SUBSET Networks \ {{}}
  /\ \E o \in SUBSET Option :
       /\ ~ {"argument", "hostnames"} \subseteq o   (* the first hides the other *)
       /\ "email" \in o => "reboot" \in o          (* no use without *)
       /\ options' = o
  /\ UNCHANGED <<listing, works, link, touchFile>>
Wireless ==
  /\ netPc # "off"
  /\ \/ listing' \in Listing \ {listing} /\ UNCHANGED <<works, link>>
     \/ \E n \in Networks :
          works' = SymDiff(works, {n}) /\ UNCHANGED <<listing, link>>
     \/ link # NoNetwork /\ link' = NoNetwork /\ UNCHANGED <<listing, works>>
  /\ UNCHANGED <<options, reach, touchFile, netPc>>
Rerun ==
  /\ netPc = "exited" /\ Set("respawn") /\ NetGoto("start")
  /\ UNCHANGED <<netEnvVars, link, touchFile>>

(* main up to the loop, with check_if_just_restarted.  The mail is sent    *)
(* after the file was removed, and an exception of the mailer ends the     *)
(* script.                                                                 *)
Start ==
  /\ netPc = "start"
  /\ IF Set("disabled") \/ options \cap {"argument", "hostnames"} = {}
     THEN NetGoto("exited") /\ UNCHANGED touchFile
     ELSE IF touchFile /\ Set("email")
          THEN touchFile' = FALSE /\ (NetGoto("ping") \/ NetGoto("exited"))
          ELSE NetGoto("ping") /\ UNCHANGED touchFile
  /\ UNCHANGED <<netEnvVars, link>>

(* The answers of five pings may all be lost. *)
Ping ==
  /\ netPc = "ping"
  /\ \/ link \in reach /\ UNCHANGED netPc
     \/ NetGoto("sanshiro")
  /\ UNCHANGED <<netEnvVars, link, touchFile>>

(* attempt_reconnect_to_network *)
Up(n, else) ==
  IF n \in Usable THEN link' = n /\ NetGoto("ping")
                  ELSE UNCHANGED link /\ NetGoto(else)
TrySanshiro ==
  /\ netPc = "sanshiro" /\ Up(Sanshiro, "list")
  /\ UNCHANGED <<netEnvVars, touchFile>>

(* While nothing is listed, sanshiro is brought up again and again, and    *)
(* whether that succeeded is ignored.  A call that fails is an exception,  *)
(* and so is int() of a word that is no number.                            *)
GetAvailNetworks ==
  /\ netPc = "list"
  /\ IF listing = "nothing" THEN link' = NoNetwork /\ UNCHANGED netPc
     ELSE NetGoto(IF listing = "names" THEN "known" ELSE "exited") /\ UNCHANGED link
  /\ UNCHANGED <<netEnvVars, touchFile>>

ToTry == Usable \ Blank
TryKnown ==
  /\ netPc = "known"
  /\ IF ToTry # {} THEN link' = Max(ToTry) /\ NetGoto("ping")
                   ELSE UNCHANGED link /\ NetGoto("wlan")
  /\ UNCHANGED <<netEnvVars, touchFile>>
ReconnectToWlan ==
  /\ netPc = "wlan"
  /\ IF Sanshiro \in Usable THEN link' = Sanshiro /\ NetGoto("ping")
                            ELSE link' = NoNetwork /\ NetGoto("manager")
  /\ UNCHANGED <<netEnvVars, touchFile>>

(* After the restart of NetworkManager: what is listed decides on a reboot *)
(* if that option is set; without it the loop goes on.                     *)
AfterRestart == IF Set("argument") THEN "ping" ELSE "exited"
RestartManager ==
  /\ netPc = "manager" /\ link' = NoNetwork
  /\ NetGoto(IF ~Set("reboot") THEN "ping"
             ELSE IF listing = "nothing" /\ Set("email") THEN "touch" ELSE AfterRestart)
  /\ UNCHANGED <<netEnvVars, touchFile>>
Touch ==
  /\ netPc = "touch" /\ touchFile' = TRUE /\ NetGoto("reboot")
  /\ UNCHANGED <<netEnvVars, link>>
Reboot ==
  /\ netPc = "reboot"
  /\ \/ link' = NoNetwork /\ NetGoto("start")
     \/ UNCHANGED link /\ NetGoto(AfterRestart)   (* the command failed *)
  /\ UNCHANGED <<netEnvVars, touchFile>>

Step ==
  \/ Rerun \/ Start \/ Ping \/ TrySanshiro
  \/ GetAvailNetworks \/ TryKnown \/ ReconnectToWlan
  \/ RestartManager \/ Touch \/ Reboot
Next == Launch \/ Wireless \/ Step

Fairness == WF_netVars(Step)
Spec == Init /\ [][Next]_netVars /\ Fairness

-----------------------------------------------------------------------------
=============================================================================
