--------------------------- MODULE RobotServices ---------------------------
(***************************************************************************)
(* The nodes of a robot that choose its topics, guard the breaker of its   *)
(* base and speak, and the recovery behaviours of its navigation, whose    *)
(* module this one extends.  They share no state: each is a module, and a  *)
(* behaviour here is one of one of them, the others stay off.  What holds  *)
(* in each of them is stated and checked once for all.                     *)
(***************************************************************************)
EXTENDS ParameterRecovery

CONSTANTS
  NumTriggers, NoTopic, Main,                     (* MuxSelector           *)
  Primary, Secondary,                             (* OdometryMuxSelector   *)
  Publishers,                                     (* CableWarning          *)
  Callers, Reports, Message, Silenced, Stopped,   (* DiagnosticsSpeaker    *)
  Results, Named, NoResult                        (* NavSpeak              *)

(* The main loop of mux_selector is none of its callbacks. *)
ASSUME ServicesAssumption == Main \notin 1..NumTriggers

VARIABLES
  default, wait, typed, subs, index, selects, owner, muxPc, before, next, mux, lastCall, raised,
  published, flag, target, odomMux, tfMux, selectFails, odomPc,
  breaker, report, breakerSeen, charging, batteryPc, undocking, moving, enabled,
  enableFailed, cablePc,
  reports, runstopped, marks, todo, status, threadPc, dying, speakerPc,
  japanese, othersSpeak, ownGoal, isSpeaking, latest, queued, held, said, navPc

Mux == INSTANCE MuxSelector
Odom == INSTANCE OdometryMuxSelector
Cable == INSTANCE CableWarning
Speaker == INSTANCE DiagnosticsSpeaker
Nav == INSTANCE NavSpeak

muxVars == <<default, wait, typed, subs, index, selects, owner, muxPc, before, next, mux,
             lastCall, raised>>
odomVars == <<published, flag, target, odomMux, tfMux, selectFails, odomPc>>
cableVars == <<breaker, report, breakerSeen, charging, batteryPc, undocking, moving,
               enabled, enableFailed, cablePc>>
speakerVars == <<reports, runstopped, marks, todo, status, threadPc, dying, speakerPc>>
navVars == <<japanese, othersSpeak, ownGoal, isSpeaking, latest, queued, held, said, navPc>>
switchVars == <<muxVars, odomVars>>
warningVars == <<cableVars, speakerVars>>
servicesVars == <<vars, switchVars, warningVars, navVars>>

ServicesInit ==
  /\ Init /\ Mux!Init /\ Odom!Init /\ Cable!Init /\ Speaker!Init /\ Nav!Init

Off == [recovery |-> Init, mux |-> muxPc[Main] = "off", odom |-> odomPc = "off",
        cable |-> \A p \in Publishers : cablePc[p] = "off",
        speaker |-> \A c \in Callers : speakerPc[c] = "off", nav |-> navPc = "off"]
OthersOff(c) == \A o \in DOMAIN Off \ {c} : Off[o]

ServicesNext ==
  \/ OthersOff("recovery") /\ Next /\ UNCHANGED <<switchVars, warningVars, navVars>>
  \/ OthersOff("mux") /\ Mux!Next /\ UNCHANGED <<vars, odomVars, warningVars, navVars>>
  \/ OthersOff("odom") /\ Odom!Next /\ UNCHANGED <<vars, muxVars, warningVars, navVars>>
  \/ /\ OthersOff("cable") /\ Cable!Next
     /\ UNCHANGED <<vars, switchVars, speakerVars, navVars>>
  \/ /\ OthersOff("speaker") /\ Speaker!Next
     /\ UNCHANGED <<vars, switchVars, cableVars, navVars>>
  \/ OthersOff("nav") /\ Nav!Next /\ UNCHANGED <<vars, switchVars, warningVars>>

ServicesSpec ==
  /\ ServicesInit /\ [][ServicesNext]_servicesVars
  /\ Fairness /\ Mux!Fairness /\ Odom!Fairness /\ Cable!Fairness
  /\ Speaker!Fairness /\ Nav!Fairness

-----------------------------------------------------------------------------
(* The topic the mux shows is the one its loop selected last, and the lock *)
(* of the callbacks is released unless a condition raised                  *)
(* (mux_selector.py).                                                      *)
MuxFollowsLoop == Mux!MuxFollowsLoop
LockIsReleased == Mux!LockIsReleased

(* The odometry follows the primary source when that stays silent or       *)
(* stays alive (odometry_mux_selector.py).                                 *)
SourceFollowsPrimary == Odom!SourceFollowsPrimary

(* The breaker that a warning switched off comes on again (warning.py).    *)
BreakerComesBack == Cable!BreakerComesBack

(* An error that stays is said again and again (warning.py).               *)
PersistentErrorIsSpoken == Speaker!PersistentErrorIsSpoken

(* The last result of the navigation is the one said last (nav_speak.py).  *)
LatestResultIsSaid == Nav!LatestResultIsSaid
=============================================================================
