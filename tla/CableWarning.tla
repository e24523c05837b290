---------------------------- MODULE CableWarning ----------------------------
(***************************************************************************)
(* The class Warning of Fetch's warning.py, without its speech: it relays  *)
(* the commands of the base, and switches the breaker of the base off for  *)
(* five seconds when the robot is told to move while the cable is plugged  *)
(* in.  Each publisher of commands has a thread of its own here, so that   *)
(* callbacks overlap with one another and with those of the other topics.  *)
(***************************************************************************)
EXTENDS Naturals

CONSTANT Publishers

VARIABLES
  breaker,        (* the breaker of the base: on or off                    *)
  report,         (* what the robot state under way says of it             *)
  breakerSeen,    (* robot_state_msgs: on, off or not listed               *)
  charging,       (* battery_state_msgs.is_charging                        *)
  batteryPc,      (* the thread of the battery: idle, or it plays a sound  *)
  undocking,      (* auto_undocking                                        *)
  moving,         (* the command of each publisher is a motion             *)
  enabled,        (* breaker_enabled of its callback                       *)
  enableFailed,   (* switching the breaker on failed once                  *)
  cablePc         (* where the callback of each publisher is               *)

commandVars == <<breaker, moving, enabled, enableFailed, cablePc>>
messageVars == <<report, breakerSeen, charging, batteryPc, undocking>>
cableVars == <<commandVars, messageVars>>

Init ==
  /\ breaker = "on" /\ report = "on" /\ breakerSeen = "unlisted"
  /\ charging = FALSE /\ batteryPc = "idle"
  /\ undocking = FALSE
  /\ moving = [p \in Publishers |-> FALSE] /\ enabled = [p \in Publishers |-> TRUE]
  /\ enableFailed = FALSE /\ cablePc = [p \in Publishers |-> "off"]

Launched == \A p \in Publishers : cablePc[p] # "off"
Launch ==
  /\ ~Launched /\ cablePc' = [p \in Publishers |-> "idle"]
  /\ UNCHANGED <<breaker, moving, enabled, enableFailed, messageVars>>

(* The other topics. *)
UndockStatusCallback ==
  /\ Launched /\ undocking' \in BOOLEAN
  /\ UNCHANGED <<commandVars, report, breakerSeen, charging, batteryPc>>
RobotStateSent ==
  /\ Launched /\ report' = breaker
  /\ UNCHANGED <<commandVars, breakerSeen, charging, batteryPc, undocking>>
RobotStateCallback ==
  /\ Launched /\ breakerSeen' \in {report, "unlisted"}
  /\ UNCHANGED <<commandVars, report, charging, batteryPc, undocking>>
BatteryCallback ==
  /\ Launched /\ batteryPc = "idle" /\ charging' \in BOOLEAN
  /\ batteryPc' \in (IF charging' THEN {"idle"} ELSE {"idle", "sounds"})
  /\ UNCHANGED <<commandVars, report, breakerSeen, undocking>>
SoundsPlayed ==
  /\ batteryPc = "sounds" /\ batteryPc' = "idle"
  /\ UNCHANGED <<commandVars, report, breakerSeen, charging, undocking>>

(* cmd_vel_callback.  A service call that fails raises, which ends it. *)
CableGoto(p, l) == cablePc' = [cablePc EXCEPT ![p] = l]
CommandArrives(p) ==
  /\ cablePc[p] = "idle" /\ CableGoto(p, "read")
  /\ \E m \in BOOLEAN : moving' = [moving EXCEPT ![p] = m]
  /\ UNCHANGED <<breaker, enabled, enableFailed, report, breakerSeen, charging, batteryPc,
                 undocking>>
ReadBreaker(p) ==
  /\ cablePc[p] = "read" /\ CableGoto(p, "decide")
  /\ enabled' = [enabled EXCEPT ![p] = breakerSeen # "off"]
  /\ UNCHANGED <<breaker, moving, enableFailed, messageVars>>
Forbidden(p) == moving[p] /\ charging /\ enabled[p] /\ ~undocking
Decide(p) ==
  /\ cablePc[p] = "decide" /\ CableGoto(p, IF Forbidden(p) THEN "disable" ELSE "idle")
  /\ UNCHANGED <<breaker, moving, enabled, enableFailed, messageVars>>
Disable(p) ==
  /\ cablePc[p] = "disable"
  /\ \/ breaker' = "off" /\ CableGoto(p, "sleep")
     \/ UNCHANGED breaker /\ CableGoto(p, "idle")
  /\ UNCHANGED <<moving, enabled, enableFailed, messageVars>>
SwitchOnIfCharging ==
  \/ breaker' = (IF charging THEN "on" ELSE breaker) /\ UNCHANGED enableFailed
  \/ enableFailed' = TRUE /\ UNCHANGED breaker
SwitchOn ==
  \/ breaker' = "on" /\ UNCHANGED enableFailed
  \/ enableFailed' = TRUE /\ UNCHANGED breaker
Enable(p) ==
  /\ cablePc[p] = "sleep" /\ CableGoto(p, "idle") /\ SwitchOn
  /\ UNCHANGED <<moving, enabled, messageVars>>

CmdVelCallback(p) == ReadBreaker(p) \/ Decide(p) \/ Disable(p) \/ Enable(p)
Next ==
  \/ Launch \/ UndockStatusCallback \/ RobotStateSent \/ RobotStateCallback
  \/ BatteryCallback \/ SoundsPlayed
  \/ \E p \in Publishers : CommandArrives(p) \/ CmdVelCallback(p)

Fairness == \A p \in Publishers : WF_cableVars(CmdVelCallback(p))
Spec == Init /\ [][Next]_cableVars /\ Fairness

-----------------------------------------------------------------------------
(* The breaker that a callback switched off is switched on again, however  *)
(* the callbacks of several publishers overlap and whatever is plugged in  *)
(* or out while they sleep; only a service call that fails leaves it off.  *)
BreakerComesBack == breaker = "off" ~> (breaker = "on" \/ enableFailed)
=============================================================================
