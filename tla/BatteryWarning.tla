--------------------------- MODULE BatteryWarning ---------------------------
(***************************************************************************)
(* Fetch's battery_warning.py beside the node shutdown, whose condition is *)
(* the one its documentation gives for Fetch: the robot is not charging.   *)
(* Two threads give warnings: the subscriber, for the first message, and   *)
(* a timer, whose thread an exception ends; rospy catches that of the      *)
(* subscriber.  In a warning each test is a step, as is all that follows.  *)
(* The scripts are Python 2, in which None is less than any number.        *)
(*                                                                         *)
(* A level is 0 below the threshold to shut down, 1 below the threshold to *)
(* charge, and 2 above; of the level announced last only that there is one *)
(* counts, whether it is announced again does not.                         *)
(***************************************************************************)
EXTENDS Shutdown, FiniteSetsExt

CONSTANT NoLevel

VARIABLES
  level,       (* of the battery                                           *)
  emailTopic,  (* email_topic subscribes to /email                         *)
  chargeLevel, (* charge_level                                             *)
  isCharging,  (* is_charging                                              *)
  prevKnown,   (* prev_charge_level is not None                            *)
  isFirst,     (* is_first_time                                            *)
  warnPc       (* where the two threads are                                *)

batteryVars == <<level, emailTopic, chargeLevel, isCharging, prevKnown, isFirst, warnPc>>
allVars == <<shutdownVars, batteryVars>>

Charging == ~input

Init ==
  /\ ShutdownInit /\ level = 2 /\ emailTopic = FALSE
  /\ chargeLevel = NoLevel /\ isCharging = FALSE /\ prevKnown = FALSE /\ isFirst = FALSE
  /\ warnPc = [timer |-> "idle", cb |-> "idle"]

Launch ==
  /\ ShutdownLaunch /\ emailTopic' \in BOOLEAN
  /\ UNCHANGED <<level, chargeLevel, isCharging, prevKnown, isFirst, warnPc>>
Battery ==
  /\ guardPc # "off" /\ level' = IF Charging THEN Min({level + 1, 2}) ELSE Max({level - 1, 0})
  /\ UNCHANGED <<shutdownVars, emailTopic, chargeLevel, isCharging, prevKnown, isFirst, warnPc>>
Goto(t, l) == warnPc' = [warnPc EXCEPT ![t] = l]

(* _cb: each attribute is set in a step of its own. *)
BatteryMessage ==
  /\ guardPc # "off" /\ warnPc.cb = "idle" /\ Goto("cb", "charging")
  /\ isFirst' = (chargeLevel = NoLevel) /\ chargeLevel' = level
  /\ UNCHANGED <<shutdownVars, level, emailTopic, isCharging, prevKnown>>
SetIsCharging ==
  /\ warnPc.cb = "charging" /\ isCharging' = Charging /\ Goto("cb", IF isFirst THEN "prev" ELSE "idle")
  /\ isFirst' = FALSE
  /\ UNCHANGED <<shutdownVars, level, emailTopic, chargeLevel, prevKnown>>
SetPrevLevel ==
  /\ warnPc.cb = "prev" /\ prevKnown' = TRUE /\ Goto("cb", "warn")
  /\ UNCHANGED <<shutdownVars, level, emailTopic, chargeLevel, isCharging, isFirst>>
TimerFires ==
  /\ guardPc # "off" /\ warnPc.timer = "idle" /\ Goto("timer", "warn")
  /\ UNCHANGED <<shutdownVars, level, emailTopic, chargeLevel, isCharging, prevKnown, isFirst>>

(* _warn *)
Ended(t, reason) == Goto(t, IF t = "cb" THEN "idle" ELSE reason)
Below(threshold) == chargeLevel = NoLevel \/ chargeLevel < threshold
Decide(t, threshold, yes, no) ==
  Goto(t, IF Below(threshold) /\ ~isCharging THEN yes ELSE no) /\ UNCHANGED prevKnown
ChargeFirst(t) ==
  \/ warnPc[t] = "warn" /\ Decide(t, 2, "charge", "shutdown?")
  \/ warnPc[t] = "shutdown?" /\ Decide(t, 1, "shutdown", "changed?")
Thresholds(t) ==
  \/ warnPc[t] = "warn" /\ Decide(t, 1, "shutdown", "charge?")
  \/ warnPc[t] = "charge?" /\ Decide(t, 2, "charge", "changed?")
RequestShutdown(t) ==
  /\ warnPc[t] = "shutdown" /\ Goto(t, "idle")
  /\ IF requests < MaxRequests THEN Request ELSE UNCHANGED requests
  /\ UNCHANGED prevKnown
AskForCharge(t) ==
  /\ warnPc[t] = "charge" /\ prevKnown' = TRUE /\ Goto(t, "mail")
(* body is a string in a field that is a list of EmailBody. *)
SendMail(t) ==
  /\ warnPc[t] = "mail" /\ UNCHANGED prevKnown
  /\ IF emailTopic THEN Ended(t, "no mail") ELSE Goto(t, "idle")
AnnounceLevel(t) ==
  /\ warnPc[t] = "changed?" /\ UNCHANGED prevKnown
  /\ IF prevKnown THEN Goto(t, "idle") ELSE Ended(t, "no level")
Warn(t) ==
  /\ \/ /\ Thresholds(t) \/ AskForCharge(t) \/ SendMail(t) \/ AnnounceLevel(t)
        /\ UNCHANGED requests
     \/ RequestShutdown(t)
  /\ UNCHANGED <<conditioned, input, guardVars, power, level, emailTopic, chargeLevel, isCharging, isFirst>>

Cb == BatteryMessage \/ SetIsCharging \/ SetPrevLevel \/ Warn("cb")
Timer == TimerFires \/ Warn("timer")
Guard == (InputChanges \/ GuardCallback \/ SomebodyRequests \/ ShutdownCallback \/ Reboot) /\ UNCHANGED batteryVars
Next == power = "on" /\ (Launch \/ Battery \/ Cb \/ Timer \/ Guard)

Fairness ==
  /\ WF_allVars(power = "on" /\ Cb) /\ WF_allVars(power = "on" /\ Timer)
  /\ WF_allVars((AnyMsg \/ Resubscribe \/ StoreFirst) /\ GuardCallback /\ UNCHANGED batteryVars)
  /\ WF_allVars(TypedMsg /\ GuardCallback /\ UNCHANGED batteryVars)
  /\ WF_allVars(ShutdownCallback /\ UNCHANGED batteryVars)
Spec == Init /\ [][Next]_allVars /\ Fairness

-----------------------------------------------------------------------------
Low == level = 0 /\ ~Charging

(* A battery that stays low and off the charger has the robot powered off, *)
(* as long as no exception has ended the timer: the first message and the  *)
(* timer may warn at the same time, the levels may change between the      *)
(* tests, and a request that a stale message denied is made again.         *)
StaysLowPowersOff ==
  [](warnPc.timer \notin {"no mail", "no level"}) /\ <>[]Low => <>(power = "off")

(* If from some time on every message denies the shutdown, so does the     *)
(* message that the node remembers: the first message, stored late by the  *)
(* callback that found out the type, does not stay.                        *)
GuardHolds ==
  (<>[](conditioned /\ Charging)) => <>[](power = "off" \/ lastReceived = FALSE)
=============================================================================
