------------------------------ MODULE Shutdown ------------------------------
(***************************************************************************)
(* The node shutdown of jsk_robot_startup: on a request it powers the      *)
(* robot off, unless the last message of another topic denies it.  The     *)
(* type of that topic is not known at first: the first subscription takes  *)
(* any message, replaces itself with one of the right type, and only then  *)
(* stores its message, while the thread of the new subscription may store  *)
(* messages already.                                                       *)
(*                                                                         *)
(* A message is what the condition makes of it, TRUE or FALSE; the time at *)
(* which it came, which a condition may use too, is left out.              *)
(***************************************************************************)
EXTENDS Naturals

CONSTANTS
  MaxRequests,  (* bound on the requests that wait                         *)
  NoMessage     (* Python's None                                           *)

VARIABLES
  conditioned,  (* ~input_condition is set                                 *)
  input,        (* what the next message of the topic says                 *)
  firstMsg,     (* the message that the first callback holds               *)
  lastReceived, (* last_received_topic                                     *)
  guardPc,      (* the subscription to the topic                           *)
  requests,     (* how many requests to shut down wait                     *)
  power         (* off once a command was called                           *)

guardVars == <<firstMsg, lastReceived, guardPc>>
shutdownVars == <<conditioned, input, guardVars, requests, power>>

ShutdownInit ==
  /\ conditioned = FALSE /\ input = TRUE /\ firstMsg = NoMessage
  /\ lastReceived = NoMessage /\ guardPc = "off" /\ requests = 0 /\ power = "on"

ShutdownLaunch ==
  /\ guardPc = "off" /\ guardPc' = "any" /\ conditioned' \in BOOLEAN
  /\ UNCHANGED <<input, firstMsg, lastReceived, requests, power>>

InputChanges ==
  /\ guardPc # "off" /\ input' = ~input
  /\ UNCHANGED <<conditioned, guardVars, requests, power>>

(* callback: of the first subscription, and of the second. *)
AnyMsg ==
  /\ guardPc = "any" /\ conditioned /\ guardPc' = "unregistered" /\ firstMsg' = input
  /\ UNCHANGED lastReceived
Resubscribe ==
  /\ guardPc = "unregistered" /\ guardPc' = "both" /\ UNCHANGED <<firstMsg, lastReceived>>
StoreFirst ==
  /\ guardPc = "both" /\ guardPc' = "typed" /\ lastReceived' = firstMsg
  /\ firstMsg' = NoMessage
StoreOnce == IF lastReceived = NoMessage THEN input ELSE lastReceived
StoreTyped == input
TypedMsg ==
  /\ guardPc \in {"both", "typed"} /\ lastReceived' = StoreTyped
  /\ UNCHANGED <<firstMsg, guardPc>>
GuardCallback ==
  /\ AnyMsg \/ Resubscribe \/ StoreFirst \/ TypedMsg
  /\ UNCHANGED <<conditioned, input, requests, power>>

(* shutdown and reboot *)
Request == requests' = requests + 1
SomebodyRequests ==
  /\ guardPc # "off" /\ requests < MaxRequests /\ Request
  /\ UNCHANGED <<conditioned, input, guardVars, power>>
Refused == conditioned /\ lastReceived \in {NoMessage, FALSE}
ShutdownCallback ==
  /\ requests > 0 /\ requests' = requests - 1
  /\ IF Refused THEN UNCHANGED power ELSE power' = "off"
  /\ UNCHANGED <<conditioned, input, guardVars>>
Reboot ==
  /\ guardPc # "off" /\ power' = "off"
  /\ UNCHANGED <<conditioned, input, guardVars, requests>>
=============================================================================
