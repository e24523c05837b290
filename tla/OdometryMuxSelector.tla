------------------------ MODULE OdometryMuxSelector ------------------------
(***************************************************************************)
(* The node odometry_mux_selector of Fetch: while the primary odometry or  *)
(* its transform is not published it has two muxes, one for each, pass on  *)
(* the secondary source.  The two services are called one after the other. *)
(***************************************************************************)
CONSTANTS Primary, Secondary    (* the two sources *)

VARIABLES
  published,   (* which of the primary topics are being published          *)
  flag,        (* _flag_secondary                                          *)
  target,      (* the source that select asks for                          *)
  odomMux,     (* the source that the mux of the odometry passes on        *)
  tfMux,       (* the source that the mux of the transform passes on       *)
  selectFails, (* some call of a service has failed                        *)
  odomPc

odomMuxVars == <<published, flag, target, odomMux, tfMux, selectFails, odomPc>>

PrimaryTopic == {"odom", "tf"}

Init ==
  /\ published = {}
  /\ flag = FALSE /\ target = Primary
  /\ odomMux = Primary /\ tfMux = Primary
  /\ selectFails = FALSE /\ odomPc = "off"

Launch ==
  /\ odomPc = "off" /\ odomPc' = "services"
  /\ UNCHANGED <<published, flag, target, odomMux, tfMux, selectFails>>

(* The environment: a primary topic stops or comes back. *)
Toggle(t) ==
  /\ odomPc # "off"
  /\ published' = IF t \in published THEN published \ {t} ELSE published \cup {t}
  /\ UNCHANGED <<flag, target, odomMux, tfMux, selectFails, odomPc>>

(* __init__ gives up after 30 s without the services; the messages it then *)
(* waits for only delay it.                                                *)
WaitForServices ==
  /\ odomPc = "services" /\ odomPc' \in {"waitOdom", "exited"}
  /\ UNCHANGED <<published, flag, target, odomMux, tfMux, selectFails>>

Source(secondary) == IF secondary THEN Secondary ELSE Primary

(* A wait_for_message returned or timed out. *)
KeepsFlag == /\ odomPc' = IF flag THEN "selectOdom" ELSE "waitOdom"
             /\ target' = IF flag THEN Source(FALSE) ELSE target
             /\ UNCHANGED flag
Heard == /\ odomPc' = IF flag THEN "selectOdom" ELSE "waitOdom"
         /\ flag' = FALSE
         /\ target' = IF flag THEN Source(FALSE) ELSE target
TimedOut == /\ odomPc' = IF flag THEN "waitOdom" ELSE "selectOdom"
            /\ flag' = TRUE
            /\ target' = IF flag THEN target ELSE Source(TRUE)
WaitOdom ==
  /\ odomPc = "waitOdom"
  /\ \/ "odom" \in published /\ odomPc' = "waitTf" /\ UNCHANGED <<flag, target>>
     \/ "odom" \notin published /\ TimedOut
  /\ UNCHANGED <<published, odomMux, tfMux, selectFails>>
WaitTf ==
  /\ odomPc = "waitTf"
  /\ \/ "tf" \in published /\ Heard
     \/ "tf" \notin published /\ TimedOut
  /\ UNCHANGED <<published, odomMux, tfMux, selectFails>>

(* select: the first failure skips the second call and is only logged. *)
SelectFailed ==
  /\ selectFails' = TRUE /\ odomPc' = "waitOdom"
  /\ UNCHANGED <<odomMux, tfMux>>
SelectOdom ==
  /\ odomPc = "selectOdom"
  /\ \/ odomMux' = target /\ odomPc' = "selectTf" /\ UNCHANGED <<tfMux, selectFails>>
     \/ SelectFailed
  /\ UNCHANGED <<published, flag, target>>
SelectTf ==
  /\ odomPc = "selectTf"
  /\ \/ tfMux' = target /\ odomPc' = "waitOdom" /\ UNCHANGED <<odomMux, selectFails>>
     \/ SelectFailed
  /\ UNCHANGED <<published, flag, target>>

Step == WaitForServices \/ WaitOdom \/ WaitTf \/ SelectOdom \/ SelectTf
Next == Launch \/ Step \/ \E t \in PrimaryTopic : Toggle(t)

Fairness == WF_odomMuxVars(Step)
Spec == Init /\ [][Next]_odomMuxVars /\ Fairness

-----------------------------------------------------------------------------
(* If no call of a service fails and a primary topic is silent for good,   *)
(* both muxes end up at the secondary source; if both primary topics are   *)
(* there for good, both end up at the primary one.  The flag, the two      *)
(* calls and the two waits must not fall out of step.                      *)
Undisturbed == odomPc \notin {"off", "exited"} /\ ~selectFails
BothPass(source) == odomMux = source /\ tfMux = source
SourceFollowsPrimary ==
  /\ \A t \in PrimaryTopic :
       <>[](t \notin published /\ Undisturbed) => <>[]BothPass(Secondary)
  /\ <>[](published = PrimaryTopic /\ Undisturbed) => <>[]BothPass(Primary)
=============================================================================
