----------------------------- MODULE TfOdometry -----------------------------
(***************************************************************************)
(* Two nodes that correct an odometry by a transform of tf, which lags     *)
(* behind the messages: SlamMapTfToOdometry moves the base odometry to the *)
(* frame of the map, CameraToBaseOffset turns the odometry of a camera     *)
(* into one of the base.  A stamp is an index of the trace of the robot,   *)
(* and every stamp has its messages.                                       *)
(***************************************************************************)
EXTENDS Poses, Sequences

CONSTANTS
  MaxStamp,     (* bound on the trace                                       *)
  NoPose        (* Python's None                                            *)

VARIABLES
  trace,        (* by stamp: where the robot is, how far the base odometry  *)
                (* has drifted, and where the camera is on the robot        *)
  tfStamp,      (* the last stamp whose transforms are in the buffer        *)
  onlyMap,      (* pub_only_map_updated                                     *)
  slamStamp,    (* the stamp of the last base odometry handled              *)
  slamOdom,     (* slam_odom                                                *)
  mapOdom,      (* what the node published last                             *)
  cameraStamp,  (* the stamp of the last camera odometry handled            *)
  initialMatrix,
  cameraAnchor, (* where the camera was for initial_matrix, if that is      *)
                (* exact                                                    *)
  cameraOdom,   (* what CameraToBaseOffset published last                   *)
  signals,      (* init_signal came, and its callback sleeps                *)
  tfPc

slamVars == <<slamStamp, slamOdom, mapOdom>>
cameraVars == <<cameraStamp, initialMatrix, cameraAnchor, cameraOdom, signals>>
tfVars == <<trace, tfStamp, onlyMap, slamVars, cameraVars, tfPc>>

Start == [place |-> Origin, drift |-> Origin, head |-> Origin]

Init ==
  /\ trace = <<Start>> /\ tfStamp = 0 /\ onlyMap = TRUE
  /\ slamStamp = 0 /\ slamOdom = NoPose /\ mapOdom = NoPose
  /\ cameraStamp = 0 /\ initialMatrix = NoPose /\ cameraAnchor = NoPose /\ cameraOdom = NoPose
  /\ signals = FALSE /\ tfPc = "off"

Launch ==
  /\ tfPc = "off" /\ tfPc' = "run" /\ onlyMap' \in BOOLEAN
  /\ UNCHANGED <<trace, tfStamp, slamVars, cameraVars>>

(* The robot, the frame of its odometry or its head moves ahead or turns. *)
Tick ==
  /\ tfPc = "run" /\ Len(trace) < MaxStamp
  /\ \E part \in DOMAIN Start, step \in {Ahead, Around} :
       trace' = Append(trace, [trace[Len(trace)] EXCEPT ![part] = Compose(@, step)])
  /\ UNCHANGED <<tfStamp, onlyMap, slamVars, cameraVars, tfPc>>
TfArrives ==
  /\ tfPc = "run" /\ tfStamp < Len(trace) /\ tfStamp' = tfStamp + 1
  /\ UNCHANGED <<trace, onlyMap, slamVars, cameraVars, tfPc>>

(* SlamMapTfToOdometry.  It waits for the transform, and gives up after    *)
(* three seconds.                                                          *)
MapToBaseOdom(stamp) == Invert(trace[stamp].drift)
BaseOdom(stamp) == Compose(trace[stamp].drift, trace[stamp].place)
BaseOdomCallback ==
  /\ tfPc = "run" /\ slamStamp < Len(trace) /\ slamStamp' = slamStamp + 1
  /\ \/ /\ slamStamp' <= tfStamp
        /\ slamOdom' = [pose |-> Compose(MapToBaseOdom(slamStamp'), BaseOdom(slamStamp')),
                        stamp |-> slamStamp']
        /\ mapOdom' = IF onlyMap THEN mapOdom ELSE slamOdom'
     \/ slamStamp' > tfStamp /\ UNCHANGED <<slamOdom, mapOdom>>
  /\ UNCHANGED <<trace, tfStamp, onlyMap, cameraVars, tfPc>>
MapCallback ==
  /\ tfPc = "run" /\ onlyMap /\ slamOdom # NoPose /\ mapOdom' = slamOdom
  /\ UNCHANGED <<trace, tfStamp, onlyMap, slamStamp, slamOdom, cameraVars, tfPc>>

(* CameraToBaseOffset.  Without the transform of the stamp it takes the    *)
(* latest one.  It multiplies the transform of the camera from the left,   *)
(* where the pose of the base would take it from the right.                *)
InitSignal ==
  /\ tfPc = "run" /\ ~signals /\ signals' = TRUE
  /\ UNCHANGED <<trace, tfStamp, onlyMap, slamVars, cameraStamp, initialMatrix, cameraAnchor,
                 cameraOdom, tfPc>>
InitSignalCallback ==
  /\ signals /\ signals' = FALSE /\ initialMatrix' = NoPose /\ cameraAnchor' = NoPose
  /\ UNCHANGED <<trace, tfStamp, onlyMap, slamVars, cameraStamp, cameraOdom, tfPc>>
Lookup(stamp) == IF stamp <= tfStamp THEN stamp ELSE tfStamp
CameraToBase(stamp) == Invert(trace[Lookup(stamp)].head)
SourceOdom(stamp) == Compose(trace[stamp].place, trace[stamp].head)
SourceOdomCallback ==
  /\ tfPc = "run" /\ cameraStamp < Len(trace) /\ cameraStamp' = cameraStamp + 1
  /\ IF tfStamp = 0 THEN UNCHANGED <<initialMatrix, cameraAnchor, cameraOdom>>
     ELSE /\ IF initialMatrix = NoPose
             THEN /\ initialMatrix' = Invert(CameraToBase(cameraStamp'))
                  /\ cameraAnchor' = IF cameraStamp' <= tfStamp THEN trace[cameraStamp'].head ELSE NoPose
             ELSE UNCHANGED <<initialMatrix, cameraAnchor>>
          /\ cameraOdom' =
               [pose  |-> Compose(Compose(initialMatrix', CameraToBase(cameraStamp')),
                                  SourceOdom(cameraStamp')),
                stamp |-> cameraStamp', anchor |-> cameraAnchor', exact |-> cameraStamp' <= tfStamp]
  /\ UNCHANGED <<trace, tfStamp, onlyMap, slamVars, signals, tfPc>>

Next ==
  \/ Launch \/ Tick \/ TfArrives \/ BaseOdomCallback \/ MapCallback
  \/ InitSignal \/ InitSignalCallback \/ SourceOdomCallback
Spec == Init /\ [][Next]_tfVars

-----------------------------------------------------------------------------
(* The odometry in the frame of the map is where the robot was at its      *)
(* stamp, however far the base odometry has drifted and been corrected     *)
(* since.  That of the base follows the base alone, from where the camera  *)
(* was at the first message after a reset, whenever tf had the transforms  *)
(* of the stamps, and as long as neither the robot nor its head is turned: *)
(* only then do their poses commute.                                       *)
Straight(stamp) == trace[stamp].place.s = 1 /\ trace[stamp].head.s = 1
TfOdometryIsExact ==
  /\ mapOdom # NoPose => mapOdom.pose = trace[mapOdom.stamp].place
  /\ cameraOdom # NoPose =>
       (cameraOdom.exact /\ cameraOdom.anchor # NoPose /\ Straight(cameraOdom.stamp) =>
          cameraOdom.pose = Compose(cameraOdom.anchor, trace[cameraOdom.stamp].place))
=============================================================================
