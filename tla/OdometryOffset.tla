--------------------------- MODULE OdometryOffset ---------------------------
(***************************************************************************)
(* Where an odometry begins: CalculateOdomInitToBaseLinkTransform computes *)
(* the pose of the robot in the frame odom_init from the base odometry and *)
(* publishes it, latched; OdometryOffset shifts a source odometry, which   *)
(* has a frame of its own, so that it continues from that pose.            *)
(***************************************************************************)
EXTENDS Poses, SequencesExt

CONSTANTS
  MaxSteps,     (* bound on how often the robot moves                      *)
  Shift,        (* the origin of the source odometry                       *)
  MaxPending,   (* bound on the transforms under way                       *)
  NoValue       (* Python's None                                           *)

VARIABLES
  place,        (* the pose of the robot                                   *)
  steps,        (* how often it has moved                                  *)
  baseOdom,     (* base_odom                                               *)
  offsetTransform,
  underWay,     (* the transforms published, not yet received: the value,  *)
                (* the frame and the base odometry it comes from           *)
  initial,      (* initial_base_link_transform, with the same              *)
  offsetMatrix,
  anchor,       (* where the robot was when offset_matrix was computed     *)
  prevOdom,     (* prev_odom: its position, and where the robot was        *)
  offPc

calcVars == <<baseOdom, offsetTransform>>
robotVars == <<place, steps>>
offVars == <<robotVars, calcVars, underWay, initial, offsetMatrix, anchor, prevOdom, offPc>>

Transform(base, frame) ==
  [value |-> Compose(Invert(frame), base), frame |-> frame, base |-> base]

Init ==
  /\ place = Origin /\ steps = 0 /\ baseOdom = NoValue /\ offsetTransform = NoValue /\ underWay = <<>>
  /\ initial = Transform(Origin, Origin) /\ offsetMatrix = NoValue /\ anchor = Origin /\ prevOdom = NoValue
  /\ offPc = "off"

Launch ==
  /\ offPc = "off" /\ offPc' = "run"
  /\ UNCHANGED <<robotVars, calcVars, underWay, initial, offsetMatrix, anchor, prevOdom>>
Walk ==
  /\ offPc = "run" /\ steps < MaxSteps /\ steps' = steps + 1
  /\ \E step \in {Ahead, Around} : place' = Compose(place, step)
  /\ UNCHANGED <<calcVars, underWay, initial, offsetMatrix, anchor, prevOdom, offPc>>

(* CalculateOdomInitToBaseLinkTransform: the frame is the origin of the    *)
(* base odometry at first and then what base_to_init_transform says.       *)
Calculate(base, frame) == IF base = NoValue THEN NoValue ELSE Transform(base, frame)
PublishTransform ==
  IF offsetTransform' = NoValue THEN UNCHANGED underWay
  ELSE underWay' = Append(underWay, offsetTransform')
BaseOdomCallback ==
  /\ offPc = "run" /\ Len(underWay) < MaxPending /\ baseOdom' = place
  /\ IF offsetTransform = NoValue
     THEN offsetTransform' = Calculate(baseOdom', Origin) /\ PublishTransform
     ELSE UNCHANGED <<offsetTransform, underWay>>
  /\ UNCHANGED <<robotVars, initial, offsetMatrix, anchor, prevOdom, offPc>>
BaseToInitTransformCallback ==
  /\ offPc = "run" /\ Len(underWay) < MaxPending
  /\ offsetTransform' = Calculate(baseOdom, place) /\ PublishTransform
  /\ UNCHANGED <<robotVars, baseOdom, initial, offsetMatrix, anchor, prevOdom, offPc>>

(* OdometryOffset: the first source message after a transform only fixes   *)
(* the offset.                                                             *)
Restart == offsetMatrix' = NoValue /\ prevOdom' = NoValue
InitTransformCallback ==
  /\ underWay # <<>> /\ underWay' = Tail(underWay) /\ initial' = Head(underWay) /\ Restart
  /\ UNCHANGED <<robotVars, calcVars, anchor, offPc>>
SourceOdomCallback ==
  /\ offPc = "run"
  /\ LET pose == Compose(Shift, place)
     IN IF offsetMatrix = NoValue
        THEN offsetMatrix' = Compose(initial.value, Invert(pose)) /\ anchor' = place /\ UNCHANGED prevOdom
        ELSE prevOdom' = [pose |-> Compose(offsetMatrix, pose), place |-> place]
             /\ UNCHANGED <<offsetMatrix, anchor>>
  /\ UNCHANGED <<robotVars, calcVars, underWay, initial, offPc>>

Next ==
  \/ Launch \/ Walk \/ BaseOdomCallback \/ BaseToInitTransformCallback
  \/ InitTransformCallback \/ SourceOdomCallback

Spec == Init /\ [][Next]_offVars

-----------------------------------------------------------------------------
(* What OdometryOffset publishes is the pose of the robot in the frame the *)
(* last transform was for, but that the robot moved on between the base    *)
(* odometry that transform was made from and the source message that fixed *)
(* the offset (neither node compares the stamps): it is what the robot did *)
(* since that message, from the pose it had for that transform, however    *)
(* transforms and messages overtake each other and whatever the frame of   *)
(* the source odometry is.                                                 *)
OutputIsInInitFrame ==
  prevOdom # NoValue =>
    LET since == Compose(Invert(anchor), prevOdom.place)
    IN prevOdom.pose = Compose(Compose(Invert(initial.frame), initial.base), since)
=============================================================================
