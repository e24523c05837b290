------------------------ MODULE BaseTrajectoryLogger ------------------------
(***************************************************************************)
(* The logger of the base trajectory.  The main loop inserts the latest    *)
(* pose in the data base when it is far enough from the last one that was  *)
(* inserted.  The pose comes from a look-up in the transforms, or from a   *)
(* callback on the pose of amcl, which rospy runs in another thread and    *)
(* which writes latest_pose without a lock.                                *)
(*                                                                         *)
(* A pose is a number: two poses are apart by the distance or the angle    *)
(* that diff_pose compares with ~thre and ~rthre.  The insertion itself is *)
(* assumed to succeed, and the clock not to be set back.                   *)
(***************************************************************************)
EXTENDS Integers

CONSTANTS
  Poses,        (* the poses of the robot, a set of numbers                *)
  Thre,         (* poses further apart than this are both logged           *)
  NoPose        (* Python's None                                           *)

VARIABLES
  useAmcl,      (* ~use_amcl                                               *)
  robot,        (* where the robot is                                      *)
  localized,    (* transforms are available, or amcl runs                  *)
  stored,       (* the last pose in the data base                          *)
  latestPose,   (* latest_pose                                             *)
  prevPose,     (* prev_pose                                               *)
  ahead,        (* the clock has not reached the stamp of prev_pose yet    *)
  trajPc

worldVars == <<useAmcl, robot, localized>>
trajVars == <<worldVars, stored, latestPose, prevPose, ahead, trajPc>>

Init ==
  /\ useAmcl = FALSE /\ robot = (CHOOSE p \in Poses : TRUE) /\ localized = FALSE
  /\ stored = NoPose /\ latestPose = NoPose /\ prevPose = NoPose
  /\ ahead = FALSE /\ trajPc = "off"

TrajGoto(l) == trajPc' = l
TrajUp == trajPc # "off"

(* The node starts beside the data base of an earlier run. *)
Launch ==
  /\ trajPc = "off" /\ TrajGoto("load")
  /\ useAmcl' \in BOOLEAN /\ localized' \in BOOLEAN
  /\ stored' \in Poses \cup {NoPose}
  /\ UNCHANGED <<robot, latestPose, prevPose, ahead>>
Move(p) ==
  /\ TrajUp /\ p # robot /\ robot' = p
  /\ UNCHANGED <<useAmcl, localized, stored, latestPose, prevPose, ahead, trajPc>>
Localize ==
  /\ TrajUp /\ localized' = ~localized
  /\ UNCHANGED <<useAmcl, robot, stored, latestPose, prevPose, ahead, trajPc>>

(* A pose may bear a stamp of another host's clock. *)
TimePasses ==
  /\ ahead /\ ahead' = FALSE
  /\ UNCHANGED <<worldVars, stored, latestPose, prevPose, trajPc>>

(* load_latest_pose, whose query may fail, then publish_initial_pose, once *)
(* somebody subscribes to it.                                              *)
LoadLatestPose ==
  /\ trajPc = "load"
  /\ latestPose' \in {stored, NoPose}
  /\ TrajGoto(IF latestPose' = NoPose THEN "get" ELSE "publish")
  /\ UNCHANGED <<worldVars, stored, prevPose, ahead>>
PublishInitialPose ==
  /\ trajPc = "publish" /\ TrajGoto("get")
  /\ UNCHANGED <<worldVars, stored, latestPose, prevPose, ahead>>

AmclCb ==
  /\ useAmcl /\ localized /\ trajPc \notin {"off", "load", "publish"}
  /\ latestPose' = robot
  /\ UNCHANGED <<worldVars, stored, prevPose, ahead, trajPc>>

(* run *)
GetPoseFromTf ==
  /\ trajPc = "get" /\ TrajGoto("look")
  /\ latestPose' = IF useAmcl THEN latestPose
                   ELSE IF localized THEN robot ELSE NoPose
  /\ UNCHANGED <<worldVars, stored, prevPose, ahead>>

Apart(p, q) == p - q > Thre \/ q - p > Thre
FarForward(p, q) == q - p > Thre
Far(p, q) == Apart(p, q)
Look ==
  /\ trajPc = "look"
  /\ TrajGoto(IF latestPose = NoPose THEN "get"
              ELSE IF prevPose = NoPose \/ (~ahead /\ Far(prevPose, latestPose)) THEN "insert"
              ELSE "clear")
  /\ UNCHANGED <<worldVars, stored, latestPose, prevPose, ahead>>
Insert ==
  /\ trajPc = "insert" /\ stored' = latestPose /\ TrajGoto("remember")
  /\ UNCHANGED <<worldVars, latestPose, prevPose, ahead>>
Remember ==
  /\ trajPc = "remember" /\ prevPose' = latestPose /\ ahead' \in BOOLEAN /\ TrajGoto("clear")
  /\ UNCHANGED <<worldVars, stored, latestPose>>
Clear ==
  /\ trajPc = "clear" /\ latestPose' = NoPose /\ TrajGoto("get")
  /\ UNCHANGED <<worldVars, stored, prevPose, ahead>>

Run == LoadLatestPose \/ GetPoseFromTf \/ Look \/ Insert \/ Remember \/ Clear
Next ==
  \/ Launch \/ Localize \/ AmclCb \/ TimePasses \/ PublishInitialPose \/ Run
  \/ \E p \in Poses : Move(p)

(* Nothing makes somebody subscribe to the initial pose. *)
Fairness == WF_trajVars(Run) /\ WF_trajVars(AmclCb) /\ WF_trajVars(TimePasses)
Spec == Init /\ [][Next]_trajVars /\ Fairness

-----------------------------------------------------------------------------
(* With poses from the transforms, the trajectory in the data base ends    *)
(* near the robot once it stands still, whatever was stored before and     *)
(* however the transforms came and went -- unless the logger waits for     *)
(* ever for a subscriber of the initial pose.                              *)
TrajectoryEndsAtRobot ==
  \A p \in Poses :
    <>[](robot = p /\ localized /\ ~useAmcl /\ trajPc \notin {"off", "publish"})
      => <>[](stored # NoPose /\ ~Apart(stored, p))
=============================================================================
