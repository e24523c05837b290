----------------------- MODULE OdometryFeedbackWrapper -----------------------
(***************************************************************************)
(* OdometryFeedbackWrapper corrects a source odometry by a second one that *)
(* comes rarely and late.  Each source message is shifted by an offset and *)
(* kept in a history; a feedback message is carried from its stamp to that *)
(* of the current odometry along the history, merged with the current      *)
(* pose, and a new offset makes the next outputs start from there.  The    *)
(* twist of a message is the motion since the time unit before, in which   *)
(* the robot goes ahead or turns.                                          *)
(***************************************************************************)
EXTENDS Poses, SequencesExt

CONSTANTS
  MaxWrapTime,  (* bound on the time                                       *)
  NoMsg         (* Python's None                                           *)

VARIABLES
  path,         (* the pose of the robot after each unit of time           *)
  slip,         (* the frame of the source odometry, moved by its error    *)
  wrapOdom,     (* odom: pose, stamp and twist                             *)
  sourceOdom, feedbackOdom,
  offset,       (* offset_homogeneous_matrix                               *)
  history,      (* odom_history                                            *)
  prevFeedback, (* prev_feedback_time                                      *)
  feedbackPc,   (* where feedback_odom_callback is                         *)
  wrapPc

motionVars == <<path, slip>>
wrapVars == <<motionVars, wrapOdom, sourceOdom, feedbackOdom, offset, history, prevFeedback,
              feedbackPc, wrapPc>>

Clock == Len(path)
Truth(t) == IF t = 0 THEN Origin ELSE path[t]
TwistAt(t) == IF t = 0 THEN Origin ELSE Compose(Invert(Truth(t - 1)), Truth(t))

Init ==
  /\ path = <<>> /\ slip = Origin /\ wrapOdom = NoMsg /\ sourceOdom = NoMsg /\ feedbackOdom = NoMsg
  /\ offset = Origin /\ history = <<>> /\ prevFeedback = 0 /\ feedbackPc = "none"
  /\ wrapPc = "off"

Launch ==
  /\ wrapPc = "off" /\ wrapPc' = "run"
  /\ UNCHANGED <<motionVars, wrapOdom, sourceOdom, feedbackOdom, offset, history, prevFeedback, feedbackPc>>
(* The robot moves, and its source odometry may err meanwhile, once: it    *)
(* goes ahead or turns where the robot does not.                           *)
Slipped(at, error) == Compose(Compose(at, error), Invert(at))
Move ==
  /\ wrapPc = "run" /\ Clock < MaxWrapTime
  /\ \E step \in {Ahead, Around} : path' = Append(path, Compose(Truth(Clock), step))
  /\ \/ UNCHANGED slip
     \/ slip = Origin /\ \E error \in {Ahead, Around} : slip' = Slipped(Truth(Clock), error)
  /\ UNCHANGED <<wrapOdom, sourceOdom, feedbackOdom, offset, history, prevFeedback, feedbackPc, wrapPc>>

InitSignalCallback ==
  /\ wrapPc = "run"
  /\ history' = <<>> /\ prevFeedback' = Clock /\ offset' = Origin
  /\ wrapOdom' = NoMsg /\ sourceOdom' = NoMsg /\ feedbackOdom' = NoMsg
  /\ UNCHANGED <<motionVars, feedbackPc, wrapPc>>

(* source_odom_callback with calculate_odometry and publish_odometry; a    *)
(* message that the queue drops is one for which this never happens        *)
SourceOdomCallback ==
  /\ wrapPc = "run" /\ (sourceOdom # NoMsg => Clock > sourceOdom.stamp)
  /\ sourceOdom' = [pose |-> Compose(slip, Truth(Clock)), stamp |-> Clock, twist |-> TwistAt(Clock)]
  /\ wrapOdom' = [sourceOdom' EXCEPT !.pose = Compose(@, offset)]
  /\ history' = Append(history, wrapOdom')
  /\ UNCHANGED <<motionVars, feedbackOdom, offset, prevFeedback, feedbackPc, wrapPc>>

-----------------------------------------------------------------------------
(* update_pose: dt units of time with this twist, towards heading.  To add *)
(* the angle to the quaternion turns it by as much only when that is       *)
(* small; here it always does.                                             *)
Turns(s, dt) == IF dt % 2 = 0 THEN 1 ELSE s
UpdatePose(pose, heading, twist, dt) ==
  [x |-> pose.x + Facing(heading, twist.x) * dt, s |-> Facing(pose.s, Turns(twist.s, dt))]

(* The pose is carried along one entry of the history after the other,     *)
(* towards the heading that entry has.                                     *)
AlongFromStart(f, h) ==
  IF h.stamp > f.stamp
  THEN [f EXCEPT !.pose = UpdatePose(@, h.pose.s, h.twist, h.stamp - f.stamp), !.twist = h.twist]
  ELSE f
Along(f, h) ==
  IF h.stamp > f.stamp
  THEN [pose |-> UpdatePose(f.pose, h.pose.s, h.twist, h.stamp - f.stamp),
        stamp |-> h.stamp, twist |-> h.twist]
  ELSE f
CarriedForward(f) ==
  LET along[n \in 0..Len(history)] ==
        IF n = 0 THEN f ELSE Along(along[n - 1], history[n])
      g == along[Len(history)]
  IN UpdatePose(g.pose, g.pose.s, g.twist, wrapOdom.stamp - g.stamp)

(* feedback_odom_callback reads odom and writes feedback_odom before it    *)
(* takes the lock; init_signal_callback may come in between.               *)
CheckOdom ==
  /\ wrapPc = "run" /\ feedbackPc = "none" /\ wrapOdom # NoMsg /\ feedbackPc' = "store"
  /\ UNCHANGED <<motionVars, wrapOdom, sourceOdom, feedbackOdom, offset, history, prevFeedback, wrapPc>>
StoreFeedback ==
  /\ feedbackPc = "store" /\ feedbackPc' = "merge"
  /\ \E t \in 0..Clock : feedbackOdom' = [pose |-> Truth(t), stamp |-> t, twist |-> TwistAt(t)]
  /\ UNCHANGED <<motionVars, wrapOdom, sourceOdom, offset, history, prevFeedback, wrapPc>>

(* check_covariance and check_distribution_difference depend on the        *)
(* covariances: they may enable the feedback or not.  So does the weight   *)
(* of the two poses in calculate_mean_and_covariance: one may be all.      *)
MaxFeedbackTime == 2
Due == wrapOdom.stamp - prevFeedback > MaxFeedbackTime
Offset(pose) == Compose(Invert(sourceOdom.pose), pose)
AttributeMissing ==
  /\ feedbackPc = "merge" /\ NoMsg \in {wrapOdom, feedbackOdom} /\ feedbackPc' = "none"
  /\ UNCHANGED <<motionVars, wrapOdom, sourceOdom, feedbackOdom, offset, history, prevFeedback, wrapPc>>
Refuse ==
  /\ feedbackPc = "merge" /\ NoMsg \notin {wrapOdom, feedbackOdom} /\ ~Due /\ feedbackPc' = "none"
  /\ UNCHANGED <<motionVars, wrapOdom, sourceOdom, feedbackOdom, offset, history, prevFeedback, wrapPc>>
Merge ==
  /\ feedbackPc = "merge" /\ NoMsg \notin {wrapOdom, feedbackOdom} /\ feedbackPc' = "none"
  /\ LET pose == CarriedForward(feedbackOdom)
     IN /\ feedbackOdom' = [feedbackOdom EXCEPT !.pose = pose, !.stamp = wrapOdom.stamp]
        /\ \E merged \in {pose, wrapOdom.pose} :
             wrapOdom' = [wrapOdom EXCEPT !.pose = merged] /\ offset' = Offset(merged)
  /\ prevFeedback' = wrapOdom.stamp /\ history' = <<>>
  /\ UNCHANGED <<motionVars, sourceOdom, wrapPc>>

Next ==
  \/ Launch \/ Move \/ InitSignalCallback \/ SourceOdomCallback
  \/ CheckOdom \/ StoreFeedback \/ AttributeMissing \/ Refuse \/ Merge

Spec == Init /\ [][Next]_wrapVars

-----------------------------------------------------------------------------
(* The output is the source odometry and the offset, after an init signal  *)
(* or a source message that comes while a feedback waits for the lock too. *)
OffsetIsCurrent ==
  wrapOdom # NoMsg => wrapOdom.pose = Compose(sourceOdom.pose, offset)

(* A feedback is carried to the right place: if every source message since *)
(* its stamp is in the history, the pose to be merged has the heading of   *)
(* the robot at the stamp of the current odometry, and if the headings in  *)
(* the history are right - a slip in yaw makes them wrong until the next   *)
(* feedback - it is the pose of the robot.                                 *)
Passed(f) == {h \in ToSet(history) : h.stamp > f.stamp}
Complete(f) ==
  /\ f.stamp <= wrapOdom.stamp
  /\ (f.stamp + 1)..wrapOdom.stamp \subseteq {h.stamp : h \in Passed(f)}
Aligned(f) == \A h \in Passed(f) : h.pose.s = Truth(h.stamp).s
FeedbackIsCarriedForward ==
  feedbackPc = "merge" /\ NoMsg \notin {wrapOdom, feedbackOdom} /\ Complete(feedbackOdom) =>
    LET pose == CarriedForward(feedbackOdom)
        right == Truth(wrapOdom.stamp)
    IN pose.s = right.s /\ (Aligned(feedbackOdom) => pose = right)
=============================================================================
