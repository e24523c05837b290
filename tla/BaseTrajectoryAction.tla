------------------------ MODULE BaseTrajectoryAction ------------------------
(***************************************************************************)
(* The node pr2_base_trajectory_action: an action server that moves the    *)
(* base of the PR2 along the trajectory of a goal.  ros::spin runs its     *)
(* four callbacks one at a time: goalCallback and cancelCallback (called   *)
(* by actionlib), odomCallback, and update, which a timer calls.           *)
(*                                                                         *)
(* Time is counted in milliseconds from the epoch.  A motion is one        *)
(* coordinate: positions are even numbers and a segment is a line, so that *)
(* a segment of one or two milliseconds is sampled exactly.                *)
(***************************************************************************)
EXTENDS Integers, Sequences

CONSTANTS
  MaxGoals,      (* bound: how many goals the clients send                 *)
  Epoch,         (* the time at which the node starts                      *)
  MaxTime,       (* bound: how many milliseconds the clock advances        *)
  LastGoalTime,  (* bound: goals are sent in the first LastGoalTime ms     *)
  MaxPast,       (* bound: how old the start of a trajectory may be        *)
  MaxFuture,     (* bound: how far ahead a trajectory may start            *)
  MaxPoints,     (* bound: how many points a trajectory has                *)
  Times,         (* the values of time_from_start                          *)
  Positions,     (* the positions of points and of the base                *)
  GoalTimeConstraint   (* goal_time_constraint, 0 by default               *)

ASSUME ConstantsAssumption ==
  /\ {MaxGoals, Epoch, MaxTime, LastGoalTime, MaxPast, MaxFuture, MaxPoints,
      GoalTimeConstraint} \subseteq Nat
  /\ Times \subseteq Nat \ {0}
  /\ Positions \subseteq Int

Goal   == 1 .. MaxGoals
NoGoal == 0

VARIABLES
  now,      (* the clock                                                   *)
  odom,     (* joints_: the stamp, the position, whether the base moves    *)
  sent,     (* how many goals have been sent                               *)
  status,   (* of every goal, in the action server                         *)
  goalEnd,  (* when the trajectory of each goal ends                       *)
  active,   (* active_goal_, NoGoal if null                                *)
  traj,     (* active_traj_->segments, <<>> if active_traj_ is null        *)
  command,  (* the goal whose segment the last command came from           *)
  fault     (* undefined behaviour met                                     *)

vars == <<now, odom, sent, status, goalEnd, active, traj, command, fault>>
goalVars == <<sent, status, goalEnd, active, traj>>

Live == {"active", "preempting"}
Running == fault = "none"

(* The points of a trajectory: their times increase. *)
PointSeq ==
  {p \in UNION {[1 .. n -> [time : Times, pos : Positions]] : n \in 0 .. MaxPoints} :
     \A i, j \in DOMAIN p : i < j => p[i].time < p[j].time}

Init ==
  /\ now = Epoch
  /\ odom \in [stamp : {Epoch}, pos : Positions, moving : {FALSE}]
  /\ sent = 0
  /\ status = [g \in Goal |-> "unknown"]
  /\ goalEnd = [g \in Goal |-> 0]
  /\ active = NoGoal
  /\ traj = <<>>
  /\ command = NoGoal
  /\ fault = "none"
-----------------------------------------------------------------------------
(***************************************************************************)
(* actionlib: the status of a goal, which the handle changes only along    *)
(* the transitions of the action protocol (an error is logged otherwise).  *)
(***************************************************************************)
Terminated(st, g, result) ==
  IF g # NoGoal /\ st[g] \in Live THEN [st EXCEPT ![g] = result] ELSE st

SetCanceled(st, g)  == Terminated(st, g, "preempted")
SetSucceeded(st, g) == Terminated(st, g, "succeeded")
SetAborted(st, g)   == Terminated(st, g, "aborted")
SetRejected(st, g)  == [st EXCEPT ![g] = "rejected"]
SetAccepted(st, g)  == [st EXCEPT ![g] = "active"]
-----------------------------------------------------------------------------
(***************************************************************************)
(* Trajectory.                                                             *)
(***************************************************************************)

(* Spline::sampleWithTimeBounds of a line. *)
Sample(seg, t) ==
  IF t < 0 THEN seg.from
  ELSE IF t > seg.duration THEN seg.to
  ELSE IF seg.duration = 0 THEN seg.from
  ELSE seg.from + ((seg.to - seg.from) * t) \div seg.duration

(* How many segments, from the first one on, satisfy a test: the loops of  *)
(* nextSegment and setTrajectory stop at the first that does not.          *)
Leading(s, Test(_)) ==
  CHOOSE n \in 0 .. Len(s) :
    /\ \A i \in 1 .. n : Test(s[i])
    /\ n < Len(s) => ~Test(s[n + 1])

(* nextSegment: the index of the segment found, 0 if it returns false. *)
NextSegment(s, t) == LET Before(seg) == seg.start < t IN Leading(s, Before)

(* motionAtTime: the position sampled, 0 (BaseMotion()) if it fails. *)
PositionAt(s, t) ==
  LET i == NextSegment(s, t)
  IN IF i = 0 THEN 0 ELSE Sample(s[i], t - s[i].start)

EndTimeIgnoresDuration(s) == s[Len(s)].start

EndTime(s) == s[Len(s)].start + s[Len(s)].duration

(* The segment a fresh trajectory starts with: the base where it is. *)
HereAndNow ==
  [start |-> now - 1, duration |-> 0, from |-> odom.pos, to |-> odom.pos,
   goal |-> NoGoal]

ClearTrajectory == <<HereAndNow>>

(* The part of the previous trajectory that setTrajectory keeps: from the  *)
(* segment of now on, as far as it starts before the new trajectory.       *)
KeptSegments(prev, msgStart) ==
  LET Begun(seg)  == seg.start <= now
      Before(seg) == seg.start < msgStart
      to   == Leading(prev, Before)
      here == Leading(prev, Begun)
      from == IF to < here THEN to ELSE here
  IN SubSeq(prev, IF from = 0 THEN 1 ELSE from, to)

(* The duration of a segment: the time since the point before. *)
Lap(before, time) == time - before

(* The segments of the points.  The first one starts from the last kept    *)
(* segment sampled at msgStart: not at msgStart less the segment's start.  *)
NewSegments(kept, msgStart, points, g) ==
  LET origin == Sample(kept[Len(kept)], msgStart)
      At(i)  == IF i = 0 THEN [time |-> 0, pos |-> origin] ELSE points[i]
  IN [i \in 1 .. Len(points) |->
        [start    |-> msgStart + At(i - 1).time,
         duration |-> Lap(At(i - 1).time, At(i).time),
         from     |-> At(i - 1).pos,
         to       |-> At(i).pos,
         goal     |-> g]]

(* setTrajectory for at least one point. *)
SetTrajectory(msgStart, points, g) ==
  LET prev == IF traj = <<>> THEN ClearTrajectory ELSE traj
      kept == <<HereAndNow>> \o KeptSegments(prev, msgStart)
  IN kept \o NewSegments(kept, msgStart, points, g)
-----------------------------------------------------------------------------
(***************************************************************************)
(* goalCallback and cancelCallback.                                        *)
(***************************************************************************)
KeepsRunningGoal(st) == st
CancelsRunningGoal(st) == SetCanceled(st, active)

(* The names of the joints are not ours. *)
GoalWithOtherJoints(g) ==
  /\ status' = SetRejected(status, g)
  /\ UNCHANGED <<goalEnd, active, traj>>

(* The sizes of the first point do not fit: the current goal has been      *)
(* canceled by then and active_goal_ keeps pointing to it.                 *)
GoalWithBadSizes(g) ==
  /\ status' = SetRejected(CancelsRunningGoal(status), g)
  /\ UNCHANGED <<goalEnd, active, traj>>

(* An accepted goal; without points it means "stop". *)
GoalAccepted(g, msgStart, points) ==
  /\ status' = SetAccepted(CancelsRunningGoal(status), g)
  /\ active' = g
  /\ IF points = <<>>
     THEN traj' = ClearTrajectory /\ UNCHANGED goalEnd
     ELSE /\ traj' = SetTrajectory(msgStart, points, g)
          /\ goalEnd' = [goalEnd EXCEPT ![g] = msgStart + points[Len(points)].time]

GoalCallback ==
  /\ Running /\ sent < MaxGoals /\ now <= Epoch + LastGoalTime
  /\ sent' = sent + 1
  /\ \/ GoalWithOtherJoints(sent + 1)
     \/ GoalWithBadSizes(sent + 1)
     \/ \E offset \in (0 - MaxPast) .. MaxFuture, points \in PointSeq :
          GoalAccepted(sent + 1, now + offset, points)
  /\ UNCHANGED <<now, odom, command, fault>>

(* actionlib has set the status.  For the current goal, setTrajectory is   *)
(* called with an empty message and reads its points[0].                   *)
CancelCallback ==
  /\ Running
  /\ \E g \in Goal :
       /\ status[g] = "active"
       /\ status' = [status EXCEPT ![g] = "preempting"]
       /\ fault' = IF g = active THEN "empty_points" ELSE fault
  /\ UNCHANGED <<now, odom, sent, goalEnd, active, traj, command>>
-----------------------------------------------------------------------------
(***************************************************************************)
(* odomCallback, update and the clock.                                     *)
(***************************************************************************)
OdomCallback ==
  /\ Running
  /\ odom' \in [stamp : odom.stamp .. now, pos : Positions, moving : BOOLEAN]
  /\ UNCHANGED <<now, goalVars, command, fault>>

Tick ==
  /\ Running /\ now < Epoch + MaxTime
  /\ now' = now + 1
  /\ UNCHANGED <<odom, goalVars, command, fault>>

(* The base has stopped at the desired position.  After the end of the     *)
(* trajectory the next velocity is zero, so that both are examined.        *)
InsideGoalConstraints ==
  ~odom.moving /\ odom.pos = PositionAt(traj, odom.stamp)

AnySegment == NextSegment(traj, now) # 0

(* gh == active_goal_: the segment of now belongs to the current goal. *)
OwnSegment ==
  LET i == NextSegment(traj, now) IN i # 0 /\ traj[i].goal = active

(* The goal's fate at this update; active_goal_ is reset with it. *)
NeverAborts ==
  IF now > EndTime(traj) /\ InsideGoalConstraints
  THEN status' = SetSucceeded(status, active) /\ active' = NoGoal
  ELSE UNCHANGED <<status, active>>

Conclude ==
  IF now > EndTime(traj) /\ InsideGoalConstraints
  THEN status' = SetSucceeded(status, active) /\ active' = NoGoal
  ELSE IF now > EndTime(traj) /\ now >= EndTime(traj) + GoalTimeConstraint
       THEN status' = SetAborted(status, active) /\ active' = NoGoal
       ELSE UNCHANGED <<status, active>>

Update ==
  /\ Running /\ active # NoGoal
  /\ OwnSegment
  /\ Conclude
  /\ command' = traj[NextSegment(traj, now)].goal
  /\ UNCHANGED <<now, odom, sent, goalEnd, traj, fault>>
-----------------------------------------------------------------------------
Next == GoalCallback \/ CancelCallback \/ OdomCallback \/ Tick \/ Update

Spec == Init /\ [][Next]_vars

(* Time passes and the timer fires. *)
FairSpec == Spec /\ WF_vars(Tick) /\ WF_vars(Update)
-----------------------------------------------------------------------------
Segment == [start : Int, duration : Nat, from : Int, to : Int,
            goal : Goal \cup {NoGoal}]

(* The types. *)
TypeOK ==
  /\ now \in Epoch .. (Epoch + MaxTime)
  /\ odom \in [stamp : Epoch .. now, pos : Positions, moving : BOOLEAN]
  /\ sent \in 0 .. MaxGoals
  /\ status \in [Goal -> {"unknown", "active", "preempting", "rejected",
                          "preempted", "succeeded", "aborted"}]
  /\ goalEnd \in [Goal -> Int]
  /\ active \in Goal \cup {NoGoal}
  /\ traj \in Seq(Segment)
  /\ command \in Goal \cup {NoGoal}
  /\ fault \in {"none", "empty_points"}

(* The server's live goal is the controller's: two goals are never live at *)
(* once, and no goal is left live that update does not look after, though  *)
(* a goal can end in a callback of another goal, by a cancellation or in   *)
(* update.                                                                 *)
LiveGoalIsCurrent ==
  /\ \A g \in Goal : status[g] \in Live => g = active
  /\ active # NoGoal => status[active] # "rejected"

(* A goal succeeds or aborts only after its own trajectory is over, and    *)
(* aborts only when the time allowed on top of it is over as well.         *)
ConcludesAfterEnd ==
  [][\A g \in Goal :
       /\ status[g] \in Live /\ status'[g] \in {"succeeded", "aborted"}
            => now > goalEnd[g]
       /\ status[g] \in Live /\ status'[g] = "aborted"
            => now >= goalEnd[g] + GoalTimeConstraint]_vars

(* The segments of a goal that was superseded stay in the trajectory until *)
(* the new one starts, but none of them is executed any more.              *)
SupersededNeverCommands ==
  [][command' # command =>
       \A g \in Goal : g > command' => status[g] \in {"unknown", "rejected"}]_vars

(* Every accepted goal with points comes to an end: reached, aborted,      *)
(* superseded by another goal, or the process is gone.                     *)
GoalsTerminate ==
  \A g \in Goal :
    (status[g] \in Live /\ goalEnd[g] # 0) ~> (status[g] \notin Live \/ fault # "none")

(* The trajectory set by cancelCallback is to have no points, "empty"      *)
(* (pr2_base_trajectory_action_controller.cpp:145): setTrajectory takes it.*)
CancelIsHandled == fault # "empty_points"
=============================================================================
