------------------------------ MODULE Lifelog ------------------------------
(***************************************************************************)
(* The loggers of the life log, MongoWriter, whose module this one         *)
(* extends, among them.  They share no state: each is a module, and a      *)
(* behaviour here is one of one of them, the others stay off.  What holds  *)
(* in each of them is stated and checked once for all.                     *)
(***************************************************************************)
EXTENDS MongoWriter

CONSTANTS
  Poses, Thre, NoPose,               (* BaseTrajectoryLogger               *)
  Threads, Task, NoTask,             (* LoggerBase                         *)
  LogTopic, Type, NoType,            (* ObjectDetectionLogger, ActionLogger *)
  Base, External, Default, Conns, Black, EscapeTopic,   (* AutomatedLogger *)
  GraphStays, StopsAlone

(* The default argument is no callback, and None no topic one may request. *)
ASSUME LifelogAssumption == "default" \notin Threads /\ NoTopic \notin Requested

VARIABLES
  useAmcl, robot, localized, stored, latestPose, prevPose, ahead, trajPc,
  logger, param, taskId, cbPc, dict, tag, seen, doc,
  follows, published, others, subscribers, snapshot, at, detPc,
  usable, topicType, useless, subscribed, actTopics, actTodo, actPc,
  standalone, live, nodelets, managers, loaded, watched, graphNodes, graphTopics, edges,
  work, updatePc, stopPc, left, names, callPc, callee, item, listed, unheard, ended

Traj == INSTANCE BaseTrajectoryLogger
Log == INSTANCE LoggerBase
Det == INSTANCE ObjectDetectionLogger WITH Topic <- LogTopic
Act == INSTANCE ActionLogger
  WITH Topic <- LogTopic, topics <- actTopics, todo <- actTodo
Aut == INSTANCE AutomatedLogger WITH seen <- listed

trajVars == <<useAmcl, robot, localized, stored, latestPose, prevPose, ahead, trajPc>>
logVars == <<logger, param, taskId, cbPc, dict, tag, seen, doc>>
detVars == <<follows, published, others, subscribers, snapshot, at, detPc>>
actVars == <<usable, topicType, useless, subscribed, actTopics, actTodo, actPc>>
autoVars == <<standalone, live, nodelets, managers, loaded, watched, graphNodes,
              graphTopics, edges, work, updatePc, stopPc, left, names, callPc, callee, item,
              listed, unheard, ended>>
scriptVars == <<trajVars, logVars, detVars, actVars>>
systemVars == <<autoVars, vars>>
lifelogVars == <<scriptVars, systemVars>>

LifelogInit ==
  /\ Init /\ Traj!Init /\ Log!Init /\ Det!Init /\ Act!Init /\ Aut!Init

Off == [traj |-> trajPc = "off", log |-> logger = "none",
        det |-> detPc = "off", act |-> actPc = "off", auto |-> updatePc = "off",
        writer |-> pc["main"] = "off"]
OthersOff(c) == \A o \in DOMAIN Off \ {c} : Off[o]

LifelogNext ==
  \/ OthersOff("traj") /\ Traj!Next /\ UNCHANGED <<logVars, detVars, actVars, systemVars>>
  \/ /\ OthersOff("log") /\ Log!Next
     /\ UNCHANGED <<trajVars, detVars, actVars, systemVars>>
  \/ OthersOff("det") /\ Det!Next /\ UNCHANGED <<trajVars, logVars, actVars, systemVars>>
  \/ OthersOff("act") /\ Act!Next /\ UNCHANGED <<trajVars, logVars, detVars, systemVars>>
  \/ OthersOff("auto") /\ Aut!Next /\ UNCHANGED <<scriptVars, vars>>
  \/ OthersOff("writer") /\ Next /\ UNCHANGED <<scriptVars, autoVars>>

LifelogSpec ==
  /\ LifelogInit /\ [][LifelogNext]_lifelogVars
  /\ Fairness /\ Traj!Fairness /\ Det!Fairness /\ Act!Fairness /\ Aut!Fairness

-----------------------------------------------------------------------------
(* The trajectory in the data base ends near the robot once it stands      *)
(* still, unless the logger waits for a subscriber of the initial pose for *)
(* ever (base_trajectory_logger.py).                                       *)
TrajectoryEndsAtRobot == Traj!TrajectoryEndsAtRobot

(* A document carries a task that was current since its insertion began,   *)
(* never one of an earlier document (logger_base.py).                      *)
TagIsCurrent == Log!TagIsCurrent

(* Once the topics stay as they are, the logger of object detections       *)
(* subscribes to those others subscribe to, and the logger of actions to   *)
(* all topics of actions (object_detection_logger.py, action_logger.py).   *)
SubscribersFollow == Det!SubscriptionsFollow /\ Act!ActionsAreFollowed

(* No topic is logged by two managers at once, unless a call was carried   *)
(* out without being heard, or while shutdown_cb cuts in                   *)
(* (automated_logger.py).                                                  *)
OneLoggerPerTopic == Aut!OneLoggerPerTopic

(* Once the graph of the nodes stays as it is, what is logged is what the  *)
(* graph asks for (automated_logger.py).                                   *)
LoggersFollowGraph == Aut!LoggersFollowGraph
=============================================================================
