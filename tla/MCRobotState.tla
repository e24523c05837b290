---------------------------- MODULE MCRobotState ----------------------------
(***************************************************************************)
(* A small instance of RobotState: the frame of the source odometry that   *)
(* OdometryOffset shifts lies one step ahead and is turned around.         *)
(***************************************************************************)
EXTENDS RobotState

MCShift == Compose(Ahead, Around)
=============================================================================
