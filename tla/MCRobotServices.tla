-------------------------- MODULE MCRobotServices --------------------------
(***************************************************************************)
(* The robot's services on an instance: the driver and another node report *)
(* their diagnostics, where one status has the message of another.         *)
(***************************************************************************)
EXTENDS RobotServices, TLC

CONSTANTS driver, other, s1, s2, s3, m1, m2

MCReports == driver :> {s1, s2} @@ other :> {s3}
MCMessage == s1 :> m1 @@ s2 :> m2 @@ s3 :> m1
=============================================================================
