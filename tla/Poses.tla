------------------------------- MODULE Poses -------------------------------
(***************************************************************************)
(* The homogeneous matrices of the nodes for odometry, on a line: a pose   *)
(* is a position and the direction one looks in, up or down the line.      *)
(* This is the smallest set of poses whose composition does not commute.   *)
(***************************************************************************)
EXTENDS Integers

Pose == [x : Int, s : {1, -1}]
Origin == [x |-> 0, s |-> 1]
Ahead == [x |-> 1, s |-> 1]
Around == [x |-> 0, s |-> -1]

(* What is x for one who looks in direction s. *)
Facing(s, x) == IF s = 1 THEN x ELSE -x

Compose(p, q) == [x |-> p.x + Facing(p.s, q.x), s |-> Facing(p.s, q.s)]
Invert(p) == [x |-> -Facing(p.s, p.x), s |-> p.s]
=============================================================================
