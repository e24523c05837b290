------------------------- MODULE OdometryIntegrator -------------------------
(***************************************************************************)
(* OdometryIntegrator merges two odometries.  Callbacks store the newest   *)
(* message of each; a loop carries both to the current time, merges them   *)
(* and broadcasts the result as a transform.  The robot moves by one unit  *)
(* of length in one unit of time: a pose is right when it equals its time, *)
(* and a message is given by its stamp, which is its pose as well.         *)
(***************************************************************************)
EXTENDS Integers

CONSTANTS
  MaxClock,     (* bound on the time                                       *)
  MaxUses,      (* bound on how often a message is carried forward         *)
  Threshold,    (* ~time_threshould                                        *)
  NoInput       (* Python's None                                           *)

Sides == {0, 1}

VARIABLES
  clock,
  odoms,        (* the stamp and the pose of each, which the loop changes, *)
                (* and how often it has carried the message forward        *)
  result,       (* result_odom: its pose, its time, and whether both       *)
                (* messages were new and had their transforms              *)
  transform,    (* the last one broadcast                                  *)
  integPc

integVars == <<clock, odoms, result, transform, integPc>>

Init ==
  /\ clock = 0 /\ odoms = [i \in Sides |-> NoInput] /\ result = NoInput
  /\ transform = NoInput /\ integPc = "off"

Launch == integPc = "off" /\ integPc' = "run" /\ UNCHANGED <<clock, odoms, result, transform>>
Pass ==
  /\ integPc = "run" /\ clock < MaxClock /\ clock' = clock + 1
  /\ UNCHANGED <<odoms, result, transform, integPc>>

Callback(i) ==
  /\ integPc = "run"
  /\ \E t \in 0..clock : odoms' = [odoms EXCEPT ![i] = [stamp |-> t, pos |-> t, uses |-> 0]]
  /\ UNCHANGED <<clock, result, transform, integPc>>

(* check initialization, check timestamp *)
Distance(s, t) == IF s < t THEN t - s ELSE s - t
Usable ==
  /\ \A i \in Sides : odoms[i] # NoInput
  /\ Distance(odoms[0].stamp, odoms[1].stamp) <= Threshold

(* update_odom_pose moves the stored message itself and leaves its stamp; *)
(* a transform that is missing leaves it as it is.                         *)
SinceStamp(o) == clock - o.stamp
CarryForward(o, known) ==
  [stamp |-> o.stamp, pos |-> IF known THEN o.pos + SinceStamp(o) ELSE o.pos, uses |-> o.uses + 1]

Broadcast == IF result' = NoInput THEN UNCHANGED transform
             ELSE transform' = [pos |-> result'.pos, time |-> clock]
Execute ==
  /\ integPc = "run" /\ \A i \in Sides : odoms[i] # NoInput => odoms[i].uses < MaxUses
  /\ IF Usable
     THEN \E known \in SUBSET Sides :
            /\ odoms' = [i \in Sides |-> CarryForward(odoms[i], i \in known)]
            /\ \E i \in Sides :
                 result' = [pos |-> odoms'[i].pos, time |-> clock,
                            fresh |-> known = Sides /\ \A j \in Sides : odoms[j].uses = 0]
     ELSE UNCHANGED <<odoms, result>>
  /\ Broadcast
  /\ UNCHANGED <<clock, integPc>>

Next == Launch \/ Pass \/ Execute \/ \E i \in Sides : Callback(i)

Spec == Init /\ [][Next]_integVars

-----------------------------------------------------------------------------
(* What is published is the pose of the robot at the time it is published  *)
(* for, if the loop sees both messages for the first time and knows both   *)
(* transforms, however late and far apart the messages come.  A message    *)
(* that the loop sees again it moves by the whole time since its stamp     *)
(* once more: nothing is promised then.                                    *)
FreshOdometryIsCurrent ==
  result # NoInput => (result.fresh => result.pos = result.time)
=============================================================================
