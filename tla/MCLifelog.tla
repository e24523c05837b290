----------------------------- MODULE MCLifelog -----------------------------
(***************************************************************************)
(* A small instance of Lifelog: in the graph of the automated logger Base  *)
(* subscribes to a topic of PlainNode, and that to the same topic of       *)
(* ManagerNode, which is a nodelet manager; or, with ~standalone, to two   *)
(* topics of PlainNode.                                                    *)
(***************************************************************************)
EXTENDS Lifelog

CONSTANTS PlainNode, ManagerNode

OneManager == {ManagerNode}
Chain ==
  LET t == CHOOSE t \in LogTopic : TRUE
  IN [alone \in BOOLEAN |->
        IF alone THEN {<<PlainNode, u, Base>> : u \in LogTopic}
        ELSE {<<PlainNode, t, Base>>, <<ManagerNode, t, PlainNode>>}]

(* The topics have one name for their nodelets, as /a/b and /a_b have; "c" *)
(* and "a" convert to one collection.                                      *)
Names == [t \in LogTopic |-> "a_b"]
Converted == [x \in Topic |-> IF x = "c" THEN "a" ELSE x]
=============================================================================
