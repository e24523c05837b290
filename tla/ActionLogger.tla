---------------------------- MODULE ActionLogger ----------------------------
(***************************************************************************)
(* Which topics action_logger subscribes to.  Every turn of its main loop  *)
(* asks for the published topics that carry goals, results or feedback and *)
(* pass the white and black lists, subscribes to the new ones and leaves   *)
(* those that are gone.  A type that cannot be used once is never tried    *)
(* again, and a topic that is subscribed is not looked at again as long as *)
(* it is published.                                                        *)
(***************************************************************************)
CONSTANTS
  Topic,        (* topics the lists let pass                               *)
  Type,         (* types of messages that match action_regex               *)
  NoType        (* no such topic                                           *)

VARIABLES
  usable,       (* the types that load and are those of an action          *)
  topicType,    (* the type with which each topic is published             *)
  useless,      (* useless_types                                           *)
  subscribed,   (* the type with which each topic is subscribed            *)
  topics,       (* the topics of this turn, with their types               *)
  todo,         (* those it has yet to look at                             *)
  actPc

actVars == <<usable, topicType, useless, subscribed, topics, todo, actPc>>

None == [t \in Topic |-> NoType]
Init ==
  /\ usable = {} /\ topicType = None /\ useless = {} /\ subscribed = None
  /\ topics = None /\ todo = {} /\ actPc = "off"

Launch ==
  /\ actPc = "off" /\ actPc' = "ask" /\ usable' \in SUBSET Type
  /\ UNCHANGED <<topicType, useless, subscribed, topics, todo>>
Publish(t, ty) ==
  /\ actPc # "off" /\ topicType[t] # ty
  /\ topicType' = [topicType EXCEPT ![t] = ty]
  /\ UNCHANGED <<usable, useless, subscribed, topics, todo, actPc>>

(* update_subscribers *)
PublishedOf(types) == {t \in Topic : types[t] # NoType}
GetPublishedTopics ==
  /\ actPc = "ask" /\ actPc' = "check"
  /\ topics' = topicType /\ todo' = PublishedOf(topicType)
  /\ UNCHANGED <<usable, topicType, useless, subscribed>>

Skipped(t) == topics[t] \in useless \/ subscribed[t] # NoType
CheckTopic(t) ==
  /\ actPc = "check" /\ t \in todo /\ todo' = todo \ {t}
  /\ \/ Skipped(t) /\ UNCHANGED <<useless, subscribed>>
     \/ /\ ~Skipped(t) /\ topics[t] \in usable
        /\ subscribed' = [subscribed EXCEPT ![t] = topics[t]] /\ UNCHANGED useless
     \/ /\ ~Skipped(t)      (* no import, no instance, or no subscription  *)
        /\ useless' = useless \cup {topics[t]} /\ UNCHANGED subscribed
  /\ UNCHANGED <<usable, topicType, topics, actPc>>

NotInTopics == PublishedOf(subscribed) \ PublishedOf(topics)
Cleanup ==
  /\ actPc = "check" /\ todo = {} /\ actPc' = "ask"
  /\ subscribed' = [t \in Topic |-> IF t \in NotInTopics THEN NoType ELSE subscribed[t]]
  /\ UNCHANGED <<usable, topicType, useless, topics, todo>>

Run == GetPublishedTopics \/ Cleanup \/ \E t \in Topic : CheckTopic(t)
Next == Launch \/ Run \/ \E t \in Topic, ty \in Type \cup {NoType} : Publish(t, ty)

Fairness == WF_actVars(Run)
Spec == Init /\ [][Next]_actVars /\ Fairness

-----------------------------------------------------------------------------
(* A topic that stays published with a type that has not been found        *)
(* useless is subscribed with it for good, unless it had another type      *)
(* before and was never seen without any in between; one that is gone for  *)
(* good is left.                                                           *)
ActionsAreFollowed ==
  \A t \in Topic :
    /\ \A ty \in Type :
         <>[](actPc # "off" /\ topicType[t] = ty /\ ty \notin useless
              /\ subscribed[t] \in {ty, NoType}) => <>[](subscribed[t] = ty)
    /\ <>[](topicType[t] = NoType) => <>[](subscribed[t] = NoType)
=============================================================================
