----------------------- MODULE ObjectDetectionLogger -----------------------
(***************************************************************************)
(* Which topics object_detection_logger subscribes to: those with object   *)
(* detections to which some other node subscribes.  Its main loop asks the *)
(* master for the published topics and for the state of the system in two  *)
(* requests, then leaves and joins topics.  mongo_record, whose topics are *)
(* given, subscribes to each once it is published and never leaves it.     *)
(***************************************************************************)
EXTENDS Naturals, SequencesExt, FiniteSetsExt

CONSTANT Topic

VARIABLES
  follows,      (* whether the logger asks for other subscribers           *)
  published,    (* the topics that are published                           *)
  others,       (* the topics that another node subscribes to              *)
  subscribers,  (* the subscriptions, in their order                       *)
  snapshot,     (* what the master answered                                *)
  at,           (* the index of the loop over subscribers                  *)
  detPc

detVars == <<follows, published, others, subscribers, snapshot, at, detPc>>

Init ==
  /\ follows = TRUE /\ published = {} /\ others = {} /\ subscribers = <<>>
  /\ snapshot = [published |-> {}, others |-> {}, own |-> {}]
  /\ at = 1 /\ detPc = "off"

Subscribed == ToSet(subscribers)

Launch ==
  /\ detPc = "off" /\ detPc' = "update" /\ follows' \in BOOLEAN
  /\ UNCHANGED <<published, others, subscribers, snapshot, at>>
ToggleTopic(t) ==
  /\ detPc # "off"
  /\ \/ published' = SymDiff(published, {t}) /\ UNCHANGED others
     \/ follows /\ others' = SymDiff(others, {t}) /\ UNCHANGED published
  /\ UNCHANGED <<follows, subscribers, snapshot, at, detPc>>

(* mongo_record *)
CheckTopic ==
  /\ detPc = "update" /\ ~follows
  /\ subscribers' = subscribers \o SetToSeq(published \ Subscribed)
  /\ UNCHANGED <<follows, published, others, snapshot, at, detPc>>

(* update_subscribers *)
GetPublishedTopics ==
  /\ detPc = "update" /\ follows /\ detPc' = "state"
  /\ snapshot' = [snapshot EXCEPT !.published = published]
  /\ UNCHANGED <<follows, published, others, subscribers, at>>
GetSystemState ==
  /\ detPc = "state" /\ detPc' = "leave" /\ at' = 1
  /\ snapshot' = [snapshot EXCEPT !.others = others, !.own = Subscribed]
  /\ UNCHANGED <<follows, published, others, subscribers>>

(* The loop removes from the list it goes through: the element after each  *)
(* that it removes is skipped until the next update.                       *)
NobodyAtAll(t) == t \notin snapshot.others \cup snapshot.own
NobodyElse(t) == t \notin snapshot.others
Leave ==
  /\ detPc = "leave" /\ at <= Len(subscribers) /\ at' = at + 1
  /\ subscribers' = IF NobodyElse(subscribers[at])
                    THEN RemoveAt(subscribers, at) ELSE subscribers
  /\ UNCHANGED <<follows, published, others, snapshot, detPc>>
Join ==
  /\ detPc = "leave" /\ at > Len(subscribers) /\ detPc' = "update"
  /\ LET targets == (snapshot.published \cap snapshot.others) \ snapshot.own
     IN subscribers' = subscribers \o SetToSeq(targets \ Subscribed)
  /\ UNCHANGED <<follows, published, others, snapshot, at>>

Run == CheckTopic \/ GetPublishedTopics \/ GetSystemState \/ Leave \/ Join
Next == Launch \/ Run \/ \E t \in Topic : ToggleTopic(t)

Fairness == WF_detVars(Run)
Spec == Init /\ [][Next]_detVars /\ Fairness

-----------------------------------------------------------------------------
(* The subscriptions catch up with the topics: the logger joins a topic    *)
(* that stays published and, for the detections, subscribed to by somebody *)
(* else, and leaves one that nobody else subscribes to any more, although  *)
(* the loop skips elements and the two answers of the master may disagree. *)
SubscriptionsFollow ==
  \A t \in Topic :
    /\ <>[](detPc # "off" /\ t \in published /\ (follows => t \in others))
         => <>[](t \in Subscribed)
    /\ <>[](follows /\ t \notin others) => <>[](t \notin Subscribed)
=============================================================================
