---------------------------- MODULE MongoWriter ----------------------------
(***************************************************************************)
(* MongoWriter of mongodb_log.py: it starts one worker per topic.  Topics  *)
(* come from the command line (those not announced yet are missing and are *)
(* tried again by the timer of fill_in_topics) and, with --all-topics,     *)
(* from the master (the timer of update_topics).  Three threads:           *)
(*   "main"    the constructor, then the signal handler's shutdown;        *)
(*   "fill"    the chain of timers that run fill_in_topics;                *)
(*   "update"  the chain of timers that run update_topics.                 *)
(* Topics whose names convert to the same name of a collection clash: the  *)
(* first one is logged, and any other is given up.                         *)
(***************************************************************************)
EXTENDS Naturals, Sequences

CONSTANTS
  Topic,          (* the topics there are                                  *)
  Requested,      (* the topics of the command line                        *)
  Excluded,       (* the topics that an exclusion rule matches             *)
  AllTopics,      (* --all-topics                                          *)
  Collection,     (* topic_name_to_collection_name, for each topic         *)
  OneCollection   (* mongodb_collection: all share it, and nothing clashes *)

Thread == {"main", "fill", "update"}
NoTopic == "none"

VARIABLES
  announced,  (* the topics that are published                             *)
  topics,     (* self.topics (and self.collnames)                          *)
  missing,    (* self.missing_topics                                       *)
  workers,    (* self.workers: the topic of each                           *)
  stopped,    (* the workers (indices) that were shut down                 *)
  quit,       (* self.quit                                                 *)
  pc,         (* where each thread is                                      *)
  todo,       (* what subscribe_topics has yet to look at, by thread       *)
  failed,     (* its missing_topics, by thread                             *)
  current     (* the topic whose worker it is creating, by thread          *)

vars == <<announced, topics, missing, workers, stopped, quit, pc, todo, failed,
          current>>
threadVars == <<todo, failed, current>>

Init ==
  /\ announced = {} /\ topics = {} /\ missing = {} /\ workers = <<>> /\ stopped = {}
  /\ quit = FALSE
  /\ pc = [t \in Thread |-> IF t = "main" THEN "off" ELSE "none"]
  /\ todo = [t \in Thread |-> {}]
  /\ failed = [t \in Thread |-> {}]
  /\ current = [t \in Thread |-> NoTopic]

Launch ==
  /\ pc["main"] = "off" /\ pc' = [pc EXCEPT !["main"] = "subscribe"]
  /\ announced' \in SUBSET Topic /\ todo' = [todo EXCEPT !["main"] = Requested]
  /\ UNCHANGED <<topics, missing, workers, stopped, quit, failed, current>>

Announce ==
  /\ pc["main"] # "off"
  /\ \E x \in Topic \ announced : announced' = announced \cup {x}
  /\ UNCHANGED <<topics, missing, workers, stopped, quit, pc, threadVars>>
-----------------------------------------------------------------------------
(***************************************************************************)
(* subscribe_topics, one topic at a time.                                  *)
(***************************************************************************)
Subscribing == {"subscribe", "refill", "all"}

Subscribes(t) == pc[t] \in Subscribing /\ current[t] = NoTopic

Clashes(x) == ~OneCollection /\ \E y \in topics : Collection[y] = Collection[x]
Wanted(x) == x \notin topics \cup Excluded /\ ~Clashes(x)

(* The topic is skipped, for good when its collection is another topic's,  *)
(* or its worker is to be created.                                         *)
ExamineTopic(t) ==
  /\ Subscribes(t)
  /\ \E x \in todo[t] :
       /\ todo' = [todo EXCEPT ![t] = @ \ {x}]
       /\ current' = [current EXCEPT ![t] = IF Wanted(x) THEN x ELSE NoTopic]
  /\ UNCHANGED <<announced, topics, missing, workers, stopped, quit, pc, failed>>

(* create_worker has to know the type of the topic; it starts a process,   *)
(* which takes its time and may fail.                                      *)
WorkerCreated(t) ==
  /\ current[t] \in announced
  /\ workers' = Append(workers, current[t])
  /\ topics' = topics \cup {current[t]}
  /\ current' = [current EXCEPT ![t] = NoTopic]
  /\ UNCHANGED <<announced, missing, stopped, quit, pc, todo, failed>>

ForgetsFailure(t) ==
  /\ current[t] # NoTopic
  /\ current' = [current EXCEPT ![t] = NoTopic]
  /\ UNCHANGED <<announced, topics, missing, workers, stopped, quit, pc, todo, failed>>

RegisteredFirst(t) ==
  /\ current[t] # NoTopic
  /\ failed' = [failed EXCEPT ![t] = @ \cup {current[t]}]
  /\ topics' = topics \cup {current[t]}
  /\ current' = [current EXCEPT ![t] = NoTopic]
  /\ UNCHANGED <<announced, missing, workers, stopped, quit, pc, todo>>

WorkerFailed(t) ==
  /\ current[t] # NoTopic
  /\ failed' = [failed EXCEPT ![t] = @ \cup {current[t]}]
  /\ current' = [current EXCEPT ![t] = NoTopic]
  /\ UNCHANGED <<announced, topics, missing, workers, stopped, quit, pc, todo>>

SubscribeTopics(t) == ExamineTopic(t) \/ WorkerCreated(t) \/ WorkerFailed(t)

Subscribed(t) == Subscribes(t) /\ todo[t] = {}
-----------------------------------------------------------------------------
(***************************************************************************)
(* The constructor and the two timers.                                     *)
(***************************************************************************)
(* start_fill_in_topics_timer *)
RestartsFill(left) == left # {} /\ ~quit

(* The constructor tries the missing topics a second time at once.         *)
RequestedExamined ==
  /\ Subscribed("main") /\ pc["main"] = "subscribe"
  /\ missing' = failed["main"]
  /\ todo' = [todo EXCEPT !["main"] = failed["main"]]
  /\ failed' = [failed EXCEPT !["main"] = {}]
  /\ pc' = [pc EXCEPT !["main"] = "refill"]
  /\ UNCHANGED <<announced, topics, workers, stopped, quit, current>>

(* It starts the timer of fill_in_topics and examines all topics once.     *)
MissingExamined ==
  /\ Subscribed("main") /\ pc["main"] = "refill"
  /\ missing' = failed["main"]
  /\ failed' = [failed EXCEPT !["main"] = {}]
  /\ todo' = [todo EXCEPT !["main"] = IF AllTopics THEN announced \ topics ELSE {}]
  /\ pc' = [pc EXCEPT !["main"] = "all",
                      !["fill"] = IF RestartsFill(failed["main"]) THEN "timer" ELSE "none"]
  /\ UNCHANGED <<announced, topics, workers, stopped, quit, current>>

Constructed ==
  /\ Subscribed("main") /\ pc["main"] = "all"
  /\ pc' = [pc EXCEPT !["main"] = "run",
                      !["update"] = IF AllTopics THEN "timer" ELSE "none"]
  /\ UNCHANGED <<announced, topics, missing, workers, stopped, quit, threadVars>>

FillFires ==
  /\ pc["fill"] = "timer"
  /\ IF missing = {} \/ quit
     THEN pc' = [pc EXCEPT !["fill"] = "none"] /\ UNCHANGED <<todo, failed>>
     ELSE /\ pc' = [pc EXCEPT !["fill"] = "subscribe"]
          /\ todo' = [todo EXCEPT !["fill"] = missing]
          /\ failed' = [failed EXCEPT !["fill"] = {}]
  /\ UNCHANGED <<announced, topics, missing, workers, stopped, quit, current>>

FillEnds ==
  /\ Subscribed("fill")
  /\ missing' = failed["fill"]
  /\ pc' = [pc EXCEPT !["fill"] = IF RestartsFill(failed["fill"]) THEN "timer" ELSE "none"]
  /\ UNCHANGED <<announced, topics, workers, stopped, quit, threadVars>>

UpdateFires ==
  /\ pc["update"] = "timer"
  /\ IF quit
     THEN pc' = [pc EXCEPT !["update"] = "none"] /\ UNCHANGED <<todo, failed>>
     ELSE /\ pc' = [pc EXCEPT !["update"] = "subscribe"]
          /\ todo' = [todo EXCEPT !["update"] = announced \ topics]
          /\ failed' = [failed EXCEPT !["update"] = {}]
  /\ UNCHANGED <<announced, topics, missing, workers, stopped, quit, current>>

UpdateEnds ==
  /\ Subscribed("update")
  /\ pc' = [pc EXCEPT !["update"] = IF quit THEN "none" ELSE "timer"]
  /\ UNCHANGED <<announced, topics, missing, workers, stopped, quit, threadVars>>
-----------------------------------------------------------------------------
(***************************************************************************)
(* shutdown, in the signal handler.                                        *)
(***************************************************************************)
ShutdownBegin ==
  /\ pc["main"] = "run"
  /\ quit' = TRUE
  /\ pc' = [pc EXCEPT !["main"] = "shutdown",
                      !["update"] = IF @ = "timer" THEN "none" ELSE @]
  /\ UNCHANGED <<announced, topics, missing, workers, stopped, threadVars>>

(* The loop over the list also sees what is appended while it runs. *)
ShutdownWorker ==
  /\ pc["main"] = "shutdown"
  /\ \E i \in DOMAIN workers :
       /\ i \notin stopped /\ \A j \in 1 .. (i - 1) : j \in stopped
       /\ stopped' = stopped \cup {i}
  /\ UNCHANGED <<announced, topics, missing, workers, quit, pc, threadVars>>

ShutdownEnds ==
  /\ pc["main"] = "shutdown" /\ stopped = DOMAIN workers
  /\ pc' = [pc EXCEPT !["main"] = "done"]
  /\ UNCHANGED <<announced, topics, missing, workers, stopped, quit, threadVars>>
-----------------------------------------------------------------------------
Construct == RequestedExamined \/ MissingExamined \/ Constructed
Next ==
  \/ Launch \/ Announce
  \/ \E t \in Thread : SubscribeTopics(t)
  \/ Construct \/ FillFires \/ FillEnds \/ UpdateFires \/ UpdateEnds
  \/ ShutdownBegin \/ ShutdownWorker \/ ShutdownEnds

(* Threads run and timers fire; a topic that is announced again and again  *)
(* when the timer is to create its worker does get one in the end.         *)
Fairness ==
  /\ WF_vars(SubscribeTopics("main") \/ Construct \/ ShutdownWorker \/ ShutdownEnds)
  /\ WF_vars(SubscribeTopics("fill") \/ FillFires \/ FillEnds)
  /\ WF_vars(SubscribeTopics("update") \/ UpdateFires \/ UpdateEnds)
  /\ SF_vars(WorkerCreated("fill"))
Spec == Init /\ [][Next]_vars /\ Fairness
-----------------------------------------------------------------------------
Logged == {workers[i] : i \in DOMAIN workers}
Shadowed ==
  {x \in Requested : ~OneCollection /\ \E y \in Logged \ {x} : Collection[y] = Collection[x]}

(* No requested topic falls between the two timers: each one is logged,    *)
(* excluded, shadowed by a logged topic of the same collection, known to   *)
(* be missing, or in the hands of a thread.                                *)
NoTopicForgotten ==
  pc["main"] # "off" =>
    Requested \subseteq
      Logged \cup Excluded \cup Shadowed \cup missing
      \cup UNION {todo[t] \cup failed[t] \cup {current[t]} : t \in {"main", "fill"}}

(* A requested topic that is announced, and not excluded, is logged in the *)
(* end, unless a topic of the same collection is, or the logger quits      *)
(* before.                                                                 *)
RequestedAreLogged ==
  \A x \in Requested \ Excluded :
    x \in announced ~> (x \in Logged \cup Shadowed \/ quit)
=============================================================================
