--------------------------- MODULE MongoLogWorker ---------------------------
(***************************************************************************)
(* One WorkerProcess of mongodb_log.py: the process that logs one topic.   *)
(*   - in the worker process, rospy runs enqueue in one thread per         *)
(*     publisher of the topic, and the main thread runs init and dequeue;  *)
(*   - the parent process (MongoWriter) calls shutdown once.               *)
(* They share a multiprocessing queue and the flag quit.  The queue is a   *)
(* pipe with a semaphore of Capacity slots; what a process puts goes       *)
(* through a feeder thread of that process.                                *)
(***************************************************************************)
EXTENDS Naturals, Sequences

CONSTANTS
  Publisher,      (* the publishers of the topic, one callback thread each *)
  MaxMsgs,        (* bound: how many messages the topic carries            *)
  Capacity,       (* QUEUE_MAXSIZE (100)                                   *)
  DatabaseFails,  (* whether an insertion may fail (the server is away)    *)
  Shutdown,       (* the element "shutdown" that the parent puts           *)
  Nothing         (* no message                                            *)

(* A message: its publisher, and its number on the topic. *)
Msg     == Publisher \X (1 .. MaxMsgs)
Element == Msg \cup {Shutdown}

ASSUME ConstantsAssumption ==
  /\ MaxMsgs \in Nat
  /\ Capacity \in Nat \ {0}
  /\ DatabaseFails \in BOOLEAN
  /\ Shutdown \notin Msg /\ Nothing \notin Element

VARIABLES
  quit,        (* quit.value == 1                                          *)
  pipe,        (* the queue, as its readers see it                         *)
  feeder,      (* of each process: put and not yet in the pipe             *)
  mpc,         (* where the worker's main thread is                        *)
  subscribed,  (* self.subscriber is not None                              *)
  taken,       (* the message dequeue works on                             *)
  epc,         (* where each callback thread is in enqueue                 *)
  data,        (* the message it works on                                  *)
  ppc,         (* where the parent is in shutdown                          *)
  arrived,     (* number of messages received so far                       *)
  stored,      (* the collection                                           *)
  dropped,     (* what drop_counter counted                                *)
  fault        (* an exception nobody handles                              *)

queueVars  == <<pipe, feeder>>
mainVars   == <<mpc, subscribed, taken, stored, fault>>
threadVars == <<epc, data, arrived>>
vars == <<quit, queueVars, mainVars, threadVars, ppc, dropped>>

Init ==
  /\ quit = FALSE
  /\ pipe = <<>>
  /\ feeder = [p \in {"worker", "parent"} |-> <<>>]
  /\ mpc = "start" /\ subscribed = FALSE /\ taken = Nothing
  /\ epc = [p \in Publisher |-> "idle"]
  /\ data = [p \in Publisher |-> Nothing]
  /\ ppc = "up"
  /\ arrived = 0 /\ stored = <<>> /\ dropped = {}
  /\ fault = "none"

Alive == mpc # "exited"
-----------------------------------------------------------------------------
(***************************************************************************)
(* The queue.                                                              *)
(***************************************************************************)
Used == Len(pipe) + Len(feeder["worker"]) + Len(feeder["parent"])

Full == Used >= Capacity

(* put blocks while no slot is free. *)
Put(p, x) ==
  /\ ~Full
  /\ feeder' = [feeder EXCEPT ![p] = Append(@, x)]
  /\ UNCHANGED pipe

(* get returns the oldest element x. *)
Take(x) ==
  /\ pipe # <<>> /\ x = Head(pipe)
  /\ pipe' = Tail(pipe)
  /\ UNCHANGED feeder

(* The feeder thread of a process writes to the pipe. *)
Feed(p) ==
  /\ feeder[p] # <<>>
  /\ p = "worker" => Alive
  /\ pipe' = Append(pipe, Head(feeder[p]))
  /\ feeder' = [feeder EXCEPT ![p] = Tail(@)]
  /\ UNCHANGED <<quit, mainVars, threadVars, ppc, dropped>>
-----------------------------------------------------------------------------
(***************************************************************************)
(* enqueue.                                                                *)
(***************************************************************************)
EnqueueAt(p, at) == Alive /\ epc[p] = at

(* A message arrives; it is ignored after quit.  The queue is found full   *)
(* or not, and that is not true any more when the next step is taken.      *)
Enqueue(p) ==
  /\ EnqueueAt(p, "idle") /\ subscribed /\ arrived < MaxMsgs
  /\ arrived' = arrived + 1
  /\ IF quit
     THEN UNCHANGED <<epc, data>>
     ELSE /\ epc' = [epc EXCEPT ![p] = IF Full THEN "drop" ELSE "put"]
          /\ data' = [data EXCEPT ![p] = <<p, arrived + 1>>]
  /\ UNCHANGED <<quit, queueVars, mainVars, ppc, dropped>>

EnqueueDropOnly(p) ==
  /\ EnqueueAt(p, "drop")
  /\ \E x \in Element : Take(x) /\ dropped' = dropped \cup {x}
  /\ epc' = [epc EXCEPT ![p] = "idle"]
  /\ data' = [data EXCEPT ![p] = Nothing]
  /\ UNCHANGED <<quit, mainVars, arrived, ppc>>

(* get_nowait raises Empty when nothing is in the pipe yet and when the    *)
(* main thread is just reading.                                            *)
EnqueueDrop(p) ==
  /\ EnqueueAt(p, "drop")
  /\ \/ \E x \in Element : Take(x) /\ dropped' = dropped \cup {x}
     \/ /\ pipe = <<>> \/ mpc = "get"
        /\ UNCHANGED <<queueVars, dropped>>
  /\ epc' = [epc EXCEPT ![p] = "put"]
  /\ UNCHANGED <<quit, mainVars, data, arrived, ppc>>

EnqueuePut(p) ==
  /\ EnqueueAt(p, "put")
  /\ Put("worker", data[p])
  /\ epc' = [epc EXCEPT ![p] = "idle"]
  /\ data' = [data EXCEPT ![p] = Nothing]
  /\ UNCHANGED <<quit, mainVars, arrived, ppc, dropped>>
-----------------------------------------------------------------------------
(***************************************************************************)
(* init and dequeue.                                                       *)
(***************************************************************************)
(* MongoClient, collection.count() and init_node. *)
Connect ==
  /\ mpc = "start"
  /\ \/ mpc' = "init" /\ UNCHANGED fault
     \/ DatabaseFails /\ mpc' = "exited" /\ fault' = "database"
  /\ UNCHANGED <<quit, queueVars, subscribed, taken, stored, threadVars, ppc,
                 dropped>>

(* The loop of init.  When it ends because of quit there is no subscriber, *)
(* and dequeue goes to its end at once.                                    *)
InitTest ==
  /\ mpc = "init"
  /\ mpc' = IF quit THEN "cleanup" ELSE "lookup"
  /\ UNCHANGED <<quit, queueVars, subscribed, taken, stored, fault, threadVars,
                 ppc, dropped>>

(* get_topic_class(blocking = True) comes back when the topic is announced *)
(* and does not look at quit; two kinds of exceptions make another round,  *)
(* any other ends the process.                                             *)
Subscribe ==
  /\ mpc = "lookup"
  /\ \/ mpc' = "loop" /\ subscribed' = TRUE /\ UNCHANGED fault
     \/ mpc' = "init" /\ UNCHANGED <<subscribed, fault>>
     \/ mpc' = "exited" /\ fault' = "lookup" /\ UNCHANGED subscribed
  /\ UNCHANGED <<quit, queueVars, taken, stored, threadVars, ppc, dropped>>

DequeueLoop ==
  /\ mpc = "loop"
  /\ mpc' = IF quit THEN "cleanup" ELSE "get"
  /\ UNCHANGED <<quit, queueVars, subscribed, taken, stored, fault, threadVars,
                 ppc, dropped>>

DequeueGet ==
  /\ mpc = "get"
  /\ \E x \in Element :
       /\ Take(x)
       /\ IF x = Shutdown
          THEN quit' = TRUE /\ mpc' = "loop" /\ UNCHANGED taken
          ELSE taken' = x /\ mpc' = "store" /\ UNCHANGED quit
  /\ UNCHANGED <<subscribed, stored, fault, threadVars, ppc, dropped>>

(* Ctrl-C: a signal interrupts the blocking get with IOError. *)
DequeueInterrupted ==
  /\ mpc = "get"
  /\ quit' = TRUE
  /\ mpc' = "cleanup"
  /\ UNCHANGED <<queueVars, subscribed, taken, stored, fault, threadVars, ppc,
                 dropped>>

StoreOrRequeue ==
  /\ mpc = "store"
  /\ \/ stored' = Append(stored, taken) /\ UNCHANGED queueVars
     \/ Put("worker", taken) /\ UNCHANGED stored
  /\ mpc' = "loop" /\ taken' = Nothing
  /\ UNCHANGED <<quit, subscribed, fault, threadVars, ppc, dropped>>

(* Invalid documents are reported and skipped.  Any other exception of the *)
(* database ends the process.                                              *)
DequeueStore ==
  /\ mpc = "store"
  /\ \/ stored' = Append(stored, taken) /\ mpc' = "loop" /\ UNCHANGED fault
     \/ mpc' = "loop" /\ UNCHANGED <<stored, fault>>
     \/ DatabaseFails /\ mpc' = "exited" /\ fault' = "database" /\ UNCHANGED stored
  /\ taken' = Nothing
  /\ UNCHANGED <<quit, queueVars, subscribed, threadVars, ppc, dropped>>

(* self.subscriber.unregister(), also when it is None. *)
Cleanup ==
  /\ mpc = "cleanup"
  /\ IF subscribed
     THEN mpc' = "drain" /\ subscribed' = FALSE /\ UNCHANGED fault
     ELSE mpc' = "exited" /\ fault' = "no_subscriber" /\ UNCHANGED subscribed
  /\ UNCHANGED <<quit, queueVars, taken, stored, threadVars, ppc, dropped>>

DrainTest ==
  /\ mpc = "drain"
  /\ mpc' = IF pipe = <<>> THEN "exited" ELSE "drainGet"
  /\ UNCHANGED <<quit, queueVars, subscribed, taken, stored, fault, threadVars,
                 ppc, dropped>>

(* get_nowait fails when a callback thread has taken the element. *)
DrainGet ==
  /\ mpc = "drainGet"
  /\ \/ \E x \in Element : Take(x) /\ mpc' = "drain" /\ UNCHANGED fault
     \/ pipe = <<>> /\ mpc' = "exited" /\ fault' = "empty" /\ UNCHANGED queueVars
  /\ UNCHANGED <<quit, subscribed, taken, stored, threadVars, ppc, dropped>>

MainThread ==
  \/ Connect \/ InitTest \/ DequeueLoop \/ DequeueGet \/ DequeueStore
  \/ Cleanup \/ DrainTest \/ DrainGet
-----------------------------------------------------------------------------
(***************************************************************************)
(* shutdown, called in the parent.                                         *)
(***************************************************************************)
ShutdownBegin ==
  /\ ppc = "up"
  /\ quit' = TRUE
  /\ ppc' = IF quit THEN "join" ELSE "put"
  /\ UNCHANGED <<queueVars, mainVars, threadVars, dropped>>

ShutdownWithoutPut ==
  /\ ppc = "put"
  /\ ppc' = "wait"
  /\ UNCHANGED <<quit, queueVars, mainVars, threadVars, dropped>>

ShutdownPut ==
  /\ ppc = "put"
  /\ Put("parent", Shutdown)
  /\ ppc' = "wait"
  /\ UNCHANGED <<quit, mainVars, threadVars, dropped>>

(* while not self.queue.empty(): sleep(0.1) *)
ShutdownEmpty ==
  /\ ppc = "wait" /\ pipe = <<>>
  /\ ppc' = "join"
  /\ UNCHANGED <<quit, queueVars, mainVars, threadVars, dropped>>

ShutdownJoin ==
  /\ ppc = "join" /\ ~Alive
  /\ ppc' = "done"
  /\ UNCHANGED <<quit, queueVars, mainVars, threadVars, dropped>>

Parent == ShutdownBegin \/ ShutdownPut \/ ShutdownEmpty \/ ShutdownJoin
-----------------------------------------------------------------------------
Next ==
  \/ \E p \in {"worker", "parent"} : Feed(p)
  \/ \E p \in Publisher : Enqueue(p) \/ EnqueueDrop(p) \/ EnqueuePut(p)
  \/ Subscribe \/ MainThread \/ DequeueInterrupted
  \/ Parent

Spec == Init /\ [][Next]_vars

(* Threads are scheduled and the database answers or fails.  The end of a  *)
(* lookup, messages, signals and the call of shutdown are never due.       *)
FairSpec ==
  /\ Spec
  /\ \A p \in {"worker", "parent"} : WF_vars(Feed(p))
  /\ \A p \in Publisher : WF_vars(EnqueueDrop(p) \/ EnqueuePut(p))
  /\ WF_vars(MainThread)
  /\ WF_vars(ShutdownPut \/ ShutdownEmpty \/ ShutdownJoin)
-----------------------------------------------------------------------------
(* The types; the queue never uses more than its slots. *)
TypeOK ==
  /\ quit \in BOOLEAN
  /\ pipe \in Seq(Element)
  /\ feeder \in [{"worker", "parent"} -> Seq(Element)]
  /\ Used <= Capacity
  /\ mpc \in {"start", "init", "lookup", "loop", "get", "store", "cleanup",
              "drain", "drainGet", "exited"}
  /\ subscribed \in BOOLEAN
  /\ taken \in Msg \cup {Nothing}
  /\ epc \in [Publisher -> {"idle", "drop", "put"}]
  /\ data \in [Publisher -> Msg \cup {Nothing}]
  /\ ppc \in {"up", "put", "wait", "join", "done"}
  /\ arrived \in 0 .. MaxMsgs
  /\ stored \in Seq(Msg)
  /\ dropped \subseteq Element
  /\ fault \in {"none", "database", "lookup", "no_subscriber", "empty"}

(* dequeue blocks in get without a timeout.  Once the parent has put       *)
(* "shutdown" something is on its way to wake it: the element itself, a    *)
(* message, or a callback thread which took the element out as the oldest  *)
(* one of a full queue and is about to put its own message.                *)
SleeperIsWoken ==
  (ppc \in {"wait", "join"} /\ mpc = "get") =>
    Used > 0 \/ \E p \in Publisher : epc[p] = "put"

(* The messages of a publisher are stored in the order of their arrival:   *)
(* its thread drops the oldest elements of a full queue, and so do the     *)
(* other publishers' threads, while dequeue takes them too.                *)
StoredInOrder ==
  \A i, j \in DOMAIN stored :
    i < j /\ stored[i][1] = stored[j][1] => stored[i][2] < stored[j][2]

(* Whenever quit is set the worker process comes to an end, however the    *)
(* callback threads interfere with "shutdown" on its way -- unless it      *)
(* stays in the lookup of a topic that nobody announces, which does not    *)
(* look at quit (then the parent's shutdown does not return either).       *)
WorkerStops == <>[](mpc = "lookup") \/ (quit ~> mpc = "exited")

(* "or the parent thread might deadlock otherwise" (mongodb_log.py:286):   *)
(* the parent's wait for the empty queue ends.                             *)
ParentNeverStuck == (ppc = "wait" /\ subscribed) ~> ppc \in {"join", "done"}
=============================================================================
