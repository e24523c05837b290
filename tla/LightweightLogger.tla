------------------------- MODULE LightweightLogger -------------------------
(***************************************************************************)
(* The nodelet jsk_robot_lifelog/LightweightLogger: it stores every        *)
(* message of its input topic in MongoDB, at once ("on the fly") when the  *)
(* database keeps up and through a blocking circular buffer when it does   *)
(* not.  Three threads share the state:                                    *)
(*   - the callback thread runs inputCallback, one message at a time;      *)
(*   - the logger thread (loggerThread) connects to the database and then  *)
(*     inserts lazily what it gets from the buffer;                        *)
(*   - the nodelet manager's thread runs onInit and the destructor.        *)
(*                                                                         *)
(* Messages are numbered in their order of arrival.  What the code does    *)
(* through a dangling or null pointer is recorded in fault and stops the   *)
(* model: the process has no defined behaviour from there.                 *)
(***************************************************************************)
EXTENDS Naturals, Sequences

CONSTANTS
  MaxMsgs,        (* bound: how many messages the input topic delivers  *)
  Capacity        (* buffer_capacity (100 by default)                   *)

ASSUME ConstantsAssumption ==
  /\ MaxMsgs \in Nat
  /\ Capacity \in Nat \ {0}

Msg   == 1 .. MaxMsgs
NoMsg == 0

VARIABLES
  phase,        (* progress of onInit                                      *)
  dtor,         (* progress of the destructor                              *)
  rosOk,        (* ros::ok()                                               *)
  waitForInsert,       (* wait_for_insert_                                 *)
  store,        (* msg_store_: null until the logger thread has connected  *)
  initialized,  (* initialized_                                            *)
  buffer,       (* buffer_, oldest message first                           *)
  lpc,          (* where the logger thread is                              *)
  inHand,       (* the event the logger thread took out of the buffer      *)
  interruptRequested,  (* boost's interruption flag of the logger thread   *)
  beingInterrupted,    (* being_interrupted                                *)
  cpc,          (* where the callback thread is                            *)
  received,     (* the event inputCallback works on                        *)
  onTheFly,     (* on_the_fly                                              *)
  arrived,      (* number of messages received so far                      *)
  stored,       (* documents in the database, in the order of insertion    *)
  overwritten,  (* messages the full circular buffer discarded             *)
  failed,       (* messages whose insertion threw                          *)
  fault         (* undefined behaviour met                                 *)

initVars     == <<phase, dtor, rosOk, waitForInsert>>
loggerVars   == <<lpc, inHand, interruptRequested, beingInterrupted>>
callbackVars == <<cpc, received, onTheFly, arrived>>
dbVars       == <<stored, failed>>
vars == <<initVars, store, initialized, buffer, loggerVars, callbackVars,
          dbVars, overwritten, fault>>

Range(s) == {s[i] : i \in 1 .. Len(s)}

Init ==
  /\ phase = "relay" /\ dtor = "alive" /\ rosOk = TRUE /\ waitForInsert = FALSE
  /\ store = "null" /\ initialized = FALSE
  /\ buffer = <<>>
  /\ lpc = "none" /\ inHand = NoMsg
  /\ interruptRequested = FALSE /\ beingInterrupted = FALSE
  /\ cpc = "idle" /\ received = NoMsg /\ onTheFly = FALSE /\ arrived = 0
  /\ stored = <<>> /\ failed = {} /\ overwritten = {}
  /\ fault = "none"

Running == fault = "none"
-----------------------------------------------------------------------------
(***************************************************************************)
(* blocking_circular_buffer.                                               *)
(***************************************************************************)

PushBackDropsNewest(m) ==
  IF Len(buffer) < Capacity
  THEN buffer' = Append(buffer, m) /\ UNCHANGED overwritten
  ELSE UNCHANGED buffer /\ overwritten' = overwritten \cup {m}

(* buffer_.push_back: a full circular buffer loses its oldest element. *)
PushBack(m) ==
  IF Len(buffer) < Capacity
  THEN buffer' = Append(buffer, m) /\ UNCHANGED overwritten
  ELSE /\ buffer' = Append(Tail(buffer), m)
       /\ overwritten' = overwritten \cup {Head(buffer)}

PutTestsEmptyAfterPush(m) == PushBack(m) /\ UNCHANGED lpc

(* put notifies the waiting thread only if the buffer was empty before. *)
Put(m) ==
  /\ PushBack(m)
  /\ lpc' = IF buffer = <<>> /\ lpc = "wait" THEN "woken" ELSE lpc

PopFrontKeepsElement ==
  buffer # <<>> /\ inHand' = Head(buffer) /\ lpc' = "insert" /\ UNCHANGED buffer

(* get, with the lock held and the buffer not empty. *)
PopFront ==
  /\ buffer # <<>>
  /\ inHand' = Head(buffer)
  /\ buffer' = Tail(buffer)
  /\ lpc' = "insert"
-----------------------------------------------------------------------------
(***************************************************************************)
(* onInit and the destructor.  The relay is subscribed before the          *)
(* parameters are read and vital_checker_ exists; without robot/name the   *)
(* initialisation stops there.                                             *)
(***************************************************************************)
OnInitConfigure ==
  /\ Running /\ phase = "relay"
  /\ phase' \in {"configured", "fatal"} /\ waitForInsert' \in BOOLEAN
  /\ UNCHANGED <<dtor, rosOk, store, initialized, buffer, loggerVars,
                 callbackVars, dbVars, overwritten, fault>>

OnInitStartThread ==
  /\ Running /\ phase = "configured"
  /\ phase' = "started"
  /\ lpc' = "connect"
  /\ UNCHANGED <<dtor, rosOk, waitForInsert, store, initialized, buffer,
                 inHand, interruptRequested, beingInterrupted, callbackVars, dbVars,
                 overwritten, fault>>

RosShutdown ==
  /\ Running /\ rosOk
  /\ rosOk' = FALSE
  /\ UNCHANGED <<phase, dtor, waitForInsert, store, initialized, buffer,
                 loggerVars, callbackVars, dbVars, overwritten, fault>>

(* The nodelet loader has removed the callback queues by then. *)
DestroyBegin ==
  /\ Running /\ dtor = "alive" /\ cpc = "idle"
  /\ phase \in {"started", "fatal"}
  /\ dtor' = IF phase = "started" THEN "joining" ELSE "gone"
  /\ interruptRequested' = (phase = "started" /\ lpc # "done")
  /\ UNCHANGED <<phase, rosOk, waitForInsert, store, initialized, buffer, lpc,
                 inHand, beingInterrupted, callbackVars, dbVars, overwritten, fault>>

(* try_join_for(5 s) returns because the thread ended or because the time  *)
(* is up; either way msg_store_ is reset and the members are destroyed.    *)
DestroyEnd ==
  /\ Running /\ dtor = "joining"
  /\ dtor' = "gone"
  /\ store' = IF store = "set" THEN "reset" ELSE store
  /\ UNCHANGED <<phase, rosOk, waitForInsert, initialized, buffer,
                 loggerVars, callbackVars, dbVars, overwritten, fault>>
-----------------------------------------------------------------------------
(***************************************************************************)
(* loggerThread.                                                           *)
(***************************************************************************)
LoggerRuns(at) == Running /\ dtor # "gone" /\ lpc = at

(* The store's constructor returns once the server answers. *)
LoggerConnect ==
  /\ LoggerRuns("connect")
  /\ store' = "set"
  /\ lpc' = "announce"
  /\ UNCHANGED <<initVars, initialized, buffer, inHand, interruptRequested,
                 beingInterrupted, callbackVars, dbVars, overwritten, fault>>

LoggerAnnounce ==
  /\ LoggerRuns("announce")
  /\ initialized' = TRUE
  /\ lpc' = "loop"
  /\ UNCHANGED <<initVars, store, buffer, inHand, interruptRequested,
                 beingInterrupted, callbackVars, dbVars, overwritten, fault>>

(* The head of the while loop and the check of being_interrupted. *)
LeavesLoop == ~rosOk \/ (beingInterrupted /\ buffer = <<>>)

LoggerLoop ==
  /\ LoggerRuns("loop")
  /\ lpc' = IF LeavesLoop THEN "done" ELSE "get"
  /\ UNCHANGED <<initVars, store, initialized, buffer, inHand,
                 interruptRequested, beingInterrupted, callbackVars, dbVars,
                 overwritten, fault>>

(* get finds a message, finds the node shut down, or starts to wait. *)
LoggerGet ==
  /\ LoggerRuns("get")
  /\ \/ /\ rosOk
        /\ PopFront
     \/ /\ rosOk /\ buffer = <<>>
        /\ lpc' = "wait"
        /\ UNCHANGED <<buffer, inHand>>
     \/ /\ ~rosOk
        /\ lpc' = "loop"
        /\ UNCHANGED <<buffer, inHand>>
  /\ UNCHANGED <<initVars, store, initialized, interruptRequested,
                 beingInterrupted, callbackVars, dbVars, overwritten, fault>>

(* A notified wait returns: the lock is taken again, no interruption. *)
LoggerWoken ==
  /\ LoggerRuns("woken") /\ ~interruptRequested
  /\ PopFront
  /\ UNCHANGED <<initVars, store, initialized, interruptRequested,
                 beingInterrupted, callbackVars, dbVars, overwritten, fault>>

(* The wait returns without a notification and the buffer is empty: get    *)
(* waits again, or returns false once its timeout is over.                 *)
LoggerSpuriousWake ==
  /\ LoggerRuns("wait") /\ ~interruptRequested
  /\ lpc' \in {"get", "loop"}
  /\ UNCHANGED <<initVars, store, initialized, buffer, inHand,
                 interruptRequested, beingInterrupted, callbackVars, dbVars,
                 overwritten, fault>>

(* The condition variable's wait is an interruption point: it throws       *)
(* thread_interrupted, which the outer handler catches.                    *)
LoggerInterrupted ==
  /\ LoggerRuns("wait") \/ LoggerRuns("woken")
  /\ interruptRequested
  /\ interruptRequested' = FALSE
  /\ beingInterrupted' = TRUE
  /\ lpc' = "loop"
  /\ UNCHANGED <<initVars, store, initialized, buffer, inHand, callbackVars,
                 dbVars, overwritten, fault>>

LoggerInsertOk ==
  /\ LoggerRuns("insert")
  /\ stored' = Append(stored, inHand)
  /\ inHand' = NoMsg
  /\ lpc' = "loop"
  /\ UNCHANGED <<initVars, store, initialized, buffer, interruptRequested,
                 beingInterrupted, callbackVars, failed, overwritten, fault>>

(* catch (...) also takes the thread_interrupted that the blocking service *)
(* call inside insert throws: the request is then used up and the thread   *)
(* goes on as if the insertion had failed.                                 *)
LoggerInsertThrows ==
  /\ LoggerRuns("insert")
  /\ failed' = failed \cup {inHand}
  /\ inHand' = NoMsg
  /\ \/ UNCHANGED interruptRequested
     \/ interruptRequested /\ interruptRequested' = FALSE
  /\ lpc' = IF beingInterrupted THEN "done" ELSE "loop"
  /\ UNCHANGED <<initVars, store, initialized, buffer, beingInterrupted,
                 callbackVars, stored, overwritten, fault>>

(* A thread that outlived its object goes on using it. *)
LoggerUseAfterFree ==
  /\ Running /\ dtor = "gone"
  /\ lpc \in {"connect", "announce", "loop", "get", "woken", "insert"}
  /\ fault' = "use_after_free"
  /\ UNCHANGED <<initVars, store, initialized, buffer, loggerVars,
                 callbackVars, dbVars, overwritten>>

LoggerThread ==
  \/ LoggerConnect \/ LoggerAnnounce \/ LoggerLoop \/ LoggerGet
  \/ LoggerWoken \/ LoggerInterrupted \/ LoggerInsertOk \/ LoggerInsertThrows
-----------------------------------------------------------------------------
(***************************************************************************)
(* inputCallback.                                                          *)
(***************************************************************************)

IgnoresBuffer == initialized

(* on_the_fly, computed from two reads that hold no lock. *)
MayInsertAtOnce == initialized /\ buffer = <<>>

(* A message arrives; vital_checker_ is dereferenced.                      *)
InputCallback ==
  /\ Running /\ rosOk /\ dtor = "alive" /\ cpc = "idle" /\ arrived < MaxMsgs
  /\ arrived' = arrived + 1
  /\ received' = arrived + 1
  /\ IF phase \in {"relay", "fatal"}
     THEN fault' = "null_vital_checker" /\ UNCHANGED <<cpc, onTheFly>>
     ELSE /\ onTheFly' = MayInsertAtOnce
          /\ cpc' = IF waitForInsert THEN "write" ELSE "subscribers"
          /\ UNCHANGED fault
  /\ UNCHANGED <<initVars, store, initialized, buffer, loggerVars, dbVars,
                 overwritten>>

(* msg_store_->getNumInsertSubscribers(), whatever initialized_ says. *)
CallbackSubscribers ==
  /\ Running /\ cpc = "subscribers"
  /\ IF store = "null"
     THEN fault' = "null_store" /\ UNCHANGED <<cpc, onTheFly>>
     ELSE /\ \E someone \in BOOLEAN : onTheFly' = (onTheFly /\ someone)
          /\ cpc' = "write"
          /\ UNCHANGED fault
  /\ UNCHANGED <<initVars, store, initialized, buffer, loggerVars, received,
                 arrived, dbVars, overwritten>>

CallbackInsert ==
  /\ Running /\ cpc = "write" /\ onTheFly
  /\ \/ stored' = Append(stored, received) /\ UNCHANGED failed
     \/ failed' = failed \cup {received} /\ UNCHANGED stored
  /\ cpc' = "idle"
  /\ received' = NoMsg
  /\ UNCHANGED <<initVars, store, initialized, buffer, loggerVars, onTheFly,
                 arrived, overwritten, fault>>

CallbackPut ==
  /\ Running /\ cpc = "write" /\ ~onTheFly
  /\ Put(received)
  /\ cpc' = "idle"
  /\ received' = NoMsg
  /\ UNCHANGED <<initVars, store, initialized, inHand, interruptRequested,
                 beingInterrupted, onTheFly, arrived, dbVars, fault>>

Callback ==
  InputCallback \/ CallbackSubscribers \/ CallbackInsert \/ CallbackPut
-----------------------------------------------------------------------------
Next ==
  \/ OnInitConfigure \/ OnInitStartThread \/ RosShutdown
  \/ DestroyBegin \/ DestroyEnd
  \/ LoggerThread \/ LoggerSpuriousWake \/ LoggerUseAfterFree
  \/ Callback

Spec == Init /\ [][Next]_vars

(* The operating system schedules the logger thread, onInit returns, and   *)
(* the database answers.  Messages, shutdown and spurious wake-ups are     *)
(* never due.                                                              *)
FairSpec == Spec /\ WF_vars(OnInitStartThread) /\ WF_vars(LoggerThread)
-----------------------------------------------------------------------------
(* The types, and the bound on the circular buffer. *)
TypeOK ==
  /\ phase \in {"relay", "configured", "started", "fatal"}
  /\ dtor \in {"alive", "joining", "gone"}
  /\ rosOk \in BOOLEAN /\ waitForInsert \in BOOLEAN
  /\ store \in {"null", "set", "reset"}
  /\ initialized \in BOOLEAN
  /\ buffer \in Seq(Msg) /\ Len(buffer) <= Capacity
  /\ lpc \in {"none", "connect", "announce", "loop", "get", "wait", "woken",
              "insert", "done"}
  /\ inHand \in Msg \cup {NoMsg}
  /\ interruptRequested \in BOOLEAN /\ beingInterrupted \in BOOLEAN
  /\ cpc \in {"idle", "subscribers", "write"}
  /\ received \in Msg \cup {NoMsg}
  /\ onTheFly \in BOOLEAN
  /\ arrived \in 0 .. MaxMsgs
  /\ stored \in Seq(Msg)
  /\ overwritten \subseteq Msg /\ failed \subseteq Msg
  /\ fault \in {"none", "null_vital_checker", "null_store", "use_after_free"}

(* No message is lost without a trace or stored twice: each one that       *)
(* arrived is in exactly one of the database, the discarded messages, the  *)
(* failed insertions, the buffer, the logger thread's hand and the         *)
(* callback's, and no place holds it twice, however put, get and the two   *)
(* kinds of insertion interleave.                                          *)
Places == <<Range(stored), overwritten, failed, Range(buffer),
            {inHand} \ {NoMsg}, {received} \ {NoMsg}>>

AccountedOnce ==
  /\ UNION {Places[i] : i \in 1 .. 6} = 1 .. arrived
  /\ \A i, j \in 1 .. 6 : i # j => Places[i] \cap Places[j] = {}
  /\ \A i, j \in DOMAIN stored : i # j => stored[i] # stored[j]
  /\ \A i, j \in DOMAIN buffer : i # j => buffer[i] # buffer[j]

(* What waits in the buffer is younger than everything that was stored or  *)
(* taken out before and older than what just arrived: an insertion on the  *)
(* fly may overtake the one message the logger thread holds but never a    *)
(* buffered one, although inputCallback tests the buffer without its lock. *)
BufferedAreYoungest ==
  \A i \in DOMAIN buffer :
    /\ \A j \in DOMAIN stored : stored[j] < buffer[i]
    /\ inHand < buffer[i]
    /\ received # NoMsg => buffer[i] < received
    /\ \A j \in DOMAIN buffer : i < j => buffer[i] < buffer[j]

(* The nodelet implements the relaxed log. *)
Opt(m) == IF m = NoMsg THEN <<>> ELSE <<m>>

Log == INSTANCE RelaxedLog
         WITH pending <- Opt(inHand) \o buffer \o Opt(received)

ImplementsRelaxedLog == Log!LogSpec

(* No wake-up is lost: with a responsive database every buffered message   *)
(* leaves the buffer, although put notifies only when the buffer was empty *)
(* and get never times out while it waits.                                 *)
BufferDrains ==
  \A m \in Msg :
    m \in Range(buffer) ~>
      (m \notin Range(buffer) \/ lpc = "done" \/ dtor = "gone" \/ fault # "none")

(* A message that finds the nodelet "not yet initialized" is put into the  *)
(* buffer "for lazy insertion" (lightweight_logger_nodelet.cpp:210-217).   *)
EarlyMessagesAreBuffered == fault # "null_store"
=============================================================================
