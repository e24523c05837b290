--------------------------- MODULE LifelogProofs ---------------------------
(***************************************************************************)
(* Proofs about Lifelog: the writer of mongodb_log, the tags of LoggerBase *)
(* and the nodelets of automated_logger, for any sets of topics, callbacks *)
(* and tasks.  Each part has an inductive invariant of its own; that a     *)
(* step of the whole is one of the part or leaves it alone carries them    *)
(* over to the composition at the end.                                     *)
(***************************************************************************)
EXTENDS Lifelog, TLAPS

(***************************************************************************)
(* MongoWriter.                                                            *)
(***************************************************************************)

Hands(t) == todo[t] \cup failed[t] \cup {current[t]}
Settled == topics \cup Excluded \cup Shadowed
Beyond == pc["main"] \in {"all", "run", "shutdown", "done"}

(* What the threads own, and that self.topics lists the workers there are. *)
Known ==
  /\ DOMAIN pc = Thread /\ DOMAIN todo = Thread
  /\ DOMAIN failed = Thread /\ DOMAIN current = Thread
  /\ pc["main"] \in
       {"off", "subscribe", "refill", "all", "run", "shutdown", "done"}
  /\ \E S : workers \in Seq(S)
  /\ topics \subseteq Logged

(* The constructor has every requested topic in its hands until it leaves  *)
(* them to missing_topics, which the timer replaces by what it has failed  *)
(* at: nobody else may write it meanwhile.                                 *)
MainHolds ==
  pc["main"] \in {"subscribe", "refill"} => Requested \subseteq Settled \cup Hands("main")
MissingHolds == Beyond => Requested \subseteq Settled \cup missing
FillHolds ==
  pc["fill"] \in Subscribing => Requested \subseteq Settled \cup Hands("fill")
FillIsLate == pc["fill"] # "none" => Beyond

RequestInv == Known /\ MainHolds /\ MissingHolds /\ FillHolds /\ FillIsLate
-----------------------------------------------------------------------------
(* A worker more is a topic more. *)
LEMMA LoggedGrows ==
  ASSUME Known, NEW x, workers' = Append(workers, x)
  PROVE  Logged' = Logged \cup {x} /\ \E S : workers' \in Seq(S)
<1>1. PICK S : workers \in Seq(S)
  BY DEF Known
<1>2. workers \in Seq(S \cup {x})
  BY <1>1
<1>. QED  BY <1>2 DEF Logged

(* subscribe_topics moves a topic from one hand to another, or settles it. *)
LEMMA TopicsMove ==
  ASSUME Known, NEW t \in Thread, SubscribeTopics(t)
  PROVE  /\ Known' /\ UNCHANGED <<pc, missing>>
         /\ \A u \in Thread \ {t} : Hands(u)' = Hands(u)
         /\ Settled \subseteq Settled'
         /\ Requested \cap Hands(t) \subseteq Settled' \cup Hands(t)' \cup {NoTopic}
<1>1. CASE ExamineTopic(t)
  <2>. PICK x \in todo[t] :
         /\ todo' = [todo EXCEPT ![t] = @ \ {x}]
         /\ current' = [current EXCEPT ![t] = IF Wanted(x) THEN x ELSE NoTopic]
    BY <1>1 DEF ExamineTopic
  <2>1. x \in Requested => x \in Settled \/ Wanted(x)
    BY DEF Wanted, Clashes, Known, Settled, Shadowed
  <2>2. Known' /\ Settled' = Settled
    BY <1>1 DEF ExamineTopic, Known, Settled, Shadowed, Logged
  <2>. QED  BY <1>1, <2>1, <2>2 DEF ExamineTopic, Subscribes, Known, Hands
<1>2. CASE WorkerCreated(t)
  BY <1>2, LoggedGrows DEF WorkerCreated, Known, Hands, Settled, Shadowed
<1>3. CASE WorkerFailed(t)
  BY <1>3 DEF WorkerFailed, Known, Hands, Settled, Shadowed, Logged
<1>. QED  BY <1>1, <1>2, <1>3 DEF SubscribeTopics
-----------------------------------------------------------------------------
(* Nothing is requested before the constructor runs. *)
LEMMA RequestInit == Init => RequestInv
BY DEF Init, RequestInv, Known, MainHolds, MissingHolds, FillHolds, FillIsLate, Beyond,
     Logged,
       Thread, Subscribing

(* Each step keeps the invariant. *)
LEMMA RequestNext ==
  ASSUME RequestInv, [Next]_vars
  PROVE  RequestInv'
<1>. USE LifelogAssumption DEF RequestInv
<1>. DEFINE Quiet == UNCHANGED <<topics, workers>>
<1>1. ASSUME Quiet, DOMAIN pc' = Thread, DOMAIN todo' = Thread, DOMAIN failed' = Thread,
             DOMAIN current' = Thread,
             pc'["main"] \in {"subscribe", "refill", "all", "run", "shutdown", "done", "off"}
      PROVE  Known'
  BY <1>1 DEF Known, Logged
<1>2. CASE Launch
  BY <1>1, <1>2 DEF Launch, Known, MainHolds, MissingHolds, FillHolds, FillIsLate, Beyond,
       Hands, Settled, Shadowed, Logged, Thread, Subscribing
<1>3. ASSUME NEW t \in Thread, SubscribeTopics(t) PROVE RequestInv'
  <2>1. Known' /\ FillIsLate'
    BY <1>3, TopicsMove DEF FillIsLate, Beyond
  <2>2. MainHolds' /\ MissingHolds' /\ FillHolds'
    BY <1>3, TopicsMove DEF MainHolds, MissingHolds, FillHolds, Beyond, Thread
  <2>. QED  BY <2>1, <2>2
<1>4. CASE RequestedExamined
  BY <1>1, <1>4 DEF RequestedExamined, Subscribed, Subscribes, Known, MainHolds,
       MissingHolds,
       FillHolds, FillIsLate, Beyond, Hands, Settled, Shadowed, Logged, Thread, Subscribing
<1>5. CASE MissingExamined
  BY <1>1, <1>5 DEF MissingExamined, Subscribed, Subscribes, Known, MainHolds, MissingHolds,
       FillHolds, FillIsLate, Beyond, Hands, Settled, Shadowed, Logged, Thread, Subscribing
<1>6. CASE Constructed
  BY <1>1, <1>6 DEF Constructed, Subscribed, Subscribes, Known, MainHolds, MissingHolds,
       FillHolds, FillIsLate, Beyond, Hands, Settled, Shadowed, Logged, Thread,
       Subscribing, threadVars
<1>7. CASE FillFires
  BY <1>1, <1>7 DEF FillFires, Known, MainHolds, MissingHolds, FillHolds, FillIsLate,
       Beyond,
       Hands, Settled, Shadowed, Logged, Thread, Subscribing
<1>8. CASE FillEnds
  BY <1>1, <1>8 DEF FillEnds, Subscribed, Subscribes, Known, MainHolds, MissingHolds,
       FillHolds, FillIsLate, Beyond, Hands, Settled, Shadowed, Logged, Thread,
       Subscribing, threadVars
<1>9. CASE UpdateFires
  BY <1>1, <1>9 DEF UpdateFires, Known, MainHolds, MissingHolds, FillHolds, FillIsLate,
       Beyond, Hands, Settled, Shadowed, Logged, Thread, Subscribing
<1>10. CASE UpdateEnds \/ ShutdownBegin \/ ShutdownWorker \/ ShutdownEnds \/ Announce
            \/ UNCHANGED vars
  BY <1>1, <1>10 DEF UpdateEnds, ShutdownBegin, ShutdownWorker, ShutdownEnds, Announce,
       vars, Known, MainHolds, MissingHolds, FillHolds, FillIsLate, Beyond, Hands, Settled,
       Shadowed, Logged, Thread,
       Subscribing, threadVars
<1>. QED
  BY <1>2, <1>3, <1>4, <1>5, <1>6, <1>7, <1>8, <1>9, <1>10 DEF Next, Construct

(* The strengthening implies the property. *)
LEMMA RequestInvIsEnough == RequestInv => NoTopicForgotten
BY DEF RequestInv, Known, MainHolds, MissingHolds, Beyond, Hands, Settled, NoTopicForgotten

(***************************************************************************)
(* LoggerBase.                                                             *)
(***************************************************************************)

Tagged ==
  /\ DOMAIN cbPc = Threads /\ DOMAIN dict = Threads /\ DOMAIN seen = Threads
  /\ DOMAIN tag = Threads \cup {"default"}
  /\ \A t \in Threads :
       cbPc[t] \in {"idle", "test", "tag", "store"} /\ dict[t] \in {"fresh", "default"}

(* task_id has been seen by whoever inserts, and a dictionary of one's own *)
(* is empty or bears a task that was seen; only a detection uses the one   *)
(* of the default argument.                                                *)
TaskIsSeen == \A t \in Threads : cbPc[t] # "idle" => taskId \in seen[t]
TestedEmpty == \A t \in Threads : cbPc[t] = "test" => tag[t] = NoTask
OwnIsSeen ==
  \A t \in Threads : cbPc[t] = "store" /\ dict[t] = "fresh" => tag[t] \in seen[t]
DefaultIsDetection ==
  (\E t \in Threads : cbPc[t] # "idle" /\ dict[t] = "default") => logger = "detection"
DefaultStaysOwn ==
  \A t \in Threads : cbPc[t] # "idle" /\ dict[t] = "default" => tag[t] = NoTask

TagInv ==
  /\ Tagged /\ TaskIsSeen /\ TestedEmpty /\ OwnIsSeen /\ DefaultIsDetection
  /\ DefaultStaysOwn
  /\ doc.dict = "default" => logger = "detection"
  /\ Log!TagIsCurrent
-----------------------------------------------------------------------------
(* Nothing is inserted before the logger is launched. *)
LEMMA TagInit == Log!Init => TagInv
BY DEF Log!Init, TagInv, Tagged, TaskIsSeen, TestedEmpty, OwnIsSeen, DefaultIsDetection,
       DefaultStaysOwn, Log!TagIsCurrent

(* Each step keeps the invariant; that of a callback concerns the callback *)
(* itself and, through the default argument, no dictionary of another.     *)
LEMMA TagNext ==
  ASSUME TagInv, [Log!Next]_(Log!logVars)
  PROVE  TagInv'
<1>. USE LifelogAssumption DEF TagInv, Tagged, TaskIsSeen, TestedEmpty, OwnIsSeen,
             DefaultIsDetection,
             DefaultStaysOwn, Log!TagIsCurrent
<1>1. CASE Log!Launch
  BY <1>1 DEF Log!Launch, Log!callVars
<1>2. CASE Log!SpinOnce
  BY <1>2 DEF Log!SpinOnce, Log!callVars
<1>3. ASSUME NEW k, Log!SetTask(k) PROVE TagInv'
  BY <1>3 DEF Log!SetTask, Log!callVars
<1>4. ASSUME NEW t \in Threads, Log!Callback(t) PROVE TagInv'
  BY <1>4 DEF Log!Callback, Log!Begin, Log!CbGoto, Log!FirstDict, Log!callVars
<1>5. ASSUME NEW t \in Threads, Log!TestTask(t) PROVE TagInv'
  BY <1>5 DEF Log!TestTask, Log!CbGoto, Log!callVars
<1>6. ASSUME NEW t \in Threads, Log!UpdateMeta(t) PROVE TagInv'
  BY <1>6 DEF Log!UpdateMeta, Log!DictOf, Log!CbGoto, Log!callVars
<1>7. ASSUME NEW t \in Threads, Log!Store(t) PROVE TagInv'
  BY <1>7 DEF Log!Store, Log!Begin, Log!DictOf, Log!CbGoto, Log!callVars
<1>8. CASE UNCHANGED Log!logVars
  BY <1>8 DEF Log!logVars, Log!callVars
<1>. QED  BY <1>1, <1>2, <1>3, <1>4, <1>5, <1>6, <1>7, <1>8 DEF Log!Next

(***************************************************************************)
(* BaseTrajectoryLogger.                                                   *)
(***************************************************************************)

(* With poses of the transforms the pose that prev_pose remembers is the   *)
(* last one in the data base, except between insert and the assignment.    *)
RememberedIsStored ==
  ~useAmcl /\ prevPose # NoPose => stored = prevPose \/ trajPc = "remember"

TrajInv ==
  /\ useAmcl \in BOOLEAN /\ RememberedIsStored
  /\ ~useAmcl /\ trajPc = "remember" => stored = latestPose
  /\ trajPc \in {"off", "load", "publish"} => prevPose = NoPose

LEMMA TrajInit == Traj!Init => TrajInv
BY DEF Traj!Init, TrajInv, RememberedIsStored

LEMMA TrajNext ==
  ASSUME TrajInv, [Traj!Next]_(Traj!trajVars)
  PROVE  TrajInv'
<1>. USE DEF TrajInv, RememberedIsStored, Traj!worldVars, Traj!TrajGoto
<1>1. CASE Traj!Launch \/ Traj!Localize \/ Traj!AmclCb \/ UNCHANGED Traj!trajVars
  BY <1>1 DEF Traj!Launch, Traj!Localize, Traj!AmclCb, Traj!trajVars
<1>2. CASE Traj!TimePasses \/ \E p \in Poses : Traj!Move(p)
  BY <1>2 DEF Traj!TimePasses, Traj!Move
<1>3. CASE Traj!LoadLatestPose \/ Traj!PublishInitialPose \/ Traj!GetPoseFromTf \/ Traj!Look
  BY <1>3 DEF Traj!LoadLatestPose, Traj!PublishInitialPose, Traj!GetPoseFromTf, Traj!Look
<1>4. CASE Traj!Insert \/ Traj!Remember \/ Traj!Clear
  BY <1>4 DEF Traj!Insert, Traj!Remember, Traj!Clear
<1>. QED  BY <1>1, <1>2, <1>3, <1>4 DEF Traj!Next, Traj!Run

(***************************************************************************)
(* AutomatedLogger.                                                        *)
(***************************************************************************)

(* Where the timer's call is, and the topic that it has loaded and has yet *)
(* to note; the loggers whose loads were heard of, and those whose name    *)
(* the node knows.                                                         *)
AtTimer(l, m) == callPc["timer"] = l /\ callee["timer"] = m
InHand(m, t) == AtTimer("note", m) /\ updatePc = "add" /\ item["timer"] = t
Runs(m) == nodelets[m] \ unheard
Recorded(m, t) == EscapeTopic[t] \in loaded[m]

CallTypes ==
  /\ DOMAIN nodelets = Aut!Manager /\ DOMAIN loaded = Aut!Manager
  /\ DOMAIN watched = Aut!Manager
  /\ callee \in [Aut!Thread -> Aut!Manager] /\ managers \subseteq Aut!Manager
  /\ DOMAIN callPc = Aut!Thread /\ DOMAIN item = Aut!Thread /\ DOMAIN listed = Aut!Thread

(* A call belongs to a loop of the timer, or to shutdown_cb.               *)
CallsAreOfLoops ==
  /\ callPc["timer"] # "none" => updatePc \in {"cancel", "add"} /\ callee["timer"] \in managers
  /\ stopPc = "run" => callPc["shutdown"] = "none"

WatchersAreKnown ==
  \A m \in Aut!Manager : watched[m] # {} => m \in managers /\ updatePc # "off"

(* A topic has one LoggerManager at most that watches it, and the loop     *)
(* that adds is at topics that nobody watches.                             *)
WatchedOnce ==
  /\ \A m, n \in Aut!Manager : m # n => watched[m] \cap watched[n] = {}
  /\ updatePc = "add" =>
       \A m \in Aut!Manager :
         /\ work \cap watched[m] = {}
         /\ callPc["timer"] # "none" => item["timer"] \notin watched[m] \cup work

(* A manager refuses a second nodelet of one name: after a load the topic  *)
(* in hand is alone with its name, after an unload nobody has it.          *)
LoadsAlone ==
  \A m \in Aut!Manager :
    AtTimer("note", m) =>
      Aut!Named(m, Aut!NameFor("timer"))
        \subseteq (IF updatePc = "add" THEN {item["timer"]} ELSE {})

(* Between a listing and its assignment the timer loads nothing: the       *)
(* listing has every name that runs, and none is lost from the record.     *)
TimerSees ==
  \A m \in Aut!Manager :
    /\ AtTimer("meet", m) => Aut!Running(m) \subseteq listed["timer"]
    /\ AtTimer("store", m) =>
         \A t \in Runs(m) : Recorded(m, t) => EscapeTopic[t] \in listed["timer"]

(* What shutdown_cb is about to assign is a part of what was recorded.     *)
ShutdownSees ==
  \A m \in Aut!Manager :
    callPc["shutdown"] = "store" /\ callee["shutdown"] = m =>
      \A t \in Runs(m) :
        EscapeTopic[t] \in listed["shutdown"] => Recorded(m, t) \/ InHand(m, t)

(* Until shutdown_cb cuts in, every logger that runs is recorded.          *)
RecordedAlone ==
  stopPc = "run" => \A m \in Aut!Manager : \A t \in Runs(m) : Recorded(m, t) \/ InHand(m, t)

(* A logger that is not recorded stays so; one that is, is watched.        *)
Forgotten(m, t) ==
  ~Recorded(m, t) /\ (AtTimer("store", m) => EscapeTopic[t] \notin listed["timer"])
WatchedOrForgotten ==
  \A m \in Aut!Manager : \A t \in Runs(m) : t \in watched[m] \/ InHand(m, t) \/ Forgotten(m, t)

LoadInv ==
  /\ CallTypes /\ CallsAreOfLoops /\ WatchersAreKnown /\ WatchedOnce /\ LoadsAlone
  /\ TimerSees /\ ShutdownSees /\ RecordedAlone /\ WatchedOrForgotten

(* Nothing is loaded before the node is launched.                          *)
LEMMA LoadInit == Aut!Init => LoadInv
BY DEF Aut!Init, LoadInv, CallTypes, CallsAreOfLoops, WatchedOnce, LoadsAlone, TimerSees,
     ShutdownSees, RecordedAlone, WatchedOrForgotten, WatchersAreKnown, Runs, AtTimer,
     InHand, Recorded, Forgotten, Aut!Named, Aut!Running, Aut!NameFor, Aut!Manager,
     Aut!Thread

(* Two loggers that run and are recorded would both be watched.            *)
LEMMA LoadInvIsEnough == LoadInv => Aut!OneLoggerPerTopic
BY DEF LoadInv, WatchedOnce, RecordedAlone, WatchedOrForgotten, Runs, InHand, AtTimer,
     Recorded, Forgotten, Aut!OneLoggerPerTopic

timerPlace ==
  <<callPc["timer"], callee["timer"], item["timer"], listed["timer"], updatePc, work>>

Shrinks ==
  \A m \in Aut!Manager : Runs(m)' \subseteq Runs(m) /\ nodelets'[m] \subseteq nodelets[m]
-----------------------------------------------------------------------------
(* Fewer loggers, and more names of topics unheard, harm nothing. *)
LEMMA ShrinkKeeps ==
  ASSUME LoadInv, CallTypes', UNCHANGED <<timerPlace, watched, loaded, stopPc, managers>>,
         Shrinks,
         UNCHANGED <<callPc["shutdown"], callee["shutdown"], listed["shutdown"]>>
  PROVE  LoadInv'
<1>. USE DEF LoadInv, timerPlace, Shrinks
<1>1. CallsAreOfLoops' /\ WatchersAreKnown' /\ WatchedOnce'
  BY DEF CallsAreOfLoops, WatchersAreKnown, WatchedOnce
<1>2. LoadsAlone' /\ TimerSees'
  BY DEF LoadsAlone, TimerSees, Aut!Named, Aut!Running, Aut!NameFor, AtTimer, Recorded
<1>3. ShutdownSees' /\ RecordedAlone'
  BY DEF ShutdownSees, RecordedAlone, AtTimer, Recorded, InHand
<1>4. WatchedOrForgotten'
  BY DEF WatchedOrForgotten, AtTimer, Recorded, InHand, Forgotten
<1>. QED  BY <1>1, <1>2, <1>3, <1>4

(* What a step of shutdown_cb in a manager may do. *)
LEMMA ShutdownCall ==
  ASSUME LoadInv, Aut!NodeletManager("shutdown")
  PROVE  /\ CallTypes' /\ UNCHANGED <<timerPlace, watched, stopPc, managers>>
         /\ Shrinks
         /\ \A m \in Aut!Manager :
              \/ loaded'[m] \subseteq loaded[m]
              \/ /\ callPc["shutdown"] = "store" /\ callee["shutdown"] = m
                 /\ loaded'[m] = listed["shutdown"]
         /\ callPc'["shutdown"] = "store" =>
              /\ UNCHANGED <<loaded, callee>>
              /\ listed'["shutdown"] \subseteq loaded[callee["shutdown"]]
         /\ callPc["shutdown"] # "none"
<1>. USE DEF LoadInv, CallTypes, timerPlace, Shrinks, Aut!Thread, Aut!Goto, Aut!Leave,
             Aut!Return,
             Aut!Raise, Aut!Loading
<1>0. UNCHANGED <<work, stopPc, managers>>
  BY DEF Aut!NodeletManager
<1>1. CASE Aut!ListNodelets("shutdown")
  BY <1>0, <1>1 DEF Aut!ListNodelets, Runs
<1>2. CASE Aut!Meet("shutdown")
  BY <1>0, <1>2 DEF Aut!Meet, Runs
<1>3. CASE Aut!Assign("shutdown")
  BY <1>0, <1>3 DEF Aut!Assign, Runs
<1>4. CASE Aut!Test("shutdown")
  BY <1>0, <1>4 DEF Aut!Test, Runs
<1>5. CASE Aut!Call("shutdown")
  BY <1>0, <1>5 DEF Aut!Call, Aut!Performed, Runs, Aut!Named
<1>6. CASE Aut!Note("shutdown")
  BY <1>0, <1>6 DEF Aut!Note, Runs
<1>. QED  BY <1>1, <1>2, <1>3, <1>4, <1>5, <1>6 DEF Aut!NodeletManager

(* shutdown_cb may lose names from the record, but never a topic watched.  *)
LEMMA ShutdownKeeps ==
  ASSUME LoadInv, Aut!NodeletManager("shutdown")
  PROVE  LoadInv'
<1>. USE ShutdownCall DEF LoadInv, timerPlace, Shrinks
<1>1. CallsAreOfLoops' /\ WatchersAreKnown' /\ WatchedOnce'
  BY DEF CallsAreOfLoops, WatchersAreKnown, WatchedOnce
<1>2. LoadsAlone'
  BY DEF LoadsAlone, Aut!Named, Aut!NameFor, AtTimer
<1>3. TimerSees'
  BY DEF TimerSees, ShutdownSees, Aut!Running, AtTimer, InHand, Recorded
<1>4. ShutdownSees'
  BY DEF ShutdownSees, AtTimer, InHand, Recorded, CallTypes
<1>5. RecordedAlone'
  BY DEF CallsAreOfLoops, RecordedAlone
<1>6. WatchedOrForgotten'
  BY DEF WatchedOrForgotten, ShutdownSees, AtTimer, InHand, Recorded, Forgotten
<1>. QED  BY <1>1, <1>2, <1>3, <1>4, <1>5, <1>6

(* What a step of the timer in a manager may do.                           *)
LEMMA TimerCall ==
  ASSUME LoadInv, Aut!NodeletManager("timer")
  PROVE  /\ CallTypes' /\ CallsAreOfLoops' /\ WatchersAreKnown'
         /\ UNCHANGED <<work, stopPc>>
         /\ UNCHANGED <<callPc["shutdown"], callee["shutdown"], listed["shutdown"]>>
         /\ updatePc' = updatePc \/ (updatePc' = "dead" /\ callPc'["timer"] = "none")
         /\ callPc'["timer"] # "none" => UNCHANGED <<callee, item, watched>>
<1>. USE DEF LoadInv, CallTypes, CallsAreOfLoops, WatchersAreKnown, Aut!Thread, Aut!Goto,
             Aut!Leave, Aut!Return, Aut!Raise, Aut!Watching
<1>0. UNCHANGED <<work, stopPc, managers>> /\ Default \in Aut!Manager
  BY DEF Aut!NodeletManager, Aut!Manager
<1>1. CASE Aut!ListNodelets("timer")
  BY <1>0, <1>1 DEF Aut!ListNodelets
<1>2. CASE Aut!Meet("timer")
  BY <1>0, <1>2 DEF Aut!Meet
<1>3. CASE Aut!Assign("timer")
  BY <1>0, <1>3 DEF Aut!Assign
<1>4. CASE Aut!Test("timer")
  BY <1>0, <1>4 DEF Aut!Test
<1>5. CASE Aut!Call("timer")
  BY <1>0, <1>5 DEF Aut!Call, Aut!Performed
<1>6. CASE Aut!Note("timer")
  BY <1>0, <1>6 DEF Aut!Note
<1>. QED  BY <1>1, <1>2, <1>3, <1>4, <1>5, <1>6 DEF Aut!NodeletManager

(* The topic in hand joins those watched, or leaves them, or they stay as  *)
(* they are.                                                               *)
LEMMA TimerWatches ==
  ASSUME LoadInv, Aut!NodeletManager("timer")
  PROVE  WatchedOnce'
<1>. USE DEF LoadInv, CallTypes, CallsAreOfLoops, WatchedOnce
<1>0. UNCHANGED work /\ CallTypes'
  BY TimerCall
<1>1. callPc["timer"] # "none"
  BY DEF Aut!NodeletManager, Aut!ListNodelets, Aut!Meet, Aut!Assign, Aut!Test, Aut!Call,
       Aut!Note
<1>2. CASE UNCHANGED <<watched, item, updatePc>>
  BY <1>0, <1>1, <1>2
<1>3. CASE callPc'["timer"] = "none" /\ watched' = watched
  BY <1>0, <1>1, <1>3, TimerCall
<1>4. CASE callPc'["timer"] = "none" /\ Aut!Watching(TRUE) /\ UNCHANGED updatePc
  BY <1>0, <1>1, <1>4, TimerCall DEF Aut!Watching, Aut!Thread
<1>5. \/ UNCHANGED <<watched, item, updatePc>>
      \/ callPc'["timer"] = "none" /\ watched' = watched
      \/ callPc'["timer"] = "none" /\ Aut!Watching(TRUE) /\ UNCHANGED updatePc
  BY DEF Aut!NodeletManager, Aut!ListNodelets, Aut!Meet, Aut!Assign, Aut!Test, Aut!Call,
       Aut!Note, Aut!Goto, Aut!Return, Aut!Raise, Aut!Leave, Aut!Watching, Aut!Thread
<1>. QED  BY <1>2, <1>3, <1>4, <1>5

(* The listing, the intersection, the assignment, the test, the call and   *)
(* the note of the timer, one by one.                                      *)
LEMMA TimerLists ==
  ASSUME LoadInv, Aut!ListNodelets("timer") \/ Aut!Meet("timer"), Aut!NodeletManager("timer")
  PROVE  LoadInv'
<1>. USE DEF LoadInv
<1>1. CallTypes' /\ CallsAreOfLoops' /\ WatchersAreKnown' /\ WatchedOnce'
  BY TimerCall, TimerWatches
<1>2. /\ UNCHANGED <<nodelets, loaded, unheard, watched, updatePc, callee, item, stopPc>>
      /\ UNCHANGED <<callPc["shutdown"], listed["shutdown"]>>
      /\ callPc["timer"] \in {"list", "meet"}
      /\ callPc'["timer"] \in {"meet", "test", "store"}
  BY TimerCall DEF Aut!ListNodelets, Aut!Meet, Aut!Goto, CallTypes, Aut!Thread
<1>3. LoadsAlone' /\ ShutdownSees' /\ RecordedAlone'
  BY <1>2 DEF LoadsAlone, ShutdownSees, RecordedAlone, InHand, AtTimer, Recorded, Runs
<1>4. TimerSees'
  BY <1>2 DEF TimerSees, Aut!ListNodelets, Aut!Meet, Aut!Goto, AtTimer, Recorded, Runs,
       Aut!Running, CallTypes, Aut!Thread
<1>5. WatchedOrForgotten'
  BY <1>2 DEF WatchedOrForgotten, Forgotten, Aut!ListNodelets, Aut!Meet, Aut!Goto, InHand,
       AtTimer, Recorded, Runs, CallTypes, Aut!Thread
<1>. QED  BY <1>1, <1>3, <1>4, <1>5

LEMMA TimerAssigns ==
  ASSUME LoadInv, Aut!Assign("timer"), Aut!NodeletManager("timer")
  PROVE  LoadInv'
<1>. USE DEF LoadInv
<1>1. CallTypes' /\ CallsAreOfLoops' /\ WatchersAreKnown' /\ WatchedOnce'
  BY TimerCall, TimerWatches
<1>2. PICK m \in Aut!Manager : m = callee["timer"]
  BY DEF CallTypes, Aut!Thread
<1>3. /\ UNCHANGED <<nodelets, unheard, watched, updatePc, callee, item, stopPc>>
      /\ UNCHANGED <<callPc["shutdown"], listed["shutdown"]>>
      /\ loaded' = [loaded EXCEPT ![m] = listed["timer"]]
      /\ AtTimer("store", m) /\ callPc'["timer"] = "test"
  BY <1>2, TimerCall DEF Aut!Assign, Aut!Goto, CallTypes, Aut!Thread, AtTimer
<1>4. LoadsAlone' /\ TimerSees'
  BY <1>3 DEF LoadsAlone, TimerSees, AtTimer
<1>5. ShutdownSees' /\ RecordedAlone'
  BY <1>3 DEF ShutdownSees, RecordedAlone, TimerSees, InHand, AtTimer, Recorded, Runs,
       CallTypes
<1>6. WatchedOrForgotten'
  BY <1>3 DEF WatchedOrForgotten, Forgotten, InHand, AtTimer, Recorded, Runs, CallTypes
<1>. QED  BY <1>1, <1>4, <1>5, <1>6

LEMMA TimerTests ==
  ASSUME LoadInv, Aut!Test("timer"), Aut!NodeletManager("timer")
  PROVE  LoadInv'
<1>. USE DEF LoadInv
<1>1. CallTypes' /\ CallsAreOfLoops' /\ WatchersAreKnown' /\ WatchedOnce'
  BY TimerCall, TimerWatches
<1>2. PICK m \in Aut!Manager : m = callee["timer"]
  BY DEF CallTypes, Aut!Thread
<1>3. /\ UNCHANGED <<nodelets, loaded, unheard, updatePc, stopPc>>
      /\ UNCHANGED <<callPc["shutdown"], listed["shutdown"], callee["shutdown"]>>
      /\ AtTimer("test", m) /\ callPc'["timer"] \in {"none", "call"}
      /\ \/ watched' = watched
         \/ /\ updatePc = "add"
            /\ watched' = [watched EXCEPT ![m] = @ \cup {item["timer"]}]
         \/ /\ EscapeTopic[item["timer"]] \notin loaded[m]
            /\ watched' = [watched EXCEPT ![m] = @ \ {item["timer"]}]
  BY <1>2, TimerCall DEF Aut!Test, Aut!Goto, Aut!Return, Aut!Leave, Aut!Watching,
       Aut!Loading, Aut!NameFor, CallTypes, Aut!Thread, AtTimer
<1>4. LoadsAlone' /\ TimerSees'
  BY <1>3 DEF LoadsAlone, TimerSees, AtTimer
<1>5. ShutdownSees' /\ RecordedAlone'
  BY <1>3 DEF ShutdownSees, RecordedAlone, InHand, AtTimer, Recorded, Runs, CallTypes
<1>6. WatchedOrForgotten'
  BY <1>3 DEF WatchedOrForgotten, Forgotten, InHand, AtTimer, Recorded, Runs, CallTypes
<1>. QED  BY <1>1, <1>4, <1>5, <1>6

LEMMA TimerCalls ==
  ASSUME LoadInv, Aut!Call("timer"), Aut!NodeletManager("timer")
  PROVE  LoadInv'
<1>. USE DEF LoadInv
<1>1. CallTypes' /\ CallsAreOfLoops' /\ WatchersAreKnown' /\ WatchedOnce'
  BY TimerCall, TimerWatches
<1>2. PICK m \in Aut!Manager : m = callee["timer"]
  BY DEF CallTypes, Aut!Thread
<1>t. PICK t : t = item["timer"]
  OBVIOUS
<1>3. /\ UNCHANGED <<loaded, updatePc, stopPc, watched>>
      /\ UNCHANGED <<callPc["shutdown"], listed["shutdown"], callee["shutdown"]>>
      /\ AtTimer("call", m) /\ callPc'["timer"] \in {"none", "note"}
      /\ unheard \subseteq unheard'
      /\ \A n \in Aut!Manager \ {m} : nodelets'[n] = nodelets[n]
      /\ updatePc \in {"cancel", "add"}
  BY <1>t, <1>2, TimerCall DEF Aut!Call, Aut!Performed, Aut!Goto, Aut!Return, Aut!Leave,
       Aut!Watching, Aut!Loading, CallTypes, Aut!Thread, AtTimer, CallsAreOfLoops
<1>4. /\ callPc'["timer"] = "note" => callee' = callee /\ item' = item
      /\ callPc'["timer"] = "note" => Aut!Performed("timer") /\ UNCHANGED unheard
      /\ \/ Aut!Performed("timer") /\ UNCHANGED unheard
         \/ /\ Aut!Performed("timer")
            /\ unheard' = unheard \cup Aut!SymDiff(nodelets[m], nodelets'[m])
         \/ UNCHANGED <<nodelets, unheard>>
      /\ callPc'["timer"] = "none" =>
           unheard' = unheard \cup Aut!SymDiff(nodelets[m], nodelets'[m])
  BY <1>t, <1>2, <1>3 DEF Aut!Call, Aut!Goto, Aut!Return, Aut!Leave, CallTypes,
       Aut!Thread, Aut!SymDiff
<1>5. CASE callPc'["timer"] = "note" /\ updatePc = "add"
  <2>1. /\ nodelets' = [nodelets EXCEPT ![m] = @ \cup {t}] /\ UNCHANGED unheard
        /\ Aut!Named(m, EscapeTopic[t]) = {}
    BY <1>t, <1>2, <1>3, <1>4, <1>5 DEF Aut!Performed, Aut!Loading, Aut!NameFor,
         CallTypes, Aut!Thread
  <2>2. AtTimer("note", m)' /\ item'["timer"] = t
    BY <1>t, <1>3, <1>4, <1>5 DEF AtTimer
  <2>3. LoadsAlone' /\ TimerSees'
    BY <1>3, <1>5, <2>1, <2>2 DEF LoadsAlone, TimerSees, AtTimer, Aut!Named, Aut!NameFor,
         CallTypes
  <2>4. \A n \in Aut!Manager : \A u \in Runs(n)' :
          u \in Runs(n) \/ (n = m /\ u = t)
    BY <1>3, <2>1 DEF Runs, CallTypes
  <2>5. InHand(m, t)'
    BY <1>3, <1>5, <2>2 DEF InHand, AtTimer
  <2>6. ShutdownSees'
    BY <1>3, <2>4, <2>5 DEF ShutdownSees, InHand, AtTimer, Recorded
  <2>7. RecordedAlone'
    BY <1>3, <2>4, <2>5 DEF RecordedAlone, InHand, AtTimer, Recorded
  <2>8. WatchedOrForgotten'
    BY <1>3, <2>2, <2>4, <2>5 DEF WatchedOrForgotten, Forgotten, InHand, AtTimer, Recorded
  <2>. QED  BY <1>1, <2>3, <2>6, <2>7, <2>8
<1>6. CASE ~(callPc'["timer"] = "note" /\ updatePc = "add")
  <2>1. \A n \in Aut!Manager : Runs(n)' \subseteq Runs(n)
    <3>1. CASE Aut!Performed("timer") /\ updatePc = "cancel"
      <4>1. nodelets' = [nodelets EXCEPT ![m] = @ \ Aut!Named(m, Aut!NameFor("timer"))]
        BY <1>t, <1>2, <3>1 DEF Aut!Performed, Aut!Loading
      <4>. QED  BY <1>3, <4>1 DEF CallTypes, Runs
    <3>2. CASE callPc'["timer"] = "none"
      BY <1>3, <1>4, <3>2 DEF Runs, Aut!SymDiff
    <3>3. callPc'["timer"] = "none" \/ (Aut!Performed("timer") /\ updatePc = "cancel")
      BY <1>3, <1>4, <1>6
    <3>. QED  BY <3>1, <3>2, <3>3
  <2>2. callPc'["timer"] = "note" => Aut!Named(m, EscapeTopic[t])' = {}
    BY <1>t, <1>2, <1>3, <1>4, <1>6 DEF Aut!Performed, Aut!Loading, Aut!NameFor,
         CallTypes, Aut!Thread, Aut!Named
  <2>3. LoadsAlone' /\ TimerSees'
    BY <1>t, <1>2, <1>3, <1>4, <1>6, <2>2 DEF LoadsAlone, TimerSees, AtTimer, Aut!NameFor
  <2>4. ShutdownSees' /\ RecordedAlone' /\ WatchedOrForgotten'
    BY <1>3, <1>6, <2>1 DEF ShutdownSees, RecordedAlone, WatchedOrForgotten, Forgotten,
         InHand, AtTimer, Recorded, CallTypes
  <2>. QED  BY <1>1, <2>3, <2>4
<1>. QED  BY <1>5, <1>6

LEMMA TimerNotes ==
  ASSUME LoadInv, Aut!Note("timer"), Aut!NodeletManager("timer")
  PROVE  LoadInv'
<1>. USE DEF LoadInv
<1>1. CallTypes' /\ CallsAreOfLoops' /\ WatchersAreKnown' /\ WatchedOnce'
  BY TimerCall, TimerWatches
<1>2. PICK m \in Aut!Manager : m = callee["timer"]
  BY DEF CallTypes, Aut!Thread
<1>t. PICK t : t = item["timer"]
  OBVIOUS
<1>3. /\ UNCHANGED <<nodelets, unheard, stopPc>>
      /\ UNCHANGED <<callPc["shutdown"], listed["shutdown"], callee["shutdown"]>>
      /\ AtTimer("note", m) /\ callPc'["timer"] = "none"
      /\ updatePc \in {"cancel", "add"}
  BY <1>t, <1>2, TimerCall DEF Aut!Note, Aut!Return, Aut!Leave, Aut!Raise, CallTypes,
       Aut!Thread, AtTimer, CallsAreOfLoops
<1>4. LoadsAlone' /\ TimerSees'
  BY <1>3 DEF LoadsAlone, TimerSees, AtTimer
<1>5. CASE updatePc = "add"
  <2>1. /\ loaded' = [loaded EXCEPT ![m] = @ \cup {EscapeTopic[t]}]
        /\ watched' = [watched EXCEPT ![m] = @ \cup {t}]
    BY <1>t, <1>2, <1>5 DEF Aut!Note, Aut!Return, Aut!Watching, Aut!Loading, Aut!NameFor
  <2>2. Aut!Named(m, EscapeTopic[t]) \subseteq {t}
    BY <1>t, <1>3, <1>5 DEF LoadsAlone, Aut!NameFor
  <2>3. ShutdownSees' /\ RecordedAlone'
    BY <1>t, <1>3, <1>5, <2>1, <2>2 DEF ShutdownSees, RecordedAlone, InHand, AtTimer,
         Recorded, Runs, CallTypes
  <2>4. WatchedOrForgotten'
    BY <1>t, <1>3, <1>5, <2>1, <2>2 DEF WatchedOrForgotten, Forgotten, InHand, AtTimer,
         Recorded, Runs, CallTypes, Aut!Named
  <2>. QED  BY <1>1, <1>4, <2>3, <2>4
<1>6. CASE updatePc = "cancel"
  <2>1. /\ \/ loaded' = loaded
           \/ loaded' = [loaded EXCEPT ![m] = @ \ {EscapeTopic[t]}]
        /\ \/ watched' = watched
           \/ watched' = [watched EXCEPT ![m] = @ \ {t}]
    BY <1>t, <1>2, <1>6 DEF Aut!Note, Aut!Return, Aut!Raise, Aut!Watching, Aut!Loading,
         Aut!NameFor
  <2>2. Aut!Named(m, EscapeTopic[t]) = {}
    BY <1>t, <1>3, <1>6 DEF LoadsAlone, Aut!NameFor
  <2>3. ShutdownSees' /\ RecordedAlone'
    BY <1>3, <1>6, <2>1, <2>2 DEF ShutdownSees, RecordedAlone, InHand, AtTimer, Recorded,
         Runs, CallTypes, Aut!Named
  <2>4. WatchedOrForgotten'
    BY <1>3, <1>6, <2>1, <2>2 DEF WatchedOrForgotten, Forgotten, InHand, AtTimer,
         Recorded, Runs, CallTypes, Aut!Named
  <2>. QED  BY <1>1, <1>4, <2>3, <2>4
<1>. QED  BY <1>3, <1>5, <1>6

LEMMA TimerKeeps ==
  ASSUME LoadInv, Aut!NodeletManager("timer")
  PROVE  LoadInv'
BY TimerLists, TimerAssigns, TimerTests, TimerCalls, TimerNotes DEF Aut!NodeletManager

(* The loops of the timer: between two calls it holds no topic. *)
LEMMA LoopKeeps ==
  ASSUME LoadInv,
         \/ Aut!Update \/ Aut!BaseNotFound \/ Aut!Cancelled \/ Aut!Added
         \/ \E t \in Aut!Topics : Aut!Cancel(t)
  PROVE  LoadInv'
<1>. USE DEF LoadInv
<1>1. /\ callPc["timer"] = "none" /\ callPc'["timer"] \in {"none", "list"}
      /\ CallTypes' /\ CallsAreOfLoops' /\ WatchersAreKnown'
      /\ UNCHANGED <<nodelets, loaded, unheard, watched, stopPc>>
      /\ UNCHANGED <<callPc["shutdown"], callee["shutdown"], listed["shutdown"]>>
  BY DEF Aut!Update, Aut!BaseNotFound, Aut!Cancelled, Aut!Added, Aut!Cancel, Aut!Takes,
       Aut!Enter, CallTypes, CallsAreOfLoops, WatchersAreKnown, Aut!nodeletVars,
       Aut!callVars, Aut!stopVars, Aut!Thread
<1>2. LoadsAlone' /\ TimerSees' /\ ShutdownSees' /\ RecordedAlone' /\ WatchedOrForgotten'
  BY <1>1 DEF LoadsAlone, TimerSees, ShutdownSees, RecordedAlone, WatchedOrForgotten,
       Forgotten, InHand, AtTimer, Recorded, Runs
<1>3. WatchedOnce'
  <2>1. CASE Aut!Cancelled
    BY <1>1, <2>1 DEF Aut!Cancelled, Aut!Adds, Aut!Current, WatchedOnce, CallTypes,
         WatchersAreKnown, Aut!callVars
  <2>2. CASE ~Aut!Cancelled
    BY <1>1, <2>2 DEF Aut!Update, Aut!BaseNotFound, Aut!Added, Aut!Cancel, WatchedOnce
  <2>. QED  BY <2>1, <2>2
<1>. QED  BY <1>1, <1>2, <1>3

(* A topic is added at a manager that may be started, or be known already. *)
LEMMA AddKeeps ==
  ASSUME LoadInv, NEW t, Aut!Add(t)
  PROVE  LoadInv'
<1>. USE DEF LoadInv
<1>1. PICK m \in Aut!ManagersFor(t) :
        /\ managers' = managers \cup {m}
        /\ (m \notin managers /\ Aut!Restarted(m)) \/ UNCHANGED <<nodelets, ended>>
        /\ IF t \in watched[m] THEN UNCHANGED Aut!callVars ELSE Aut!Enter("timer", m, t)
  BY DEF Aut!Add
<1>2. m \in Aut!Manager
  BY DEF Aut!ManagersFor, Aut!Publishers, Aut!Manager
<1>3. /\ callPc["timer"] = "none" /\ callPc'["timer"] \in {"none", "list"}
      /\ updatePc = "add" /\ t \in work /\ work' = work \ {t}
      /\ UNCHANGED <<loaded, unheard, watched, stopPc, updatePc>>
      /\ \A n \in Aut!Manager : nodelets'[n] \subseteq nodelets[n]
      /\ UNCHANGED <<callPc["shutdown"], callee["shutdown"], listed["shutdown"]>>
      /\ callPc'["timer"] = "list" => item'["timer"] = t
  BY <1>1, <1>2 DEF Aut!Add, Aut!Takes, Aut!Enter, Aut!Restarted, CallTypes, Aut!callVars,
       Aut!stopVars, Aut!Thread
<1>4. CallTypes' /\ CallsAreOfLoops' /\ WatchersAreKnown'
  BY <1>1, <1>2, <1>3 DEF Aut!Restarted, Aut!Enter, Aut!callVars, CallTypes,
       CallsAreOfLoops, WatchersAreKnown, Aut!Thread
<1>5. WatchedOnce'
  BY <1>3 DEF WatchedOnce
<1>6. LoadsAlone' /\ TimerSees' /\ ShutdownSees' /\ RecordedAlone' /\ WatchedOrForgotten'
  BY <1>3 DEF LoadsAlone, TimerSees, ShutdownSees, RecordedAlone, WatchedOrForgotten,
       Forgotten, InHand, AtTimer, Recorded, Runs
<1>. QED  BY <1>4, <1>5, <1>6

LEMMA StopKeeps ==
  ASSUME LoadInv,
         \/ Aut!Stop \/ Aut!Exit
         \/ \E m \in Aut!Manager : Aut!StopManager(m)
         \/ \E x \in names : Aut!UnloadNext(x)
  PROVE  LoadInv'
<1>. USE DEF LoadInv
<1>1. /\ callPc["shutdown"] = "none" /\ stopPc' # "run"
      /\ UNCHANGED <<nodelets, loaded, unheard, watched, managers, Aut!timerVars>>
      /\ \/ UNCHANGED Aut!callVars
         \/ \E m \in Aut!Manager, x \in names \cup {Aut!NoItem} : Aut!Enter("shutdown", m, x)
  <2>1. CASE Aut!Stop \/ Aut!Exit
    BY <2>1 DEF Aut!Stop, Aut!Exit, CallsAreOfLoops, Aut!nodeletVars, Aut!timerVars
  <2>2. ASSUME NEW m \in Aut!Manager, Aut!StopManager(m)
        PROVE  /\ Aut!Enter("shutdown", m, Aut!NoItem)
               /\ callPc["shutdown"] = "none" /\ stopPc' # "run"
               /\ UNCHANGED <<nodelets, loaded, unheard, watched, managers, Aut!timerVars>>
    BY <2>2 DEF Aut!StopManager, Aut!nodeletVars
  <2>3. ASSUME NEW x \in names, Aut!UnloadNext(x)
        PROVE  /\ Aut!Enter("shutdown", callee["shutdown"], x)
               /\ callPc["shutdown"] = "none" /\ stopPc' # "run"
               /\ UNCHANGED <<nodelets, loaded, unheard, watched, managers, Aut!timerVars>>
    BY <2>3 DEF Aut!UnloadNext, Aut!nodeletVars, Aut!stopVars
  <2>4. callee["shutdown"] \in Aut!Manager
    BY DEF CallTypes, Aut!Thread
  <2>. QED  BY <2>1, <2>2, <2>3, <2>4
<1>a. /\ callPc'["shutdown"] \in {"none", "list"} /\ CallTypes' /\ UNCHANGED timerPlace
  BY <1>1 DEF Aut!Enter, CallTypes, Aut!callVars, Aut!timerVars, timerPlace, Aut!Thread
<1>2. CallsAreOfLoops' /\ WatchersAreKnown' /\ WatchedOnce' /\ ShutdownSees' /\ RecordedAlone'
  BY <1>1, <1>a DEF CallsAreOfLoops, WatchersAreKnown, WatchedOnce, ShutdownSees,
       RecordedAlone, timerPlace
<1>3. LoadsAlone' /\ TimerSees' /\ WatchedOrForgotten'
  BY <1>1, <1>a DEF LoadsAlone, TimerSees, WatchedOrForgotten, Forgotten, Aut!Named,
       Aut!NameFor, Aut!Running, InHand, AtTimer, Recorded, Runs, timerPlace
<1>. QED  BY <1>a, <1>2, <1>3

(* Each step keeps the invariant.                                          *)
LEMMA LoadNext ==
  ASSUME LoadInv, [Aut!Next]_(Aut!autoVars)
  PROVE  LoadInv'
<1>1. CASE Aut!Launch
  <2>1. updatePc = "off" /\ updatePc' = "idle" /\ managers' = {Default}
        /\ UNCHANGED <<nodelets, loaded, unheard, watched, work, stopPc>>
        /\ UNCHANGED <<callPc, callee, item, listed>>
    BY <1>1 DEF Aut!Launch, Aut!nodeletVars, Aut!callVars, Aut!stopVars
  <2>. QED
    BY <2>1 DEF LoadInv, CallTypes, CallsAreOfLoops, WatchedOnce, LoadsAlone, TimerSees,
         ShutdownSees, RecordedAlone, WatchedOrForgotten, Forgotten, InHand, AtTimer,
         Recorded, Runs, Aut!Manager, WatchersAreKnown
<1>2. CASE \/ Aut!Update \/ Aut!BaseNotFound \/ Aut!Cancelled \/ Aut!Added
           \/ \E t \in Aut!Topics : Aut!Cancel(t)
  BY <1>2, LoopKeeps
<1>3. ASSUME NEW t \in Aut!Topics, Aut!Add(t) PROVE LoadInv'
  BY <1>3, AddKeeps
<1>4. CASE \/ Aut!Stop \/ Aut!Exit
           \/ \E m \in Aut!Manager : Aut!StopManager(m)
           \/ \E x \in names : Aut!UnloadNext(x)
  BY <1>4, StopKeeps
<1>5. CASE Aut!Rewire \/ (\E m \in Aut!Manager : Aut!Anew(m)) \/ UNCHANGED Aut!autoVars
  <2>1. /\ CallTypes' /\ UNCHANGED <<timerPlace, watched, loaded, stopPc, managers>>
        /\ UNCHANGED <<callPc["shutdown"], callee["shutdown"], listed["shutdown"]>>
        /\ Shrinks
    BY <1>5 DEF Aut!Rewire, Aut!Anew, Aut!Restarted, LoadInv, CallTypes, Aut!autoVars,
         Aut!nodeletVars, Aut!timerVars, Aut!stopVars, Aut!callVars, timerPlace, Runs, Shrinks
  <2>. QED  BY <2>1, ShrinkKeeps
<1>6. CASE Aut!NodeletManager("timer")
  BY <1>6, TimerKeeps
<1>7. CASE Aut!NodeletManager("shutdown")
  BY <1>7, ShutdownKeeps
<1>. QED
  BY <1>1, <1>2, <1>3, <1>4, <1>5, <1>6, <1>7 DEF Aut!Next, Aut!Timer, Aut!Shutdown,
       Aut!System
-----------------------------------------------------------------------------
(***************************************************************************)
(* The composition.                                                        *)
(***************************************************************************)

(* The loggers share no state: whatever the whole does is a step of the    *)
(* writer, the tags and the automated logger, or leaves them alone.        *)
LEMMA WriterStep == [LifelogNext]_lifelogVars => [Next]_vars
BY DEF LifelogNext, lifelogVars, systemVars

LEMMA TagStep == [LifelogNext]_lifelogVars => [Log!Next]_(Log!logVars)
BY DEF LifelogNext, lifelogVars, scriptVars, logVars, Log!logVars, Log!callVars

LEMMA TrajStep == [LifelogNext]_lifelogVars => [Traj!Next]_(Traj!trajVars)
BY DEF LifelogNext, lifelogVars, scriptVars, trajVars, Traj!trajVars, Traj!worldVars

LEMMA LoadStep == [LifelogNext]_lifelogVars => [Aut!Next]_(Aut!autoVars)
BY DEF LifelogNext, lifelogVars, systemVars, autoVars, Aut!autoVars, Aut!systemVars,
     Aut!nodeletVars, Aut!graphVars, Aut!timerVars, Aut!stopVars, Aut!callVars

(* From the start of the constructor on, a requested topic is logged,      *)
(* excluded, shadowed by a logged topic of the same collection, in         *)
(* missing_topics or in the hands of the constructor or of the timer that  *)
(* fills in, however many topics there are and however they are converted. *)
THEOREM NoRequestIsLost == LifelogSpec => []NoTopicForgotten
BY RequestInit, RequestNext, RequestInvIsEnough, WriterStep, PTL DEF LifelogSpec,
     LifelogInit

(* No document bears a task that was not current while it was inserted,    *)
(* but for the robot's pose of a detection, although task_id is read twice *)
(* and written by another thread in between.                               *)
THEOREM TagsAreCurrent == LifelogSpec => []TagIsCurrent
<1>1. TagInv => TagIsCurrent
  BY DEF TagInv, TagIsCurrent
<1>. QED  BY TagInit, TagNext, TagStep, <1>1, PTL DEF LifelogSpec, LifelogInit

(* No topic is logged by nodelets of two managers, although list, test,    *)
(* call and note are steps of two threads: a topic is added only where no  *)
(* manager watches it, and it is watched for as long as a nodelet runs     *)
(* that the node knows of -- a call whose answer is lost excepted.         *)
THEOREM TopicsAreLoggedOnce == LifelogSpec => []OneLoggerPerTopic
<1>1. LoadInv => OneLoggerPerTopic
  BY LoadInvIsEnough DEF OneLoggerPerTopic
<1>. QED  BY LoadInit, LoadNext, LoadStep, <1>1, PTL DEF LifelogSpec, LifelogInit

(* The safety half of TrajectoryEndsAtRobot: with poses of the transforms  *)
(* base_trajectory_logger compares the robot's pose with the last one that *)
(* it has inserted, not with one that was replaced before it could be.     *)
THEOREM NothingIsSkipped == LifelogSpec => []RememberedIsStored
<1>1. TrajInv => RememberedIsStored
  BY DEF TrajInv
<1>. QED  BY TrajInit, TrajNext, TrajStep, <1>1, PTL DEF LifelogSpec, LifelogInit
=============================================================================
