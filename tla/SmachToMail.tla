---------------------------- MODULE SmachToMail ----------------------------
(***************************************************************************)
(* The node smach_to_mail, which collects the statuses that state machines *)
(* publish and notifies people by mail, Twitter and Google Chat when one   *)
(* of them ends.  rospy calls _status_cb in a thread for each publisher;   *)
(* _stop_timer_cb runs in the thread of a rospy.Timer and notifies for the *)
(* state machines whose node is gone.  All of them share two dictionaries, *)
(* the client of the action server of Google Chat and the configuration,   *)
(* without a lock.                                                         *)
(*                                                                         *)
(* A status is its number among those of its publisher: its texts and      *)
(* images are left out.  A node of the same name is assumed to be started  *)
(* again only when all its predecessor sent has been handled.              *)
(***************************************************************************)
EXTENDS Naturals, Sequences, FiniteSets, Functions

CONSTANTS
  Caller,     (* the nodes that publish, by their callerid                 *)
  Timer,      (* the thread of the rospy.Timer                             *)
  Absent,     (* the value of a dictionary without the key                 *)
  None,       (* Python's None                                             *)
  Configs,    (* the configurations reconfigure may set, as sets of the    *)
              (* options that are true                                     *)
  MaxQueued,  (* bound on those that wait to be handled, for each caller   *)
  MaxMsgs     (* bound on the statuses that are published                  *)

Option == {"mail", "twitter", "chat", "every"}

ASSUME ConstantsAssumption ==
  /\ IsFiniteSet(Caller) /\ Timer \notin Caller
  /\ Configs # {} /\ Configs \subseteq SUBSET Option
  /\ MaxMsgs \in Nat /\ MaxQueued \in Nat
  /\ Absent # None /\ {Absent, None} \cap Seq(Nat) = {}

VARIABLES
  phase,         (* how far __init__ has come                              *)
  keysAreView,   (* dict.keys() is a view (Python 3), not a list           *)
  config,        (* use_mail, use_twitter, use_google_chat and             *)
                 (* send_every_transition, as the set of those that hold   *)
  client,        (* gchat_ac exists                                        *)
  chatDone,      (* the goal that gchat_ac tracks has its result           *)
  chatThread,    (* _gchat_thread is set                                   *)
  stateList,     (* smach_state_list                                       *)
  stateSubject,  (* the keys of smach_state_subject                        *)
  pc,            (* where each thread is                                   *)
  key,           (* the key the timer reports, None between two reports    *)
  todo,          (* the keys the timer has yet to look at                  *)
  size,          (* the number of keys when its loop started               *)
  alive,         (* the nodes that run                                     *)
  history,       (* the statuses each caller has published                 *)
  handled        (* how many of them its thread has begun to handle        *)

initVars  == <<phase, keysAreView>>
chatVars  == <<client, chatDone, chatThread>>
dicts     == <<stateList, stateSubject>>
timerVars == <<key, todo, size>>
nodeVars  == <<alive, history, handled>>
vars == <<initVars, config, chatVars, dicts, pc, timerVars, nodeVars>>

Thread == Caller \cup {Timer}

(* The active state of a status: START or INIT; END or one of FINISH,      *)
(* FINISH-SUCCESS and FINISH-FAILURE; or any other.                        *)
Kind == {"start", "work", "end"}

Init ==
  /\ phase = "subscribed" /\ keysAreView \in BOOLEAN
  /\ config \in Configs
  /\ client = FALSE /\ chatDone = TRUE /\ chatThread = FALSE
  /\ stateList = [c \in Caller |-> Absent] /\ stateSubject = {}
  /\ pc = [t \in Thread |-> "idle"]
  /\ key = None /\ todo = {} /\ size = 0
  /\ alive = Caller
  /\ history = [c \in Caller |-> <<>>] /\ handled = [c \in Caller |-> 0]

HasList(c) == stateList[c] # Absent
Recorded(c) == stateList[c] \notin {Absent, None}
Keys == {c \in Caller : HasList(c)}
Enabled(o) == o \in config

Goto(t, where) == pc' = [pc EXCEPT ![t] = where]

(* An exception in _status_cb is caught by rospy, one in _stop_timer_cb    *)
(* ends the thread of the timer.                                           *)
Raise(t) == Goto(t, IF t = Timer THEN "dead" ELSE "idle")
-----------------------------------------------------------------------------
(***************************************************************************)
(* __init__ subscribes before it has made the dictionaries.  The client of *)
(* Google Chat is made only if it is used by then; it is not used if       *)
(* ~google_chat_space is not set.                                          *)
(***************************************************************************)
InitDicts ==
  /\ phase = "subscribed" /\ phase' = "ready"
  /\ \E hasSpace \in BOOLEAN :
       /\ config' = IF hasSpace THEN config ELSE config \ {"chat"}
       /\ client' = ("chat" \in config')
  /\ UNCHANGED <<keysAreView, chatDone, chatThread, dicts, pc, timerVars,
                 nodeVars>>

ReconfigureCb ==
  /\ config' \in Configs
  /\ UNCHANGED <<initVars, chatVars, dicts, pc, timerVars, nodeVars>>
-----------------------------------------------------------------------------
(***************************************************************************)
(* The state machines.                                                     *)
(***************************************************************************)
Published == SumFunction([c \in Caller |-> Len(history[c])])

Publish(c, kind) ==
  /\ c \in alive
  /\ Published < MaxMsgs /\ Len(history[c]) - handled[c] < MaxQueued
  /\ history' = [history EXCEPT ![c] = Append(@, kind)]
  /\ UNCHANGED <<initVars, config, chatVars, dicts, pc, timerVars, alive,
                 handled>>

Die(c) ==
  /\ c \in alive /\ alive' = alive \ {c}
  /\ UNCHANGED <<initVars, config, chatVars, dicts, pc, timerVars, history,
                 handled>>

Restart(c) ==
  /\ c \notin alive /\ alive' = alive \cup {c}
  /\ handled[c] = Len(history[c]) /\ pc[c] = "idle"
  /\ UNCHANGED <<initVars, config, chatVars, dicts, pc, timerVars, history,
                 handled>>
-----------------------------------------------------------------------------
(***************************************************************************)
(* _status_cb, in the thread of the caller.                                *)
(***************************************************************************)
KindOf(c) == history[c][handled[c]]

(* START empties the list.  Mutant: it does not. *)
KeepsOldStatuses(c, old) == IF Recorded(c) THEN old ELSE <<>>
ListAtStart(c, old) == <<>>

(* Before the dictionaries exist, an AttributeError. *)
Receive(c) ==
  /\ pc[c] = "idle" /\ handled[c] < Len(history[c])
  /\ handled' = [handled EXCEPT ![c] = @ + 1]
  /\ IF phase = "subscribed"
     THEN UNCHANGED <<stateList, pc>>
     ELSE IF history[c][handled[c] + 1] = "start"
     THEN /\ stateList' = [stateList EXCEPT ![c] = ListAtStart(c, @)]
          /\ Goto(c, "subject")
     ELSE /\ Goto(c, "record") /\ UNCHANGED stateList
  /\ UNCHANGED <<initVars, config, chatVars, stateSubject, timerVars, alive,
                 history>>

SetSubject(c) ==
  /\ pc[c] = "subject" /\ Goto(c, "record")
  /\ stateSubject' = stateSubject \cup {c}
  /\ UNCHANGED <<initVars, config, chatVars, stateList, timerVars, nodeVars>>

(* send_every_transition reads the list of a caller that may have none. *)
AfterRecord(c) ==
  IF ~ {"every", "chat"} \subseteq config THEN Goto(c, "end")
  ELSE IF ~ HasList(c) THEN Raise(c)
  ELSE Goto(c, IF Recorded(c) THEN "everyChat" ELSE "end")

(* Without a list, only a warning. *)
Record(c) ==
  /\ pc[c] = "record" /\ AfterRecord(c)
  /\ stateList' = [stateList EXCEPT ![c] =
                     IF Recorded(c) THEN Append(@, handled[c]) ELSE @]
  /\ UNCHANGED <<initVars, config, chatVars, stateSubject, timerVars, nodeVars>>

Ends(c) ==
  /\ pc[c] = "end"
  /\ Goto(c, IF KindOf(c) = "end" /\ Recorded(c) THEN "mail" ELSE "idle")
  /\ UNCHANGED <<initVars, config, chatVars, dicts, timerVars, nodeVars>>
-----------------------------------------------------------------------------
(***************************************************************************)
(* _send_mail, _send_twitter and _send_google_chat, called by both.  Their *)
(* arguments are read from the dictionaries each time.                     *)
(***************************************************************************)
KeyOf(t) == IF t = Timer THEN key ELSE t

(* smach_state_subject[k] and smach_state_list[k] have a value, and the    *)
(* latter can be iterated over.                                            *)
CanReport(k) == k \in stateSubject /\ Recorded(k)

(* A publication to a topic does not wait. *)
SendTopic(t, option, where, next) ==
  /\ pc[t] = where
  /\ IF Enabled(option) /\ ~ CanReport(KeyOf(t)) THEN Raise(t)
                                               ELSE Goto(t, next)
  /\ UNCHANGED <<initVars, config, chatVars, dicts, timerVars, nodeVars>>

SendMail(t)    == SendTopic(t, "mail", "mail", "twitter")
SendTwitter(t) == SendTopic(t, "twitter", "twitter", "chat")

AfterChat(t) == IF t = Timer THEN "delete" ELSE "close"

(* The callback does not send to Google Chat at the end what it has sent   *)
(* at every transition.                                                    *)
ChatAtEnd(t) == Enabled("chat") /\ (t = Timer \/ ~ Enabled("every"))

SendGoal(t, wait) ==
  IF client /\ CanReport(KeyOf(t))
  THEN chatDone' = FALSE /\ Goto(t, wait)
  ELSE Raise(t) /\ UNCHANGED chatDone

SendGoogleChat(t) ==
  /\ \/ /\ pc[t] = "everyChat" /\ SendGoal(t, "everyWait")
     \/ /\ pc[t] = "chat"
        /\ IF ChatAtEnd(t) THEN SendGoal(t, "chatWait")
           ELSE Goto(t, AfterChat(t)) /\ UNCHANGED chatDone
  /\ UNCHANGED <<initVars, config, client, chatThread, dicts, timerVars,
                 nodeVars>>

(* The server of Google Chat answers the goal that is tracked. *)
ResultArrives ==
  /\ ~ chatDone /\ chatDone' = TRUE
  /\ UNCHANGED <<initVars, config, client, chatThread, dicts, pc, timerVars,
                 nodeVars>>

(* wait_for_result waits for the goal of whichever thread sent last.       *)
ResultIsThere == chatDone

WaitForResult(t) ==
  /\ ResultIsThere
  /\ \/ pc[t] = "everyWait" /\ Goto(t, "everyResult")
     \/ pc[t] = "chatWait" /\ Goto(t, "chatResult")
  /\ UNCHANGED <<initVars, config, chatVars, dicts, timerVars, nodeVars>>

(* By now another thread may have sent a goal: its result is None.         *)
GetResult(t) ==
  /\ pc[t] \in {"everyResult", "chatResult"}
  /\ IF ~ chatThread /\ ~ chatDone
     THEN Raise(t)
     ELSE Goto(t, IF pc[t] = "everyResult" THEN "end" ELSE AfterChat(t))
  /\ chatThread' = (chatThread \/ chatDone)
  /\ UNCHANGED <<initVars, config, client, chatDone, dicts, timerVars, nodeVars>>

(* After the report of the callback. *)
CloseList(c) ==
  /\ pc[c] = "close" /\ Goto(c, "closeSubject")
  /\ stateList' = [stateList EXCEPT ![c] = None]
  /\ UNCHANGED <<initVars, config, chatVars, stateSubject, timerVars, nodeVars>>

(* Mutant: the subject is removed, unlike the list. *)
SubjectRemoved(c) == stateSubject \ {c}
SubjectsAfterClose(c) == stateSubject \cup {c}

CloseSubject(c) ==
  /\ pc[c] = "closeSubject" /\ Goto(c, "idle")
  /\ stateSubject' = SubjectsAfterClose(c)
  /\ UNCHANGED <<initVars, config, chatVars, stateList, timerVars, nodeVars>>
-----------------------------------------------------------------------------
(***************************************************************************)
(* _stop_timer_cb.                                                         *)
(***************************************************************************)
(* The first call is a whole ~stop_duration after __init__. *)
TimerTick ==
  /\ pc[Timer] = "idle" /\ phase = "ready"
  /\ Keys # {} /\ stateSubject # {}
  /\ todo' = Keys /\ size' = Cardinality(Keys) /\ Goto(Timer, "next")
  /\ UNCHANGED <<initVars, config, chatVars, dicts, key, nodeVars>>

(* A view of the keys must not be iterated over when their number differs. *)
SizeChanged == keysAreView /\ Cardinality(Keys) # size

TimerNextRaises ==
  /\ pc[Timer] = "next" /\ SizeChanged /\ Raise(Timer)
  /\ UNCHANGED <<initVars, config, chatVars, dicts, timerVars, nodeVars>>

TimerDone ==
  /\ pc[Timer] = "next" /\ ~ SizeChanged /\ todo = {} /\ Goto(Timer, "idle")
  /\ size' = 0
  /\ UNCHANGED <<initVars, config, chatVars, dicts, key, todo, nodeVars>>

(* rosnode_ping asks the node at this moment.  Mutant: its answer is taken *)
(* the wrong way round.                                                    *)
IsThere(k) == k \in alive
IsGone(k)  == k \notin alive

Ping(k) ==
  /\ pc[Timer] = "next" /\ ~ SizeChanged /\ k \in todo
  /\ todo' = todo \ {k}
  /\ IF IsGone(k) THEN key' = k /\ Goto(Timer, "mail")
                  ELSE UNCHANGED <<key, pc>>
  /\ UNCHANGED <<initVars, config, chatVars, dicts, size, nodeVars>>

DeleteSubject ==
  /\ pc[Timer] = "delete"
  /\ IF key \in stateSubject
     THEN stateSubject' = stateSubject \ {key} /\ Goto(Timer, "deleteList")
     ELSE Raise(Timer) /\ UNCHANGED stateSubject
  /\ UNCHANGED <<initVars, config, chatVars, stateList, timerVars, nodeVars>>

(* Only the timer removes keys, so the key is there. *)
DeleteList ==
  /\ pc[Timer] = "deleteList" /\ Goto(Timer, "next")
  /\ stateList' = [stateList EXCEPT ![key] = Absent] /\ key' = None
  /\ UNCHANGED <<initVars, config, chatVars, stateSubject, todo, size, nodeVars>>
-----------------------------------------------------------------------------
SendStep(t) ==
  \/ SendMail(t) \/ SendTwitter(t) \/ SendGoogleChat(t)
  \/ WaitForResult(t) \/ GetResult(t)

StatusCb(c) ==
  \/ Receive(c) \/ SetSubject(c) \/ Record(c) \/ Ends(c)
  \/ SendStep(c) \/ CloseList(c) \/ CloseSubject(c)

StopTimerCb ==
  \/ TimerTick \/ TimerNextRaises \/ TimerDone
  \/ \E k \in Caller : Ping(k)
  \/ SendStep(Timer) \/ DeleteSubject \/ DeleteList

Next ==
  \/ InitDicts \/ ReconfigureCb \/ ResultArrives \/ StopTimerCb
  \/ \E c \in Caller : StatusCb(c) \/ Die(c) \/ Restart(c)
  \/ \E c \in Caller, kind \in Kind : Publish(c, kind)

Spec == Init /\ [][Next]_vars

(***************************************************************************)
(* The scheduler is fair to the threads, rospy.Timer keeps calling, and    *)
(* the server of Google Chat answers.  Nothing is assumed of the nodes     *)
(* that publish and of reconfigure.                                        *)
(***************************************************************************)
FairSpec ==
  /\ Spec /\ WF_vars(InitDicts) /\ WF_vars(ResultArrives)
  /\ WF_vars(StopTimerCb) /\ \A c \in Caller : WF_vars(StatusCb(c))
-----------------------------------------------------------------------------
Sending == {"idle", "mail", "twitter", "chat", "chatWait", "chatResult"}

PlacesOK ==
  /\ DOMAIN pc = Thread
  /\ \A c \in Caller :
       pc[c] \in Sending \cup {"subject", "record", "everyChat", "everyWait",
                              "everyResult", "end", "close", "closeSubject"}
  /\ pc[Timer] \in Sending \cup {"next", "delete", "deleteList", "dead"}

TypeOK ==
  /\ phase \in {"subscribed", "ready"} /\ keysAreView \in BOOLEAN
  /\ config \subseteq Option
  /\ client \in BOOLEAN /\ chatDone \in BOOLEAN /\ chatThread \in BOOLEAN
  /\ stateList \in [Caller -> {Absent, None} \cup Seq(Nat)]
  /\ stateSubject \subseteq Caller
  /\ PlacesOK
  /\ key \in Caller \cup {None} /\ todo \subseteq Caller /\ size \in Nat
  /\ alive \subseteq Caller
  /\ history \in [Caller -> Seq(Kind)] /\ handled \in [Caller -> Nat]
  /\ \A c \in Caller : handled[c] <= Len(history[c])

(***************************************************************************)
(* Two dictionaries hold what belongs together, and three kinds of threads *)
(* write them one after the other: a caller with a list has a subject,     *)
(* except while its callback is between the two writes and while the timer *)
(* is between its two removals.  A swapped pair of writes or removals      *)
(* would let smach_state_subject[key] raise later.                         *)
(***************************************************************************)
SubjectCoversList ==
  \A c \in Keys : \/ c \in stateSubject
                  \/ pc[c] \in {"subject", "closeSubject"}
                  \/ pc[Timer] = "deleteList" /\ key = c

(***************************************************************************)
(* What is reported of a state machine is one run of it and the whole of   *)
(* it so far: the list holds the statuses since the last START, in order   *)
(* and without a gap, up to the one that is handled now, although the      *)
(* timer may remove the list at any moment.                                *)
(***************************************************************************)
OneRun(c) ==
  LET list  == stateList[c]
      last  == IF pc[c] \in {"subject", "record"} THEN handled[c] - 1
                                                 ELSE handled[c]
      first == last - Len(list) + 1
  IN  /\ \A i \in 1..Len(list) : list[i] = first + i - 1
      /\ first \in 1..handled[c]
      /\ \A i \in first..handled[c] : (history[c][i] = "start") <=> (i = first)

ListIsOneRun == \A c \in Caller : Recorded(c) => OneRun(c)

(***************************************************************************)
(* "If smach does not go to finish/end state, this is forced to send       *)
(* notification": a state machine whose node dies in the middle of a run   *)
(* is reported by the timer, which then removes its list, for as long as   *)
(* the timer has a thread.                                                 *)
(***************************************************************************)
Pending(c) == Recorded(c) /\ c \notin alive

LivingTimerReports ==
  \A c \in Caller : Pending(c) ~> (~ Pending(c) \/ pc[Timer] = "dead")

(***************************************************************************)
(* The same without that condition, even if the timer only ever runs when  *)
(* no callback does.                                                       *)
(***************************************************************************)
TimerRunsAlone ==
  pc[Timer] \notin {"idle", "dead"} => \A c \in Caller : pc[c] = "idle"

CrashIsReported ==
  []TimerRunsAlone => \A c \in Caller : Pending(c) ~> ~ Pending(c)
=============================================================================
