-------------------------- MODULE AutomatedLogger --------------------------
(***************************************************************************)
(* automated_logger: a timer walks the graph of the nodes upwards from a   *)
(* monitored node and loads one logger nodelet for each topic on the way,  *)
(* in the nodelet manager that publishes the topic or in one of its own.   *)
(* A manager may fail a call, or carry it out and fail to answer; it may   *)
(* be started anew and lose its nodelets; and shutdown_cb unloads          *)
(* everything from another thread while the timer goes on.                 *)
(***************************************************************************)
EXTENDS Naturals, FiniteSetsExt, SequencesExt, Functions

CONSTANTS
  Base,         (* monitor_node                                            *)
  External,     (* nodes that are nodelet managers                         *)
  Default,      (* the manager of the logger itself                        *)
  Conns,        (* the connections <<publisher, topic, reader>> there may  *)
                (*   be, with and without ~standalone                      *)
  Black,        (* blacklisted topics                                      *)
  EscapeTopic,  (* the name of the nodelet for each topic                  *)
  GraphStays,   (* bound: no connections come and go during the shutdown   *)
  StopsAlone    (* bound: shutdown_cb may run with ~standalone             *)

Manager == External \cup {Default}
AllConns == Conns[TRUE] \cup Conns[FALSE]
Topics == {c[2] : c \in AllConns}
Nodes == {c[1] : c \in AllConns} \cup {c[3] : c \in AllConns} \cup {Base}
Thread == {"timer", "shutdown"}
NoItem == "none"

VARIABLES
  standalone,
  live,         (* the connections there are                               *)
  nodelets,     (* the topics whose loggers each manager runs              *)
  managers,     (* AutomatedLogger.managers, those for which get_manager ran *)
  loaded,       (* _loaded_nodelets of each manager: names                 *)
  watched,      (* topics of each LoggerManager                            *)
  graphNodes, graphTopics,
  edges,        (* node_topic_conn: <<publisher, topic>>, only ever added to *)
  work,         (* the topics of the loop that runs                        *)
  updatePc,     (* where the timer's thread is                             *)
  stopPc,       (* where shutdown_cb is                                    *)
  left, names,  (* the managers, and the nodelets of one, it has yet to stop *)
  callPc,       (* where each thread is in a method of NodeletManager,     *)
  callee, item, (*   of which manager; for a topic (timer), a name (shutdown) *)
  seen,         (* what it has of the list of the nodelets                 *)
  unheard,      (* history: topics of which a call's answer was lost       *)
  ended         (* history: topics of which a logger has ended by itself   *)

systemVars == <<standalone, live>>
nodeletVars == <<nodelets, loaded, unheard, ended>>
graphVars == <<graphNodes, graphTopics, edges>>
timerVars == <<work, updatePc>>
stopVars == <<stopPc, left, names>>
callVars == <<callPc, callee, item, seen>>
autoVars == <<systemVars, nodeletVars, graphVars, managers, watched, timerVars, stopVars,
              callVars>>

Init ==
  /\ standalone = FALSE /\ live = {}
  /\ nodelets = [m \in Manager |-> {}] /\ unheard = {} /\ ended = {}
  /\ managers = {} /\ loaded = nodelets /\ watched = nodelets
  /\ graphNodes = {} /\ graphTopics = {} /\ edges = {}
  /\ work = {} /\ updatePc = "off"
  /\ stopPc = "run" /\ left = {} /\ names = {}
  /\ callPc = [p \in Thread |-> "none"] /\ callee = [p \in Thread |-> Default]
  /\ item = [p \in Thread |-> NoItem] /\ seen = [p \in Thread |-> {}]

Launch ==
  /\ updatePc = "off" /\ updatePc' = "idle" /\ standalone' \in BOOLEAN
  /\ managers' = {Default} /\ live' \in SUBSET Conns[standalone']
  /\ UNCHANGED <<nodeletVars, graphVars, watched, work, stopVars, callVars>>

(* the rest of the system *)
Rewire ==
  /\ updatePc # "off" /\ (stopPc = "run" \/ ~GraphStays)
  /\ \E c \in Conns[standalone] : live' = SymDiff(live, {c})
  /\ UNCHANGED <<standalone, nodeletVars, graphVars, managers, watched, timerVars,
                 stopVars, callVars>>
Restarted(m) ==
  /\ nodelets' = [nodelets EXCEPT ![m] = {}] /\ ended' = ended \cup nodelets[m]
Anew(m) ==
  /\ updatePc # "off" /\ Restarted(m)
  /\ UNCHANGED <<systemVars, loaded, unheard, graphVars, managers, watched, timerVars,
                 stopVars, callVars>>

-----------------------------------------------------------------------------
(* NodeletManager: load, unload and loaded_nodelets as a thread runs them, *)
(* and watch, unwatch and unload_all where they return to.                 *)
OthersIn(m) == m # Default
Named(m, x) == {t \in nodelets[m] : EscapeTopic[t] = x}
Running(m) == {EscapeTopic[t] : t \in nodelets[m]}
Loading(p) == p = "timer" /\ updatePc = "add"

NameFor(p) == IF p = "timer" THEN EscapeTopic[item[p]] ELSE item[p]

Goto(p, at) ==
  /\ callPc' = [callPc EXCEPT ![p] = at]
  /\ UNCHANGED <<callee, item, watched, updatePc, names>>
Enter(p, m, x) ==
  /\ callPc' = [callPc EXCEPT ![p] = "list"] /\ UNCHANGED seen
  /\ callee' = [callee EXCEPT ![p] = m] /\ item' = [item EXCEPT ![p] = x]
Leave(p) ==
  /\ callPc' = [callPc EXCEPT ![p] = "none"] /\ item' = [item EXCEPT ![p] = NoItem]
  /\ callee' = IF p = "timer" THEN [callee EXCEPT ![p] = Default] ELSE callee

(* watch and unwatch note a success. *)
WatchAnyway(ok) ==
  watched' = [watched EXCEPT ![callee["timer"]] =
                IF updatePc = "add" THEN @ \cup {item["timer"]} ELSE @ \ {item["timer"]}]
Watching(ok) ==
  watched' = IF ~ok THEN watched
             ELSE [watched EXCEPT ![callee["timer"]] =
                     IF updatePc = "add" THEN @ \cup {item["timer"]} ELSE @ \ {item["timer"]}]

(* Back in watch or unwatch; or in unload_all, which goes through the set  *)
(* that unload removes from, unless a listing has replaced it, and stops   *)
(* when that has changed.                                                  *)
Return(p, ok) ==
  /\ Leave(p) /\ UNCHANGED updatePc
  /\ IF p = "timer"
     THEN Watching(ok) /\ UNCHANGED names
     ELSE names' \in {names \ {item[p]}, {}} /\ UNCHANGED watched

(* An exception of unload: the timer's thread ends, unload_all is left. *)
Raise(p) ==
  /\ Leave(p) /\ UNCHANGED watched
  /\ IF p = "timer" THEN updatePc' = "dead" /\ UNCHANGED names
                    ELSE names' = {} /\ UNCHANGED updatePc

(* nodelets: an empty answer, and none, leave _loaded_nodelets as it is. *)
ListNodelets(p) ==
  /\ callPc[p] = "list"
  /\ LET m == callee[p]
     IN \/ /\ OthersIn(m) \/ nodelets[m] # {}
           /\ seen' = [seen EXCEPT ![p] = Running(m)] /\ Goto(p, "meet")
        \/ Goto(p, "test") /\ UNCHANGED seen
  /\ UNCHANGED <<nodelets, loaded, unheard>>

(* nodelets & self._loaded_nodelets, and the assignment *)
Meet(p) ==
  /\ callPc[p] = "meet" /\ Goto(p, "store")
  /\ seen' = [seen EXCEPT ![p] = @ \cap loaded[callee[p]]]
  /\ UNCHANGED <<nodelets, loaded, unheard>>
Assign(p) ==
  /\ callPc[p] = "store" /\ Goto(p, "test")
  /\ loaded' = [loaded EXCEPT ![callee[p]] = seen[p]] /\ seen' = [seen EXCEPT ![p] = {}]
  /\ UNCHANGED <<nodelets, unheard>>

(* There is nothing to do if the nodelet is, or is not, known as loaded.   *)
(* unload_all takes the names it goes through.                             *)
Test(p) ==
  /\ callPc[p] = "test"
  /\ LET known == loaded[callee[p]]
     IN IF p = "shutdown" /\ names = {}
        THEN Leave(p) /\ names' = known /\ UNCHANGED <<watched, updatePc>>
        ELSE IF NameFor(p) \in known <=> Loading(p) THEN Return(p, TRUE) ELSE Goto(p, "call")
  /\ UNCHANGED <<nodelets, loaded, unheard, seen>>

(* The call: the manager refuses a name that it has, or has not.  It does  *)
(* what it is asked and answers; or the answer is lost, which is an        *)
(* exception; or it refuses, or cannot be reached.                         *)
Performed(p) ==
  LET m == callee[p]
      same == Named(m, NameFor(p))
  IN /\ same = {} <=> Loading(p)
     /\ nodelets' = [nodelets EXCEPT ![m] = IF Loading(p) THEN @ \cup {item[p]} ELSE @ \ same]
Call(p) ==
  /\ callPc[p] = "call"
  /\ \/ /\ Performed(p) /\ Goto(p, "note") /\ UNCHANGED unheard
     \/ /\ Performed(p) /\ Return(p, FALSE)
        /\ unheard' = unheard \cup SymDiff(nodelets[callee[p]], nodelets'[callee[p]])
     \/ Return(p, FALSE) /\ UNCHANGED <<nodelets, unheard>>
  /\ UNCHANGED <<loaded, seen>>

(* add, or remove, which raises KeyError if another thread's assignment    *)
(* has dropped the name.                                                   *)
Note(p) ==
  /\ callPc[p] = "note"
  /\ LET m == callee[p]
         x == NameFor(p)
     IN \/ /\ Loading(p) /\ Return(p, TRUE)
           /\ loaded' = [loaded EXCEPT ![m] = @ \cup {x}]
        \/ /\ ~Loading(p) /\ x \in loaded[m] /\ Return(p, TRUE)
           /\ loaded' = [loaded EXCEPT ![m] = @ \ {x}]
        \/ ~Loading(p) /\ x \notin loaded[m] /\ Raise(p) /\ UNCHANGED loaded
  /\ UNCHANGED <<nodelets, unheard, seen>>

NodeletManager(p) ==
  /\ ListNodelets(p) \/ Meet(p) \/ Assign(p) \/ Test(p) \/ Call(p) \/ Note(p)
  /\ UNCHANGED <<systemVars, ended, graphVars, managers, work, stopPc, left>>

-----------------------------------------------------------------------------
(* Graph.update: the nodes upstream of base_node, then what is published   *)
(* between those.                                                          *)
Above(S) ==
  LET up[n \in 0..Cardinality(Nodes)] ==
        IF n = 0 THEN S
        ELSE up[n - 1] \cup {c[1] : c \in {d \in live : d[3] \in up[n - 1] /\ d[2] \notin Black}}
  IN up[Cardinality(Nodes)]
Within(S) == {c \in live : {c[1], c[3]} \subseteq S /\ c[2] \notin Black}

Current == UNION {watched[m] : m \in managers}
Update ==
  /\ updatePc = "idle" /\ updatePc' = "cancel"
  /\ graphNodes' = Above({Base})
  /\ graphTopics' = {c[2] : c \in Within(graphNodes')}
  /\ edges' = edges \cup {<<c[1], c[2]>> : c \in Within(graphNodes')}
  /\ work' = Current \ graphTopics'
  /\ UNCHANGED <<systemVars, nodeletVars, managers, watched, stopVars, callVars>>
(* base_node is not up: the exception ends the thread of the timer *)
BaseNotFound ==
  /\ updatePc = "idle" /\ updatePc' = "dead"
  /\ UNCHANGED <<systemVars, nodeletVars, graphVars, managers, watched, work, stopVars,
                 callVars>>

Takes(t) ==
  /\ callPc["timer"] = "none" /\ t \in work
  /\ work' = work \ {t}
Cancel(t) ==
  /\ updatePc = "cancel" /\ Takes(t)
  /\ \E m \in managers : t \in watched[m] /\ Enter("timer", m, t)
  /\ UNCHANGED <<systemVars, nodeletVars, graphVars, managers, watched, updatePc, stopVars>>

Everything == graphTopics
Adds == graphTopics \ Current
Cancelled ==
  /\ updatePc = "cancel" /\ work = {} /\ callPc["timer"] = "none"
  /\ updatePc' = "add" /\ work' = Adds
  /\ UNCHANGED <<systemVars, nodeletVars, graphVars, managers, watched, stopVars, callVars>>

(* The manager is one that has published the topic at any time.  To know a *)
(* manager for the first time starts it, in the place of one that does not *)
(* answer.                                                                 *)
Publishers(t) ==
  IF standalone THEN {} ELSE {m \in External \cap graphNodes : <<m, t>> \in edges}
ManagersFor(t) == IF Publishers(t) = {} THEN {Default} ELSE Publishers(t)
Add(t) ==
  /\ updatePc = "add" /\ Takes(t)
  /\ \E m \in ManagersFor(t) :
       /\ managers' = managers \cup {m}
       /\ (m \notin managers /\ Restarted(m)) \/ UNCHANGED <<nodelets, ended>>
       /\ IF t \in watched[m] THEN UNCHANGED callVars ELSE Enter("timer", m, t)
  /\ UNCHANGED <<systemVars, loaded, unheard, graphVars, watched, updatePc, stopVars>>
Added ==
  /\ updatePc = "add" /\ work = {} /\ callPc["timer"] = "none" /\ updatePc' = "idle"
  /\ UNCHANGED <<systemVars, nodeletVars, graphVars, managers, watched, work, stopVars,
                 callVars>>

Timer ==
  /\ stopPc # "exited"
  /\ \/ Update \/ BaseNotFound \/ Cancelled \/ Added \/ NodeletManager("timer")
     \/ \E t \in Topics : Cancel(t) \/ Add(t)

-----------------------------------------------------------------------------
(* shutdown_cb: unload_all of every manager, then the process ends. *)
Stop ==
  /\ updatePc # "off" /\ (StopsAlone \/ ~standalone)
  /\ stopPc = "run" /\ stopPc' = "stop" /\ left' = managers
  /\ UNCHANGED <<systemVars, nodeletVars, graphVars, managers, watched, timerVars, names, callVars>>
StopManager(m) ==
  /\ stopPc = "stop" /\ callPc["shutdown"] = "none" /\ names = {} /\ m \in left
  /\ left' = left \ {m} /\ Enter("shutdown", m, NoItem)
  /\ UNCHANGED <<systemVars, nodeletVars, graphVars, managers, watched, timerVars, stopPc, names>>
UnloadNext(x) ==
  /\ stopPc = "stop" /\ callPc["shutdown"] = "none" /\ x \in names
  /\ Enter("shutdown", callee["shutdown"], x)
  /\ UNCHANGED <<systemVars, nodeletVars, graphVars, managers, watched, timerVars, stopVars>>
Exit ==
  /\ stopPc = "stop" /\ callPc["shutdown"] = "none" /\ names = {} /\ left = {}
  /\ stopPc' = "exited"
  /\ UNCHANGED <<systemVars, nodeletVars, graphVars, managers, watched, timerVars, left, names,
                 callVars>>

Shutdown ==
  \/ Stop \/ Exit \/ NodeletManager("shutdown")
  \/ \E m \in Manager : StopManager(m)
  \/ \E x \in names : UnloadNext(x)
System == Rewire \/ \E m \in Manager : Anew(m)
Next == Launch \/ Timer \/ Shutdown \/ System

Fairness == WF_autoVars(Timer)
Spec == Init /\ [][Next]_autoVars /\ Fairness

-----------------------------------------------------------------------------
(* A topic is never logged twice: the loggers of a topic run in one        *)
(* manager at most, whichever managers publish it in turn and whatever     *)
(* service calls fail -- unless a manager has loaded or unloaded one       *)
(* without being heard.  While shutdown_cb cuts in, of two loggers one is  *)
(* not known to the node any more: its listing was older than the load.    *)
OneLoggerPerTopic ==
  \A m, n \in Manager : m # n =>
    \A t \in nodelets[m] \cap nodelets[n] :
      \/ t \in unheard
      \/ stopPc # "run" /\ EscapeTopic[t] \notin loaded[m] \cap loaded[n]

(* What a topic must be spared: its name is that of another topic's        *)
(* nodelet (/a/b and /a_b share one, which logs one of them), the answer   *)
(* of a call for it is lost, or its logger ends by itself.                 *)
Unharmed(t) ==
  /\ t \notin unheard \cup ended
  /\ \A u \in Current \ {t} : EscapeTopic[u] # EscapeTopic[t]

(* The loggers catch up with the graph: a topic that stays in it is logged *)
(* in the end and one that has left it is not, when the managers do what   *)
(* they are asked from some time on, and the timer lives.                  *)
LoggersFollowGraph ==
  LET Lives == updatePc \notin {"off", "dead"} /\ stopPc = "run"
      CallFails == callPc["timer"] = "call" /\ callPc'["timer"] = "none"
      Logged(t) == \E m \in Manager : t \in nodelets[m]
      Wanted(t) == t \in {c[2] : c \in Within(Above({Base}))}
  IN \A t \in Topics :
       /\ []Unharmed(t) /\ <>[]Lives
       /\ <>[][~CallFails /\ (Wanted(t)' <=> Wanted(t))]_<<callPc, live>>
       => <>[](Logged(t) <=> Wanted(t))
=============================================================================
