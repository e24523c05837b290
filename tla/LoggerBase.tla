----------------------------- MODULE LoggerBase -----------------------------
(***************************************************************************)
(* How the loggers that derive from LoggerBase tag their documents.  The   *)
(* main loop of each reads /task_id in spinOnce; callbacks insert from     *)
(* threads of their own, one for each subscription of mongo_record         *)
(* ("record") and object_detection_logger ("detection"), that of a timer   *)
(* in tf_logger ("tf").  insert puts the task in a dictionary that is made *)
(* for the call, except that the pose of the robot in a detection comes    *)
(* with the default argument, which is one dictionary for ever.            *)
(***************************************************************************)
CONSTANTS
  Threads,      (* the threads of the callbacks                            *)
  Task,         (* values of /task_id                                      *)
  NoTask        (* no /task_id, Python's None, no such key in a dictionary *)

VARIABLES
  logger,       (* which of the loggers runs                               *)
  param,        (* /task_id                                                *)
  taskId,       (* task_id                                                 *)
  cbPc,         (* where each callback is                                  *)
  dict,         (* the dictionary each callback uses                       *)
  tag,          (* the task_id in a callback's own and in the default one  *)
  seen,         (* the values of task_id since the insertion began         *)
  doc           (* the last document                                       *)

callVars == <<dict, tag, seen, doc>>
logVars == <<logger, param, taskId, cbPc, callVars>>

Init ==
  /\ logger = "none" /\ param = NoTask /\ taskId = NoTask
  /\ cbPc = [t \in Threads |-> "idle"] /\ dict = [t \in Threads |-> "fresh"]
  /\ tag = [d \in Threads \cup {"default"} |-> NoTask]
  /\ seen = [t \in Threads |-> {}]
  /\ doc = [dict |-> "fresh", tag |-> NoTask, seen |-> {NoTask}]

Launch ==
  /\ logger = "none" /\ logger' \in {"record", "tf", "detection"}
  /\ UNCHANGED <<param, taskId, cbPc, callVars>>
SetTask(k) ==
  /\ logger # "none" /\ param' = k
  /\ UNCHANGED <<logger, taskId, cbPc, callVars>>

SpinOnce ==
  /\ logger # "none" /\ taskId' = param
  /\ seen' = [t \in Threads |-> IF cbPc[t] = "idle" THEN {} ELSE seen[t] \cup {param}]
  /\ UNCHANGED <<logger, param, cbPc, dict, tag, doc>>

CbGoto(t, l) == cbPc' = [cbPc EXCEPT ![t] = l]
Begin(t, d) ==
  /\ CbGoto(t, "test") /\ dict' = [dict EXCEPT ![t] = d]
  /\ seen' = [seen EXCEPT ![t] = {taskId}]

(* A message, the timer of tf_logger, or an object of a detection.         *)
KeptDict == "default"
FirstDict == IF logger = "detection" THEN "default" ELSE "fresh"
Callback(t) ==
  /\ logger # "none" /\ cbPc[t] = "idle" /\ Begin(t, FirstDict)
  /\ tag' = [tag EXCEPT ![t] = NoTask]
  /\ UNCHANGED <<logger, param, taskId, doc>>

(* insert: task_id is read twice *)
DictOf(t) == IF dict[t] = "fresh" THEN t ELSE "default"
TestTask(t) ==
  /\ cbPc[t] = "test" /\ CbGoto(t, IF taskId = NoTask THEN "store" ELSE "tag")
  /\ UNCHANGED <<logger, param, taskId, callVars>>
UpdateMeta(t) ==
  /\ cbPc[t] = "tag" /\ CbGoto(t, "store")
  /\ tag' = [tag EXCEPT ![DictOf(t)] = taskId]
  /\ UNCHANGED <<logger, param, taskId, dict, seen, doc>>

(* A detection goes on with the object, which has a dictionary of its own; *)
(* an insertion of the data base that fails ends the callback.             *)
Store(t) ==
  /\ cbPc[t] = "store"
  /\ \/ /\ doc' = [dict |-> dict[t], tag |-> tag[DictOf(t)], seen |-> seen[t]]
        /\ IF dict[t] = "default" THEN Begin(t, "fresh")
           ELSE CbGoto(t, "idle") /\ UNCHANGED <<dict, seen>>
     \/ CbGoto(t, "idle") /\ UNCHANGED <<dict, seen, doc>>
  /\ UNCHANGED <<logger, param, taskId, tag>>

Next ==
  \/ Launch \/ SpinOnce
  \/ \E k \in Task \cup {NoTask} : SetTask(k)
  \/ \E t \in Threads : Callback(t) \/ TestTask(t) \/ UpdateMeta(t) \/ Store(t)

Spec == Init /\ [][Next]_logVars

-----------------------------------------------------------------------------
(* A document bears a task that was current while it was inserted, or none *)
(* when there was none.  Only the robot's pose of a detection may bear the *)
(* task of an earlier document, through the default dictionary.            *)
TagIsCurrent ==
  logger # "detection" \/ doc.dict = "fresh" => doc.tag \in doc.seen
=============================================================================
