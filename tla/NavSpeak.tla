------------------------------ MODULE NavSpeak ------------------------------
(***************************************************************************)
(* The node nav_speak says how a goal of move_base ended.  The callback of *)
(* the results waits until nobody speaks, which a status message of the    *)
(* speech server tells, then plays a sound and says the result; a newer    *)
(* result replaces the one that waits in the queue meanwhile.              *)
(***************************************************************************)
CONSTANTS
  Results,        (* the terminal states of a goal                         *)
  Named,          (* those that have a text of their own in Japanese       *)
  NoResult

VARIABLES
  japanese,       (* ~lang                                                 *)
  othersSpeak,    (* another node has a goal at the speech server          *)
  ownGoal,        (* this node has one                                     *)
  isSpeaking,     (* is_speaking                                           *)
  latest,         (* the last result of move_base                          *)
  queued,         (* the one in the queue of the subscriber                *)
  held,           (* the one of the callback                               *)
  said,           (* the one said last                                     *)
  navPc

speechVars == <<othersSpeak, ownGoal, isSpeaking>>
resultVars == <<latest, queued, held, said>>
navVars == <<japanese, speechVars, resultVars, navPc>>

Init ==
  /\ japanese = TRUE /\ othersSpeak = FALSE /\ ownGoal = FALSE /\ isSpeaking = FALSE
  /\ latest = NoResult /\ queued = NoResult /\ held = NoResult /\ said = NoResult
  /\ navPc = "off"

NavGoto(l) == navPc' = l
Launch ==
  /\ navPc = "off" /\ NavGoto("idle") /\ japanese' \in BOOLEAN
  /\ UNCHANGED <<speechVars, resultVars>>

(* move_base and the speech server. *)
MoveBaseResult ==
  /\ navPc # "off" /\ latest' \in Results /\ queued' = latest'
  /\ UNCHANGED <<japanese, speechVars, held, said, navPc>>
OthersSpeak ==
  /\ navPc # "off" /\ othersSpeak' = ~othersSpeak
  /\ UNCHANGED <<japanese, ownGoal, isSpeaking, resultVars, navPc>>
SpeechEnds ==
  /\ ownGoal /\ ownGoal' = FALSE
  /\ UNCHANGED <<japanese, othersSpeak, isSpeaking, resultVars, navPc>>

SpeakingIfAny(any) == IF any THEN TRUE ELSE isSpeaking
Speaking(any) == any
StatusCallback ==
  /\ navPc # "off" /\ isSpeaking' = Speaking(othersSpeak \/ ownGoal)
  /\ UNCHANGED <<japanese, othersSpeak, ownGoal, resultVars, navPc>>

(* move_base_result_callback *)
TakeResult ==
  /\ navPc = "idle" /\ queued # NoResult /\ NavGoto("wait")
  /\ held' = queued /\ queued' = NoResult
  /\ UNCHANGED <<japanese, speechVars, latest, said>>
WaitForSilence ==
  /\ navPc = "wait" /\ ~isSpeaking /\ NavGoto("play")
  /\ UNCHANGED <<japanese, speechVars, resultVars>>
(* A text of its own is sent as a goal, any other text is said directly.   *)
SayResult ==
  /\ navPc = "play" /\ NavGoto("idle") /\ said' = held /\ held' = NoResult
  /\ ownGoal' = (ownGoal \/ (japanese /\ held \in Named))
  /\ UNCHANGED <<japanese, othersSpeak, isSpeaking, latest, queued>>

Step == TakeResult \/ WaitForSilence \/ SayResult
Next == Launch \/ MoveBaseResult \/ OthersSpeak \/ SpeechEnds \/ StatusCallback \/ Step

(* The callback runs, the server ends what it says and tells its status.   *)
Fairness == WF_navVars(Step) /\ WF_navVars(SpeechEnds) /\ WF_navVars(StatusCallback)
Spec == Init /\ [][Next]_navVars /\ Fairness

-----------------------------------------------------------------------------
(* If the others are silent from some time on and no more results come,    *)
(* the last result is the one said last, although the node waits for its   *)
(* own speech as well and its queue keeps one result only.                 *)
LatestResultIsSaid ==
  <>[](~othersSpeak /\ latest # NoResult) /\ <>[][UNCHANGED latest]_navVars
    => <>[](said = latest)
=============================================================================
