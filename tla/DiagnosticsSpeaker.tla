------------------------- MODULE DiagnosticsSpeaker -------------------------
(***************************************************************************)
(* The speech of Fetch's warning.py: each node that publishes diagnostics  *)
(* has a thread which says the errors it was given, five seconds each, and *)
(* no message twice within ten minutes.  A report without errors           *)
(* terminates that thread: the exception reaches it at some later moment,  *)
(* and the callback waits for its end.                                     *)
(*                                                                         *)
(* A status is a name and a message, and several names may have one        *)
(* message: what is said, or not, depends on both, but what was said       *)
(* lately is kept by message.                                              *)
(***************************************************************************)

CONSTANTS
  Callers,      (* the nodes that publish diagnostics                      *)
  Reports,      (* the statuses that each of them may report               *)
  Message,      (* the message of each status                              *)
  Silenced,     (* those that are never said                               *)
  Stopped       (* those that do not count while the robot is stopped      *)

Statuses == UNION {Reports[c] : c \in Callers}
Messages == {Message[s] : s \in Statuses}

VARIABLES
  reports,    (* the errors of each node                                   *)
  runstopped, (* robot_state_msgs.runstopped                               *)
  marks,      (* error_status_in_10_min: absent, fresh or old              *)
  todo,       (* the errors the thread of each node has not looked at      *)
  status,     (* those it looks at: one or none                            *)
  threadPc,   (* where it is: none before the first, dead after its end    *)
  dying,      (* it was sent the exception                                 *)
  speakerPc   (* the callback of each node                                 *)

threadVars == <<todo, status, threadPc>>
speakerVars == <<reports, runstopped, marks, threadVars, dying, speakerPc>>

Init ==
  /\ reports = [c \in Callers |-> {}] /\ runstopped = FALSE
  /\ marks = [m \in Messages |-> "absent"]
  /\ todo = [c \in Callers |-> {}] /\ status = [c \in Callers |-> {}]
  /\ threadPc = [c \in Callers |-> "none"] /\ dying = [c \in Callers |-> FALSE]
  /\ speakerPc = [c \in Callers |-> "off"]

(* The environment: what the nodes report, the robot and the clock. *)
Launch ==
  /\ \A c \in Callers : speakerPc[c] = "off"
  /\ speakerPc' = [c \in Callers |-> "idle"]
  /\ UNCHANGED <<reports, runstopped, marks, threadVars, dying>>
Launched == \A c \in Callers : speakerPc[c] # "off"
Change ==
  /\ Launched
  /\ \/ /\ \E c \in Callers : \E e \in SUBSET Reports[c] : reports' = [reports EXCEPT ![c] = e]
        /\ UNCHANGED runstopped
     \/ runstopped' = ~runstopped /\ UNCHANGED reports
  /\ UNCHANGED <<marks, threadVars, dying, speakerPc>>
TenMinutesPass ==
  /\ \E m \in Messages : marks[m] = "fresh"
  /\ marks' = [m \in Messages |-> IF marks[m] = "fresh" THEN "old" ELSE marks[m]]
  /\ UNCHANGED <<reports, runstopped, threadVars, dying, speakerPc>>

(* diagnostics_status_callback *)
Errors(c) == IF runstopped THEN reports[c] \ Stopped ELSE reports[c]
Alive(c) == threadPc[c] \notin {"none", "dead"}
SpeakerGoto(c, l) == speakerPc' = [speakerPc EXCEPT ![c] = l]
StopThread(c) ==
  /\ speakerPc[c] = "idle" /\ Errors(c) = {} /\ Alive(c) /\ SpeakerGoto(c, "join")
  /\ dying' = [dying EXCEPT ![c] = TRUE]
  /\ UNCHANGED <<reports, runstopped, marks, threadVars>>
Join(c) ==
  /\ speakerPc[c] = "join" /\ threadPc[c] = "dead" /\ SpeakerGoto(c, "idle")
  /\ UNCHANGED <<reports, runstopped, marks, threadVars, dying>>
FreeIfNone(c) == threadPc[c] = "none"
Free(c) == threadPc[c] \in {"none", "dead"}
StartThread(c) ==
  /\ speakerPc[c] = "idle" /\ Errors(c) # {} /\ Free(c)
  /\ todo' = [todo EXCEPT ![c] = Errors(c)] /\ threadPc' = [threadPc EXCEPT ![c] = "next"]
  /\ UNCHANGED <<reports, runstopped, marks, status, dying, speakerPc>>
DiagnosticsStatusCallback(c) == StopThread(c) \/ Join(c) \/ StartThread(c)

(* DiagnosticsSpeakThread.run *)
ThreadAt(c, from, to) == threadPc[c] = from /\ threadPc' = [threadPc EXCEPT ![c] = to]
Forget(f, c) == [f EXCEPT ![c] = {}]
Fresh(c, s) ==
  /\ ThreadAt(c, "next", "next") /\ marks[Message[s]] = "fresh" /\ UNCHANGED <<marks, status>>
NotFresh(c, s) ==
  /\ ThreadAt(c, "next", "mark") /\ marks[Message[s]] # "fresh"
  /\ status' = [status EXCEPT ![c] = {s}] /\ UNCHANGED marks
LookAt(c) ==
  \E s \in todo[c] :
    todo' = [todo EXCEPT ![c] = @ \ {s}] /\ (Fresh(c, s) \/ NotFresh(c, s))
Mark(c) ==
  /\ marks' = [m \in Messages |-> IF \E s \in status[c] : Message[s] = m THEN "fresh" ELSE marks[m]]
  /\ IF status[c] \subseteq Silenced
     THEN ThreadAt(c, "mark", "next") /\ status' = Forget(status, c)
     ELSE ThreadAt(c, "mark", "say") /\ UNCHANGED status
  /\ UNCHANGED todo
Say(c) == ThreadAt(c, "say", "sleep") /\ UNCHANGED <<todo, status, marks>>
Slept(c) ==
  ThreadAt(c, "sleep", "next") /\ status' = Forget(status, c) /\ UNCHANGED <<todo, marks>>
Ends(c) ==
  /\ \/ todo[c] = {} /\ threadPc[c] = "next"
     \/ dying[c]
  /\ Alive(c) /\ ThreadAt(c, threadPc[c], "dead")
  /\ todo' = Forget(todo, c) /\ status' = Forget(status, c)
  /\ dying' = [dying EXCEPT ![c] = FALSE] /\ UNCHANGED marks
Run(c) ==
  /\ \/ (LookAt(c) \/ Mark(c) \/ Say(c) \/ Slept(c)) /\ UNCHANGED dying
     \/ Ends(c)
  /\ UNCHANGED <<reports, runstopped, speakerPc>>

Next ==
  \/ Launch \/ Change \/ TenMinutesPass
  \/ \E c \in Callers : DiagnosticsStatusCallback(c) \/ Run(c)

(* Every node publishes again and again, threads run and time passes. *)
Fairness ==
  /\ WF_speakerVars(TenMinutesPass)
  /\ \A c \in Callers : WF_speakerVars(DiagnosticsStatusCallback(c)) /\ WF_speakerVars(Run(c))
Spec == Init /\ [][Next]_speakerVars /\ Fairness

-----------------------------------------------------------------------------
(* If from some time on the nodes report the same errors, then each of     *)
(* their messages is said again and again, although threads of several     *)
(* nodes share the marks of the last ten minutes and one may look at a     *)
(* mark that another is about to set.  Of several statuses with one        *)
(* message it may always be the same one that is said; and if one of them  *)
(* is silenced, it may be none, for that one sets the mark as well.        *)
PersistentErrorIsSpoken ==
  LET With(m) == {s \in Statuses : Message[s] = m}
      Reported(S) == \E c \in Callers : Errors(c) \cap S # {}
      Says(s) == \E c \in Callers : threadPc[c] = "sleep" /\ status[c] = {s}
  IN <>[][UNCHANGED <<reports, runstopped>>]_speakerVars =>
       \A m \in Messages :
         <>[](Reported(With(m)) /\ ~Reported(With(m) \cap Silenced))
           => []<>(\E s \in With(m) : Says(s))
=============================================================================
