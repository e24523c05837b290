---------------------------- MODULE MuxSelector ----------------------------
(***************************************************************************)
(* The node mux_selector: for each trigger a callback that rospy calls in  *)
(* a thread of its own stores whether the condition held, and the main     *)
(* loop selects at the mux the topic of the first trigger whose condition  *)
(* holds, or the default.  Callbacks and loop share selects and a lock.    *)
(*                                                                         *)
(* A trigger is its index, which also names the topic it selects.  Of the  *)
(* time stamp in selects only its comparison with ~patient matters: a      *)
(* condition that held is fresh until it expires.                          *)
(***************************************************************************)
EXTENDS Naturals

CONSTANTS
  NumTriggers,  (* len(conditions)                                         *)
  NoTopic,      (* Python's None, as a topic                               *)
  Main          (* the thread of the main loop                             *)

VARIABLES
  default,      (* ~default_select                                         *)
  wait,         (* ~wait                                                   *)
  typed,        (* the trigger topics whose type can be found              *)
  subs,         (* the triggers that have been subscribed                  *)
  index,        (* the trigger that update_trigger looks at                *)
  selects,      (* what is known of each condition                         *)
  owner,        (* the threads that hold the lock: one or none             *)
  muxPc,        (* where each thread is                                    *)
  before,       (* the topic of the last turn of the loop                  *)
  next,         (* the topic of this turn                                  *)
  mux,          (* the topic the mux passes on                             *)
  lastCall,     (* what became of the last call of its service             *)
  raised        (* a condition has raised an exception                     *)

optionVars  == <<default, wait>>
triggerVars == <<typed, subs, index>>
loopVars    == <<before, next, mux, lastCall>>
muxVars == <<optionVars, triggerVars, selects, owner, muxPc, loopVars, raised>>

Triggers == 1..NumTriggers
Topics == 0..NumTriggers    (* 0 is a topic that no trigger selects *)

Init ==
  /\ default = NoTopic /\ wait = FALSE
  /\ typed = {} /\ subs = {} /\ index = 1
  /\ selects = [i \in Triggers |-> "none"]
  /\ owner = {}
  /\ muxPc = [t \in Triggers \cup {Main} |-> IF t = Main THEN "off" ELSE "idle"]
  /\ before = NoTopic /\ next = NoTopic
  /\ mux = 0 /\ lastCall = "none" /\ raised = FALSE

Goto(t, l) == muxPc' = [muxPc EXCEPT ![t] = l]

(* The node starts with any options, beside a mux that may pass on any     *)
(* topic: it does not select the default of its own accord.                *)
Launch ==
  /\ muxPc[Main] = "off" /\ Goto(Main, "trigger")
  /\ wait' \in BOOLEAN /\ typed' \in SUBSET Triggers /\ mux' \in Topics
  /\ default' \in Topics \cup {NoTopic} /\ before' = default'
  /\ UNCHANGED <<subs, index, selects, owner, next, lastCall, raised>>

(* The environment: somebody advertises a trigger topic; ~patient passes.  *)
Advertise(i) ==
  /\ muxPc[Main] = "trigger" /\ i \notin typed /\ typed' = typed \cup {i}
  /\ UNCHANGED <<optionVars, subs, index, selects, owner, muxPc, loopVars, raised>>

Expire(i) ==
  /\ selects[i] = "holds" /\ selects' = [selects EXCEPT ![i] = "none"]
  /\ UNCHANGED <<optionVars, triggerVars, owner, muxPc, loopVars, raised>>

(* update_trigger, once before the loop: a topic without a type is waited  *)
(* for or left out for good, as is one whose messages are not built.       *)
NextTrigger ==
  /\ index' = index + 1
  /\ IF index = NumTriggers THEN Goto(Main, "acquire") ELSE UNCHANGED muxPc
AddTrigger ==
  /\ muxPc[Main] = "trigger"
  /\ \/ index \in typed /\ subs' = subs \cup {index}
     \/ (index \in typed \/ ~wait) /\ UNCHANGED subs
  /\ NextTrigger
  /\ UNCHANGED <<optionVars, typed, selects, owner, loopVars, raised>>

Acquire(t, from, to) ==
  /\ muxPc[t] = from /\ owner = {}
  /\ owner' = {t} /\ Goto(t, to)
  /\ UNCHANGED <<optionVars, triggerVars, selects, loopVars, raised>>

(* callback *)
MessageArrives(i) ==
  /\ i \in subs /\ muxPc[i] = "idle" /\ Goto(i, "acquire")
  /\ UNCHANGED <<optionVars, triggerVars, selects, owner, loopVars, raised>>

(* After an exception the thread asks for the lock that it holds itself,   *)
(* so that it stays at "reacquire".                                        *)
Evaluate(i) ==
  /\ muxPc[i] = "eval"
  /\ \/ /\ \E ok \in {"holds", "none"} : selects' = [selects EXCEPT ![i] = ok]
        /\ owner' = {} /\ Goto(i, "idle") /\ UNCHANGED raised
     \/ /\ raised' = TRUE /\ Goto(i, "reacquire")
        /\ UNCHANGED <<selects, owner>>
  /\ UNCHANGED <<optionVars, triggerVars, loopVars>>

(* The main loop. *)
Candidates == {i \in Triggers : selects[i] = "holds"}
First(S) == CHOOSE i \in S : \A j \in S : i <= j
Chosen == IF Candidates # {} THEN First(Candidates) ELSE default

ForgetRelease == owner
AfterRead == {}
Read ==
  /\ muxPc[Main] = "read"
  /\ next' = Chosen /\ owner' = AfterRead /\ Goto(Main, "select")
  /\ UNCHANGED <<optionVars, triggerVars, selects, before, mux, lastCall, raised>>

UnchangedOrDefault == next \in {before, default, NoTopic}
Unchanged == next \in {before, NoTopic}
Select ==
  /\ muxPc[Main] = "select"
  /\ \/ Unchanged /\ UNCHANGED <<mux, lastCall>>
     \/ ~Unchanged /\ mux' = next /\ lastCall' = "served"
     \/ ~Unchanged /\ UNCHANGED mux /\ lastCall' = "failed"
  /\ before' = next /\ Goto(Main, "acquire")
  /\ UNCHANGED <<optionVars, triggerVars, selects, owner, next, raised>>

Loop == AddTrigger \/ Acquire(Main, "acquire", "read") \/ Read \/ Select
Callback(i) == Acquire(i, "acquire", "eval") \/ Evaluate(i)

Next ==
  \/ Launch \/ Loop
  \/ \E i \in Triggers :
       Callback(i) \/ MessageArrives(i) \/ Expire(i) \/ Advertise(i)

Fairness == WF_muxVars(Loop) /\ \A i \in Triggers : WF_muxVars(Callback(i))
Spec == Init /\ [][Next]_muxVars /\ Fairness

-----------------------------------------------------------------------------
(* The lock is released again and again for as long as no condition        *)
(* raises: only the second acquire of callback can stop the node.          *)
LockIsReleased == [](~raised) => []<>(owner = {})

(* Once a call of the service has been served, the mux passes on the topic *)
(* that the loop believes to be selected, until a call fails.              *)
MuxFollowsLoop == lastCall = "served" /\ before # NoTopic => mux = before
=============================================================================
