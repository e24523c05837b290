---------------------- MODULE PeriodicReplicatorClient ----------------------
(***************************************************************************)
(* The node mongodb_replicator_client, which has the robot's data base     *)
(* copied to another one by the action server move_mongodb_entries.  A     *)
(* replication consists of two moves: the persistent entries, and the rest *)
(* (which is removed if so configured).  It is started by                  *)
(*   - timer_cb, once the interval since the recorded date is over;        *)
(*   - the service ~replicate, in a thread of its own for each client.     *)
(* Both test the flag replicating and then take the lock.  The callbacks   *)
(* of the action client and of /network/connected run in other threads.    *)
(***************************************************************************)
EXTENDS Naturals

CONSTANTS
  Client,          (* the clients of ~replicate                            *)
  MonitorNetwork   (* ~monitor_network                                     *)

ASSUME ConstantsAssumption ==
  /\ MonitorNetwork \in BOOLEAN
  /\ {"timer", "nobody"} \cap Client = {}

Caller == Client \cup {"timer"}
Nobody == "nobody"

VARIABLES
  pc,           (* where each caller is                                    *)
  replicating,  (* self.replicating                                        *)
  lock,         (* who holds self.lock                                     *)
  goal,         (* the move replicate_ac tracks                            *)
  doneCb,       (* what done_cb is called with, while it runs              *)
  recent,       (* the last date in the data base is within the interval   *)
  connected,    (* self.network_connected                                  *)
  shutdown      (* rospy.is_shutdown()                                     *)

vars == <<pc, replicating, lock, goal, doneCb, recent, connected, shutdown>>

Kinds  == {"persistent", "rest"}
Moving == {"send", "wait"} \X Kinds
Idle   == <<"idle", "none">>

(* A move is pending until the server has accepted it, then active. *)
Goal   == [kind : Kinds \cup {"none"}, state : {"pending", "active", "done"},
           canceled : BOOLEAN]
NoGoal == [kind |-> "none", state |-> "done", canceled |-> FALSE]

Init ==
  /\ pc = [c \in Caller |-> Idle]
  /\ replicating = FALSE /\ lock = Nobody
  /\ goal = NoGoal /\ doneCb = "none"
  /\ recent \in BOOLEAN
  /\ connected = FALSE /\ shutdown = FALSE

At(c, where) == pc[c] = where
Goto(c, where) == pc' = [pc EXCEPT ![c] = where]

NetworkOk == MonitorNetwork => connected
-----------------------------------------------------------------------------
(***************************************************************************)
(* timer_cb and replicate_srv_cb.                                          *)
(***************************************************************************)
Asked == <<"asked", "none">>
Lock  == <<"lock", "none">>

(* The date is read from the data base: it may be old by then. *)
TimerCb ==
  /\ At("timer", Idle) /\ ~shutdown
  /\ goal.state # "active" /\ NetworkOk /\ ~recent
  /\ Goto("timer", Asked)
  /\ UNCHANGED <<replicating, lock, goal, doneCb, recent, connected, shutdown>>

(* The service does not look at the network or at the date. *)
ReplicateSrvCb(c) ==
  /\ c \in Client /\ At(c, Idle) /\ ~shutdown
  /\ Goto(c, Asked)
  /\ UNCHANGED <<replicating, lock, goal, doneCb, recent, connected, shutdown>>

(* The flag is tested before the lock is taken. *)
TestReplicating(c) ==
  /\ At(c, Asked)
  /\ Goto(c, IF replicating THEN Idle ELSE Lock)
  /\ UNCHANGED <<replicating, lock, goal, doneCb, recent, connected, shutdown>>
-----------------------------------------------------------------------------
(***************************************************************************)
(* do_replicate and move_entries.                                          *)
(***************************************************************************)
LockIsFree == lock = Nobody

AcquireWithoutLock(c) ==
  /\ At(c, Lock)
  /\ lock' = c /\ replicating' = TRUE
  /\ Goto(c, <<"send", "persistent">>)
  /\ UNCHANGED <<goal, doneCb, recent, connected, shutdown>>

Acquire(c) ==
  /\ At(c, Lock) /\ LockIsFree
  /\ lock' = c /\ replicating' = TRUE
  /\ Goto(c, <<"send", "persistent">>)
  /\ UNCHANGED <<goal, doneCb, recent, connected, shutdown>>

Finished == <<"finally", "none">>

(* What follows the move of a kind, also when that failed. *)
After(kind) == IF kind = "persistent" THEN <<"send", "rest">> ELSE Finished

SendGoal(c) ==
  \E kind \in Kinds :
    /\ At(c, <<"send", kind>>)
    /\ goal' = [kind |-> kind, state |-> "pending", canceled |-> FALSE]
    /\ Goto(c, <<"wait", kind>>)
    /\ UNCHANGED <<replicating, lock, doneCb, recent, connected, shutdown>>

(* After the shutdown of ROS nothing can be published: an exception. *)
SendGoalFails(c) ==
  \E kind \in Kinds :
    /\ At(c, <<"send", kind>>) /\ shutdown
    /\ goal' = NoGoal
    /\ Goto(c, Finished)
    /\ UNCHANGED <<replicating, lock, doneCb, recent, connected, shutdown>>

LeavesWait == goal.state = "done" \/ shutdown

WaitForResult(c) ==
  \E kind \in Kinds :
    /\ At(c, <<"wait", kind>>) /\ LeavesWait
    /\ Goto(c, After(kind))
    /\ UNCHANGED <<replicating, lock, goal, doneCb, recent, connected, shutdown>>

(* cancel_all_goals misses a move that has not reached the server.         *)
CancelAllGoals ==
  \/ goal' = [goal EXCEPT !.canceled = TRUE]
  \/ goal.state = "pending" /\ UNCHANGED goal

TimesOutUnlessActive(c) ==
  /\ \E kind \in Kinds : At(c, <<"wait", kind>>)
  /\ goal.state = "pending" /\ ~shutdown /\ MonitorNetwork /\ ~connected
  /\ CancelAllGoals
  /\ UNCHANGED <<pc, replicating, lock, doneCb, recent, connected, shutdown>>

(* Every five seconds without a result. *)
WaitTimesOut(c) ==
  /\ \E kind \in Kinds : At(c, <<"wait", kind>>)
  /\ ~LeavesWait /\ MonitorNetwork /\ ~connected
  /\ CancelAllGoals
  /\ UNCHANGED <<pc, replicating, lock, doneCb, recent, connected, shutdown>>

(* finally, and the end of the with statement. *)
Release(c) ==
  /\ At(c, Finished)
  /\ replicating' = FALSE /\ lock' = Nobody
  /\ Goto(c, Idle)
  /\ UNCHANGED <<goal, doneCb, recent, connected, shutdown>>

CallerStep(c) ==
  \/ TestReplicating(c) \/ Acquire(c) \/ SendGoal(c) \/ SendGoalFails(c)
  \/ WaitForResult(c) \/ WaitTimesOut(c) \/ Release(c)
-----------------------------------------------------------------------------
(***************************************************************************)
(* The server and the callbacks of the action client.                      *)
(***************************************************************************)

(* The server accepts the move, and active_cb is called. *)
ActiveCb ==
  /\ goal.state = "pending" /\ ~shutdown
  /\ goal' = [goal EXCEPT !.state = "active", !.canceled = @ \/ ~NetworkOk]
  /\ UNCHANGED <<pc, replicating, lock, doneCb, recent, connected, shutdown>>

(* The move has ended.  wait_for_result can return before done_cb, which   *)
(* is called with the status by the thread that received the result.       *)
ResultArrives ==
  /\ goal.state = "active" \/ (goal.state = "pending" /\ goal.canceled)
  /\ ~shutdown /\ doneCb = "none"
  /\ goal' = [goal EXCEPT !.state = "done"]
  /\ doneCb' \in {"succeeded", "failed"}
  /\ UNCHANGED <<pc, replicating, lock, recent, connected, shutdown>>

(* insert_replicate_date, which may fail, after either of the two moves. *)
DoneCb ==
  /\ doneCb # "none"
  /\ doneCb' = "none"
  /\ \/ doneCb = "succeeded" /\ recent' = TRUE
     \/ UNCHANGED recent
  /\ UNCHANGED <<pc, replicating, lock, goal, connected, shutdown>>

(* The interval since the last date is over. *)
IntervalPasses ==
  /\ recent' = FALSE
  /\ UNCHANGED <<pc, replicating, lock, goal, doneCb, connected, shutdown>>

NetworkConnectedCb ==
  /\ connected' \in BOOLEAN
  /\ UNCHANGED <<pc, replicating, lock, goal, doneCb, recent, shutdown>>

Shutdown ==
  /\ shutdown' = TRUE
  /\ UNCHANGED <<pc, replicating, lock, goal, doneCb, recent, connected>>
-----------------------------------------------------------------------------
Next ==
  \/ TimerCb \/ \E c \in Client : ReplicateSrvCb(c)
  \/ \E c \in Caller : CallerStep(c)
  \/ ActiveCb \/ ResultArrives \/ DoneCb
  \/ IntervalPasses \/ NetworkConnectedCb \/ Shutdown

Spec == Init /\ [][Next]_vars

(* Threads run, and whoever waits for the lock gets it in the end.  Of the *)
(* server it is only assumed that it takes a move in and that it ends one  *)
(* that was canceled: a move may take for ever otherwise.                  *)
FairSpec ==
  /\ Spec
  /\ \A c \in Caller :
       /\ WF_vars(TestReplicating(c)) /\ SF_vars(Acquire(c))
       /\ WF_vars(SendGoal(c) \/ SendGoalFails(c))
       /\ WF_vars(WaitForResult(c)) /\ WF_vars(WaitTimesOut(c))
       /\ WF_vars(Release(c))
  /\ WF_vars(ActiveCb) /\ WF_vars(ResultArrives /\ goal.canceled) /\ WF_vars(DoneCb)
-----------------------------------------------------------------------------
(* The types; the flag is set exactly while the lock is held. *)
TypeOK ==
  /\ pc \in [Caller -> Moving \cup {Idle, Asked, Lock, Finished}]
  /\ replicating \in BOOLEAN
  /\ lock \in Caller \cup {Nobody}
  /\ replicating <=> lock # Nobody
  /\ goal \in Goal
  /\ doneCb \in {"none", "succeeded", "failed"}
  /\ recent \in BOOLEAN /\ connected \in BOOLEAN /\ shutdown \in BOOLEAN

Busy(c) == pc[c] \in Moving \cup {Finished}

(* The flag is tested without the lock, so it has to be right: as long as  *)
(* a caller is at its moves it is set and the lock is that caller's, even  *)
(* when several callers have passed the test.                              *)
FlagTellsTruth ==
  \A c \in Caller : Busy(c) => replicating /\ lock = c

(* No move is left alone: before the shutdown a move that has not ended    *)
(* has a caller that waits for just this move and can still cancel it.     *)
NoOrphanMove ==
  goal.state # "done" /\ ~shutdown =>
    \E c \in Caller : At(c, <<"wait", goal.kind>>)

(* send_goal makes the client forget the goal before: that happens to no   *)
(* move that is still going on, so the entries are never removed by one    *)
(* move while another one copies them.                                     *)
NoMoveForgotten ==
  [][\A c \in Caller : pc[c][1] = "send" /\ pc'[c][1] = "wait" =>
       goal.state = "done" \/ shutdown]_vars

(* A lost network unblocks everyone: once /network/connected stays false,  *)
(* whatever was running is canceled, though cancel_all_goals can miss a    *)
(* move and the caller goes on to the second move all the same, and the    *)
(* timer and the clients waiting for the lock come back.                   *)
DisconnectionReleasesAll ==
  <>[](~connected) => \A c \in Caller : []<>At(c, Idle)
=============================================================================
