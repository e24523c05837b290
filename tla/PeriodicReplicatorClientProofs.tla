------------------- MODULE PeriodicReplicatorClientProofs -------------------
(***************************************************************************)
(* Proofs about PeriodicReplicatorClient, for any number of clients, with  *)
(* the network monitored or not.                                           *)
(***************************************************************************)
EXTENDS PeriodicReplicatorClient, TLAPS

(***************************************************************************)
(* The inductive invariant.  The lock makes the flag right, and a caller   *)
(* leaves its wait only when the move has ended or ROS is shut down: the   *)
(* invariants need no strengthening but each other.                        *)
(***************************************************************************)
IInv == TypeOK /\ FlagTellsTruth /\ NoOrphanMove

LEMMA NobodyIsNoCaller == Nobody \notin Caller
BY ConstantsAssumption DEF ConstantsAssumption, Caller, Nobody

LEMMA InitIInv == Init => IInv
<1> SUFFICES ASSUME Init PROVE IInv
  OBVIOUS
<1>1. TypeOK
  BY DEF Init, TypeOK, Goal, NoGoal, Kinds, Nobody
<1>2. FlagTellsTruth
  BY DEF Init, FlagTellsTruth, Busy, Moving, Kinds, Idle, Finished
<1>3. NoOrphanMove
  BY DEF Init, NoOrphanMove, NoGoal
<1>. QED
  BY <1>1, <1>2, <1>3 DEF IInv

(* The places differ from one another. *)
LEMMA Places ==
  ASSUME NEW kind \in Kinds
  PROVE  /\ <<"send", kind>> \in Moving /\ <<"wait", kind>> \in Moving
         /\ Idle \notin Moving /\ Asked \notin Moving /\ Lock \notin Moving
         /\ Finished \notin Moving
         /\ Idle # Finished /\ Asked # Finished /\ Lock # Finished
         /\ \A k \in Kinds : <<"send", k>> # <<"wait", kind>>
         /\ After(kind) \in Moving \cup {Finished}
         /\ \A k \in Kinds : After(kind) # <<"wait", k>>
BY DEF Moving, Kinds, Idle, Asked, Lock, Finished, After

(* A caller's steps, seen from outside its critical section. *)
LEMMA StartPreserves ==
  ASSUME IInv, NEW c \in Caller,
         TestReplicating(c) \/ Acquire(c) \/ (c = "timer" /\ TimerCb) \/ ReplicateSrvCb(c)
  PROVE  IInv'
<1>0. Kinds = {"persistent", "rest"}
  BY DEF Kinds
<1>1. PICK to \in {Asked, Idle, Lock, <<"send", "persistent">>} :
        pc' = [pc EXCEPT ![c] = to]
  BY DEF TestReplicating, Acquire, TimerCb, ReplicateSrvCb, Goto
<1>2. pc[c] \in {Idle, Asked, Lock}
  BY DEF TestReplicating, Acquire, TimerCb, ReplicateSrvCb, At
<1>3. /\ UNCHANGED <<goal, doneCb, recent, connected, shutdown>>
      /\ \/ UNCHANGED <<lock, replicating>> /\ to # <<"send", "persistent">>
         \/ lock = Nobody /\ lock' = c /\ replicating' = TRUE
  <2>0. pc' = [pc EXCEPT ![c] = to] /\ pc'[c] = to
    BY <1>1 DEF IInv, TypeOK
  <2>1. CASE Acquire(c)
    BY <2>1 DEF Acquire, LockIsFree
  <2>2. CASE TestReplicating(c)
    <3>1. pc'[c] \in {Idle, Lock} /\ UNCHANGED <<lock, replicating, goal, doneCb, recent, connected, shutdown>>
      BY <2>2, <2>0 DEF TestReplicating, Goto, IInv, TypeOK
    <3>. QED
      BY <2>0, <3>1 DEF Idle, Lock
  <2>3. CASE (c = "timer" /\ TimerCb) \/ ReplicateSrvCb(c)
    <3>1. pc'[c] = Asked /\ UNCHANGED <<lock, replicating, goal, doneCb, recent, connected, shutdown>>
      BY <2>3, <2>0 DEF TimerCb, ReplicateSrvCb, Goto, IInv, TypeOK
    <3>. QED
      BY <2>0, <3>1 DEF Asked
  <2>. QED
    BY <2>1, <2>2, <2>3
<1>4. TypeOK'
  <2>1. to \in Moving \cup {Idle, Asked, Lock, Finished}
    BY <1>0, Places
  <2>2. pc' \in [Caller -> Moving \cup {Idle, Asked, Lock, Finished}]
    BY <1>1, <2>1 DEF IInv, TypeOK
  <2>3. /\ replicating' \in BOOLEAN /\ lock' \in Caller \cup {Nobody}
        /\ replicating' <=> lock' # Nobody
    <3>1. CASE UNCHANGED <<lock, replicating>>
      BY <3>1, Zenon DEF IInv, TypeOK
    <3>2. CASE lock' = c /\ replicating' = TRUE
      BY <3>2, NobodyIsNoCaller, Zenon
    <3>. QED
      BY <1>3, <3>1, <3>2
  <2>. QED
    BY <1>3, <2>2, <2>3, Zenon DEF IInv, TypeOK
<1>5. FlagTellsTruth'
  BY <1>0, <1>1, <1>2, <1>3, Places, NobodyIsNoCaller
     DEF IInv, TypeOK, FlagTellsTruth, Busy
<1>6. NoOrphanMove'
  <2>1. \A k \in Kinds : pc[c] # <<"wait", k>>
    BY <1>2, Places
  <2>2. ASSUME goal.state # "done", ~shutdown
        PROVE  \E d \in Caller : pc'[d] = <<"wait", goal.kind>>
    <3>1. PICK d \in Caller : pc[d] = <<"wait", goal.kind>>
      BY <2>2 DEF IInv, NoOrphanMove, At
    <3>2. d # c
      BY <3>1, <1>2 DEF Idle, Asked, Lock
    <3>. QED
      BY <3>1, <3>2, <1>1 DEF IInv, TypeOK
  <2>. QED
    BY <2>2, <1>3 DEF NoOrphanMove, At
<1>. QED
  BY <1>4, <1>5, <1>6 DEF IInv

(* The steps of the caller that holds the lock. *)
LEMMA MovePreserves ==
  ASSUME IInv, NEW c \in Caller,
         \/ SendGoal(c) \/ SendGoalFails(c) \/ WaitForResult(c)
         \/ WaitTimesOut(c) \/ Release(c)
  PROVE  IInv'
<1>1. ASSUME NEW kind \in Kinds, At(c, <<"send", kind>>),
             goal' = [kind |-> kind, state |-> "pending", canceled |-> FALSE],
             Goto(c, <<"wait", kind>>),
             UNCHANGED <<replicating, lock, doneCb, recent, connected, shutdown>>
      PROVE  IInv'
  <2>1. TypeOK'
    BY <1>1, Places DEF IInv, TypeOK, Goto, Goal
  <2>2. FlagTellsTruth'
    BY <1>1, Places DEF IInv, TypeOK, FlagTellsTruth, Busy, Goto, At
  <2>3. NoOrphanMove'
    BY <1>1 DEF IInv, TypeOK, NoOrphanMove, Goto, At
  <2>. QED
    BY <2>1, <2>2, <2>3 DEF IInv
<1>2. ASSUME NEW kind \in Kinds, At(c, <<"send", kind>>), shutdown,
             goal' = NoGoal, Goto(c, Finished),
             UNCHANGED <<replicating, lock, doneCb, recent, connected, shutdown>>
      PROVE  IInv'
  <2>1. TypeOK'
    BY <1>2 DEF IInv, TypeOK, Goto, Goal, NoGoal
  <2>2. FlagTellsTruth'
    BY <1>2, Places DEF IInv, TypeOK, FlagTellsTruth, Busy, Goto, At
  <2>3. NoOrphanMove'
    BY <1>2 DEF NoOrphanMove
  <2>. QED
    BY <2>1, <2>2, <2>3 DEF IInv
<1>3. ASSUME NEW kind \in Kinds, At(c, <<"wait", kind>>), LeavesWait,
             Goto(c, After(kind)),
             UNCHANGED <<replicating, lock, goal, doneCb, recent, connected, shutdown>>
      PROVE  IInv'
  <2>1. TypeOK'
    BY <1>3, Places DEF IInv, TypeOK, Goto
  <2>2. FlagTellsTruth'
    BY <1>3, Places DEF IInv, TypeOK, FlagTellsTruth, Busy, Goto, At
  <2>3. NoOrphanMove'
    BY <1>3 DEF NoOrphanMove, LeavesWait
  <2>. QED
    BY <2>1, <2>2, <2>3 DEF IInv
<1>4. CASE WaitTimesOut(c)
  <2>1. /\ UNCHANGED <<pc, replicating, lock, doneCb, recent, connected, shutdown>>
        /\ goal' \in Goal /\ goal'.state = goal.state /\ goal'.kind = goal.kind
    BY <1>4 DEF WaitTimesOut, CancelAllGoals, IInv, TypeOK, Goal
  <2>2. TypeOK'
    BY <2>1 DEF IInv, TypeOK
  <2>3. FlagTellsTruth' /\ NoOrphanMove'
    BY <2>1 DEF IInv, FlagTellsTruth, NoOrphanMove, Busy, At
  <2>. QED
    BY <2>2, <2>3 DEF IInv
<1>5. CASE Release(c)
  <2>1. /\ pc[c] = Finished /\ pc' = [pc EXCEPT ![c] = Idle]
        /\ ~replicating' /\ lock' = Nobody
        /\ UNCHANGED <<goal, doneCb, recent, connected, shutdown>>
    BY <1>5 DEF Release, At, Goto
  <2>2. TypeOK'
    BY <1>5, <2>1, NobodyIsNoCaller DEF Release, IInv, TypeOK
  <2>3. \A d \in Caller : Busy(d) => d = c
    BY <2>1 DEF IInv, FlagTellsTruth, Busy
  <2>4. FlagTellsTruth'
    BY <2>1, <2>3, Places DEF IInv, TypeOK, FlagTellsTruth, Busy, Kinds
  <2>5. NoOrphanMove'
    <3>1. \A d \in Caller : pc[d] = <<"wait", goal.kind>> => d # c
      BY <2>1 DEF Finished
    <3>. QED
      BY <2>1, <3>1 DEF IInv, TypeOK, NoOrphanMove, At
  <2>. QED
    BY <2>2, <2>4, <2>5 DEF IInv
<1>. QED
  BY <1>1, <1>2, <1>3, <1>4, <1>5 DEF SendGoal, SendGoalFails, WaitForResult

(* The server, the callbacks, the network, the clock and the shutdown. *)
LEMMA OutsidePreserves ==
  ASSUME IInv,
         \/ ActiveCb \/ ResultArrives \/ DoneCb
         \/ IntervalPasses \/ NetworkConnectedCb \/ Shutdown \/ UNCHANGED vars
  PROVE  IInv'
<1>1. /\ UNCHANGED <<pc, replicating, lock>>
      /\ goal' = goal \/ goal'.state = "done"
         \/ (goal.state = "pending" /\ goal'.kind = goal.kind)
      /\ shutdown => shutdown'
  BY DEF ActiveCb, ResultArrives, DoneCb, IntervalPasses, NetworkConnectedCb,
         Shutdown, vars, IInv, TypeOK, Goal
<1>2. TypeOK'
  <2>1. CASE ActiveCb
    BY <2>1 DEF ActiveCb, IInv, TypeOK, Goal
  <2>2. CASE ResultArrives
    BY <2>2 DEF ResultArrives, IInv, TypeOK, Goal
  <2>3. CASE DoneCb \/ IntervalPasses \/ NetworkConnectedCb \/ Shutdown \/ UNCHANGED vars
    <3>1. UNCHANGED <<pc, replicating, lock, goal>>
      BY <2>3 DEF DoneCb, IntervalPasses, NetworkConnectedCb, Shutdown, vars
    <3>2. doneCb' \in {"none", "succeeded", "failed"}
      BY <2>3 DEF DoneCb, IntervalPasses, NetworkConnectedCb, Shutdown, vars, IInv, TypeOK
    <3>3. recent' \in BOOLEAN /\ connected' \in BOOLEAN /\ shutdown' \in BOOLEAN
      BY <2>3, Zenon
         DEF DoneCb, IntervalPasses, NetworkConnectedCb, Shutdown, vars, IInv, TypeOK
    <3>. QED
      BY <3>1, <3>2, <3>3, Zenon DEF IInv, TypeOK
  <2>. QED
    BY <2>1, <2>2, <2>3
<1>3. FlagTellsTruth' /\ NoOrphanMove'
  BY <1>1 DEF IInv, FlagTellsTruth, NoOrphanMove, Busy, At
<1>. QED
  BY <1>2, <1>3 DEF IInv

LEMMA NextIInv == IInv /\ [Next]_vars => IInv'
<1> SUFFICES ASSUME IInv, [Next]_vars PROVE IInv'
  OBVIOUS
<1>1. "timer" \in Caller /\ Client \subseteq Caller
  BY DEF Caller
<1>. QED
  BY <1>1, StartPreserves, MovePreserves, OutsidePreserves DEF Next, CallerStep

(* The flag, which is tested without the lock, is set and the lock is held *)
(* by the caller as long as it is at its moves.                            *)
THEOREM FlagIsRight == Spec => []FlagTellsTruth
<1>1. IInv => FlagTellsTruth
  BY DEF IInv
<1>. QED
  BY <1>1, InitIInv, NextIInv, PTL DEF Spec

(* Before the shutdown every move that is going on has a caller that waits *)
(* for it.                                                                 *)
THEOREM MovesAreWaitedFor == Spec => []NoOrphanMove
<1>1. IInv => NoOrphanMove
  BY DEF IInv
<1>. QED
  BY <1>1, InitIInv, NextIInv, PTL DEF Spec

(* A caller that sends a move holds the lock, so the caller that waits for *)
(* a move that is going on would be itself.                                *)
LEMMA SendsAfterEnd ==
  ASSUME IInv, [Next]_vars, NEW c \in Caller,
         pc[c][1] = "send", pc'[c][1] = "wait"
  PROVE  goal.state = "done" \/ shutdown
<1> SUFFICES ASSUME goal.state # "done", ~shutdown
             PROVE  FALSE
  OBVIOUS
<1>1. PICK d \in Caller : pc[d] = <<"wait", goal.kind>>
  BY DEF IInv, NoOrphanMove, At
<1>2. pc[c] \in Moving /\ pc[d] \in Moving
  <2>1. pc[c] \in Moving \cup {Idle, Asked, Lock, Finished}
        /\ pc[d] \in Moving \cup {Idle, Asked, Lock, Finished}
    BY DEF IInv, TypeOK
  <2>. QED
    BY <2>1, <1>1 DEF Idle, Asked, Lock, Finished
<1>3. c = d
  BY <1>2 DEF IInv, FlagTellsTruth, Busy
<1>. QED
  BY <1>1, <1>3

(* send_goal never makes the client forget a move that is still going on.  *)
THEOREM NoMoveIsForgotten == Spec => NoMoveForgotten
<1>1. IInv /\ [Next]_vars =>
        [\A c \in Caller : pc[c][1] = "send" /\ pc'[c][1] = "wait" =>
           goal.state = "done" \/ shutdown]_vars
  BY SendsAfterEnd
<1>. QED
  BY <1>1, InitIInv, NextIInv, PTL DEF Spec, NoMoveForgotten
=============================================================================
