--------------------- MODULE BaseTrajectoryActionProofs ---------------------
(***************************************************************************)
(* The base trajectory action server and its controller never disagree     *)
(* about which goal is live, and a goal is concluded only after its own    *)
(* trajectory, for any number of goals, any trajectory and any clock.      *)
(***************************************************************************)
EXTENDS BaseTrajectoryAction, SequenceTheorems, WellFoundedInduction, TLAPS

Statuses == {"unknown", "active", "preempting", "rejected", "preempted",
             "succeeded", "aborted"}

(* The numbers and statuses of goals: goals not sent yet are unknown, and  *)
(* the current one has been sent.  This is what keeps a new goal apart     *)
(* from the current one.                                                   *)
GoalsOK ==
  /\ sent \in Nat
  /\ status \in [Goal -> Statuses]
  /\ active \in Goal \cup {NoGoal}
  /\ active <= sent
  /\ \A g \in Goal : g > sent => status[g] = "unknown"

IInv == GoalsOK /\ LiveGoalIsCurrent

LEMMA GoalFacts == Goal \subseteq Nat \ {0} /\ NoGoal \notin Goal
  BY ConstantsAssumption DEF ConstantsAssumption, Goal, NoGoal

(* Ending a goal: only that goal changes, and it is not live afterwards.   *)
LEMMA TerminatedFacts ==
  ASSUME NEW st \in [Goal -> Statuses], NEW g \in Goal \cup {NoGoal},
         NEW result \in Statuses \ Live
  PROVE  /\ Terminated(st, g, result) \in [Goal -> Statuses]
         /\ \A h \in Goal : h # g => Terminated(st, g, result)[h] = st[h]
         /\ g # NoGoal => Terminated(st, g, result)[g] \notin Live
         /\ g # NoGoal => Terminated(st, g, result)[g] \in {st[g], result}
  BY GoalFacts DEF Terminated, NoGoal

(* Before the status of a new goal is set, no goal is live any more.       *)
LEMMA CancelingLeavesNoneLive ==
  ASSUME GoalsOK, LiveGoalIsCurrent
  PROVE  /\ CancelsRunningGoal(status) \in [Goal -> Statuses]
         /\ \A g \in Goal : CancelsRunningGoal(status)[g] \notin Live
         /\ \A g \in Goal : g > sent => CancelsRunningGoal(status)[g] = "unknown"
         /\ active # NoGoal => CancelsRunningGoal(status)[active] # "rejected"
  <1> DEFINE st == CancelsRunningGoal(status)
  <1>1. "preempted" \in Statuses \ Live
    BY DEF Statuses, Live
  <1>2. /\ st \in [Goal -> Statuses]
        /\ \A h \in Goal : h # active => st[h] = status[h]
        /\ active # NoGoal => st[active] \notin Live
        /\ active # NoGoal => st[active] \in {status[active], "preempted"}
    BY <1>1, TerminatedFacts DEF CancelsRunningGoal, SetCanceled, GoalsOK
  <1>3. \A g \in Goal : st[g] \notin Live
    BY <1>2, GoalFacts DEF LiveGoalIsCurrent
  <1>4. \A g \in Goal : g > sent => st[g] = "unknown"
    <2> SUFFICES ASSUME NEW g \in Goal, g > sent PROVE st[g] = "unknown"
      OBVIOUS
    <2>1. g # active
      BY GoalFacts DEF GoalsOK, NoGoal
    <2> QED BY <2>1, <1>2 DEF GoalsOK
  <1> QED BY <1>2, <1>3, <1>4 DEF LiveGoalIsCurrent

LEMMA InitEstablishes == Init => IInv
  BY ConstantsAssumption
  DEF ConstantsAssumption, Init, IInv, GoalsOK, LiveGoalIsCurrent, Live, Goal,
      NoGoal, Statuses

LEMMA GoalCallbackPreserves ==
  ASSUME IInv, GoalCallback PROVE IInv'
  <1> DEFINE g == sent + 1
             st == CancelsRunningGoal(status)
  <1>1. g \in Goal /\ sent' = g /\ g # active /\ g # NoGoal
    BY GoalFacts, ConstantsAssumption
    DEF ConstantsAssumption, GoalCallback, IInv, GoalsOK, Goal, NoGoal
  <1>2. /\ st \in [Goal -> Statuses]
        /\ \A h \in Goal : st[h] \notin Live
        /\ \A h \in Goal : h > sent => st[h] = "unknown"
        /\ active # NoGoal => st[active] # "rejected"
    BY CancelingLeavesNoneLive DEF IInv
  <1> HIDE DEF st
  <1>3. CASE GoalWithOtherJoints(g)
    <2>1. status' = [status EXCEPT ![g] = "rejected"] /\ active' = active
      BY <1>3 DEF GoalWithOtherJoints, SetRejected
    <2> QED BY <1>1, <2>1, GoalFacts
        DEF IInv, GoalsOK, LiveGoalIsCurrent, Live, Statuses
  <1>4. CASE GoalWithBadSizes(g)
    <2>1. status' = [st EXCEPT ![g] = "rejected"] /\ active' = active
      BY <1>4 DEF GoalWithBadSizes, SetRejected, st
    <2>2. GoalsOK'
      BY <1>1, <1>2, <2>1, GoalFacts DEF IInv, GoalsOK, Statuses
    <2>3. LiveGoalIsCurrent'
      BY <1>1, <1>2, <2>1, GoalFacts DEF IInv, GoalsOK, LiveGoalIsCurrent, Live
    <2> QED BY <2>2, <2>3 DEF IInv
  <1>5. CASE \E offset \in (0 - MaxPast) .. MaxFuture, points \in PointSeq :
               GoalAccepted(g, now + offset, points)
    <2>1. status' = [st EXCEPT ![g] = "active"] /\ active' = g
      BY <1>5 DEF GoalAccepted, SetAccepted, st
    <2>2. GoalsOK'
      BY <1>1, <1>2, <2>1, GoalFacts DEF IInv, GoalsOK, Statuses
    <2>3. LiveGoalIsCurrent'
      BY <1>1, <1>2, <2>1, GoalFacts DEF IInv, GoalsOK, LiveGoalIsCurrent, Live
    <2> QED BY <2>2, <2>3 DEF IInv
  <1> QED BY <1>3, <1>4, <1>5 DEF GoalCallback

LEMMA CancelCallbackPreserves ==
  ASSUME IInv, CancelCallback PROVE IInv'
  <1>1. PICK g \in Goal : status[g] = "active"
                          /\ status' = [status EXCEPT ![g] = "preempting"]
    BY DEF CancelCallback
  <1>2. sent' = sent /\ active' = active
    BY DEF CancelCallback
  <1> QED BY <1>1, <1>2, GoalFacts
      DEF IInv, GoalsOK, LiveGoalIsCurrent, Live, Statuses

LEMMA UpdatePreserves ==
  ASSUME IInv, Update PROVE IInv'
  <1>1. sent' = sent /\ active # NoGoal /\ active \in Goal
    BY DEF Update, IInv, GoalsOK
  <1>2. CASE UNCHANGED <<status, active>>
    BY <1>1, <1>2 DEF IInv, GoalsOK, LiveGoalIsCurrent
  <1>3. ASSUME NEW result \in {"succeeded", "aborted"},
               status' = Terminated(status, active, result), active' = NoGoal
        PROVE  IInv'
    <2>1. result \in Statuses \ Live
      BY DEF Statuses, Live
    <2>2. /\ status' \in [Goal -> Statuses]
          /\ \A h \in Goal : h # active => status'[h] = status[h]
          /\ status'[active] \notin Live
      BY <1>1, <1>3, <2>1, TerminatedFacts DEF IInv, GoalsOK
    <2>3. \A h \in Goal : status'[h] \notin Live
      BY <2>2 DEF IInv, LiveGoalIsCurrent
    <2>4. \A h \in Goal : h > sent => h # active
      BY <1>1, GoalFacts DEF IInv, GoalsOK
    <2> QED BY <1>1, <1>3, <2>2, <2>3, <2>4, GoalFacts
        DEF IInv, GoalsOK, LiveGoalIsCurrent, NoGoal
  <1>4. \/ UNCHANGED <<status, active>>
        \/ status' = SetSucceeded(status, active) /\ active' = NoGoal
        \/ status' = SetAborted(status, active) /\ active' = NoGoal
    BY DEF Update, Conclude
  <1> QED BY <1>2, <1>3, <1>4 DEF SetSucceeded, SetAborted

LEMMA OthersPreserve ==
  ASSUME IInv, OdomCallback \/ Tick \/ UNCHANGED vars PROVE IInv'
  <1>1. UNCHANGED <<sent, status, active>>
    BY DEF OdomCallback, Tick, vars, goalVars
  <1> QED BY <1>1 DEF IInv, GoalsOK, LiveGoalIsCurrent

THEOREM Invariance == Spec => []IInv
  <1>1. Init => IInv
    BY InitEstablishes
  <1>2. IInv /\ [Next]_vars => IInv'
    BY GoalCallbackPreserves, CancelCallbackPreserves, UpdatePreserves,
       OthersPreserve DEF Next
  <1> QED BY <1>1, <1>2, PTL DEF Spec

(* The live goal of the action server is the one the controller follows:   *)
(* goalCallback, cancelCallback and update, in any order, neither leave    *)
(* two goals live nor one that update does not look after.                 *)
THEOREM OneLiveGoal == Spec => []LiveGoalIsCurrent
  BY Invariance, PTL DEF IInv
-----------------------------------------------------------------------------
(* Every goal younger than the current one was rejected.                   *)
CurrentIsYoungest ==
  active # NoGoal =>
    \A g \in Goal : g > active => status[g] \in {"unknown", "rejected"}

LEMMA YoungestPreserved ==
  ASSUME IInv, CurrentIsYoungest, [Next]_vars PROVE CurrentIsYoungest'
  <1> SUFFICES ASSUME active' # NoGoal, NEW g \in Goal, g > active'
               PROVE  status'[g] \in {"unknown", "rejected"}
    BY DEF CurrentIsYoungest
  <1> USE DEF IInv, GoalsOK
  <1>1. CASE GoalCallback
    <2> DEFINE new == sent + 1
    <2>1. new \in Goal /\ sent' = new
      BY <1>1, GoalFacts, ConstantsAssumption
      DEF ConstantsAssumption, GoalCallback, Goal
    <2>2. CASE active' = active /\ status' = SetRejected(status, new)
      BY <2>1, <2>2 DEF SetRejected, CurrentIsYoungest
    <2>3. CASE active' = active /\ status' = SetRejected(CancelsRunningGoal(status), new)
      <3>1. g # active
        BY <2>3, GoalFacts DEF NoGoal
      <3>2. CancelsRunningGoal(status)[g] = status[g]
        BY <3>1, TerminatedFacts DEF CancelsRunningGoal, SetCanceled, Statuses, Live
      <3> QED BY <2>1, <2>3, <3>2, CancelingLeavesNoneLive
          DEF SetRejected, CurrentIsYoungest
    <2>4. CASE active' = new
      <3>1. g > sent /\ g # new
        BY <2>1, <2>4, GoalFacts
      <3>2. CancelsRunningGoal(status)[g] = "unknown"
        BY <3>1, CancelingLeavesNoneLive
      <3>3. status' \in {SetAccepted(CancelsRunningGoal(status), new),
                         SetRejected(CancelsRunningGoal(status), new),
                         SetRejected(status, new)}
        BY <1>1 DEF GoalCallback, GoalAccepted, GoalWithOtherJoints, GoalWithBadSizes
      <3> QED BY <3>1, <3>2, <3>3, CancelingLeavesNoneLive
          DEF SetAccepted, SetRejected
    <2> QED BY <1>1, <2>2, <2>3, <2>4
        DEF GoalCallback, GoalAccepted, GoalWithOtherJoints, GoalWithBadSizes
  <1>2. CASE CancelCallback
    <2>1. PICK h \in Goal : status[h] = "active"
                            /\ status' = [status EXCEPT ![h] = "preempting"]
      BY <1>2 DEF CancelCallback
    <2>2. h = active /\ active' = active
      BY <1>2, <2>1 DEF CancelCallback, LiveGoalIsCurrent, Live
    <2> QED BY <2>1, <2>2, GoalFacts DEF CurrentIsYoungest
  <1>3. CASE Update
    <2>1. UNCHANGED <<status, active>>
      BY <1>3 DEF Update, Conclude
    <2> QED BY <2>1 DEF CurrentIsYoungest
  <1>4. CASE OdomCallback \/ Tick \/ UNCHANGED vars
    <2>1. UNCHANGED <<status, active>>
      BY <1>4 DEF OdomCallback, Tick, vars, goalVars
    <2> QED BY <2>1 DEF CurrentIsYoungest
  <1> QED BY <1>1, <1>2, <1>3, <1>4 DEF Next

LEMMA OnlyUpdateCommands ==
  ASSUME IInv, CurrentIsYoungest, [Next]_vars, command' # command
  PROVE  \A g \in Goal : g > command' => status[g] \in {"unknown", "rejected"}
  <1>1. Update
    BY DEF Next, GoalCallback, CancelCallback, OdomCallback, Tick, vars, goalVars
  <1>2. active # NoGoal /\ command' = active
    BY <1>1 DEF Update, OwnSegment
  <1> QED BY <1>2 DEF CurrentIsYoungest

(* No segment of a superseded goal is executed: when a command goes out,   *)
(* every goal younger than the one it serves has been rejected, whatever   *)
(* setTrajectory kept of older trajectories.                               *)
THEOREM SupersededIsSilent == Spec => SupersededNeverCommands
  <1>1. Init => CurrentIsYoungest
    BY DEF Init, CurrentIsYoungest
  <1>2. IInv /\ CurrentIsYoungest /\ [Next]_vars => CurrentIsYoungest'
    BY YoungestPreserved
  <1>3. IInv /\ CurrentIsYoungest /\ [Next]_vars =>
          [command' # command =>
             \A g \in Goal : g > command' =>
               status[g] \in {"unknown", "rejected"}]_vars
    BY OnlyUpdateCommands
  <1> QED BY <1>1, <1>2, <1>3, Invariance, PTL
      DEF Spec, SupersededNeverCommands
-----------------------------------------------------------------------------
(* A nonempty set of numbers has a least element. *)
LEMMA LeastExists ==
  ASSUME NEW T \in SUBSET Nat, T # {}
  PROVE  \E n \in T : \A m \in T : n <= m
  <1> DEFINE R == OpToRel(<, Nat)
  <1>1. IsWellFoundedOn(R, Nat)
    BY NatLessThanWellFounded
  <1>2. \A x, y \in Nat : y < x => <<y, x>> \in R
    BY DEF OpToRel
  <1> HIDE DEF R
  <1>3. PICK n \in T : \A m \in T : ~(<<m, n>> \in R)
    BY <1>1, WFMin
  <1>4. \A m \in T : n <= m
    <2> SUFFICES ASSUME NEW m \in T, ~(n <= m) PROVE FALSE
      OBVIOUS
    <2>1. m \in Nat /\ n \in Nat /\ m < n
      OBVIOUS
    <2>2. <<m, n>> \in R
      BY <2>1, <1>2
    <2> QED BY <2>2, <1>3
  <1> QED BY <1>4

(* A loop that stops at the first segment that fails its test. *)
LEMMA StopsSomewhere ==
  ASSUME NEW N \in Nat, NEW Stop \in SUBSET (1 .. N)
  PROVE  \E n \in 0 .. N :
           (\A i \in 1 .. n : i \notin Stop) /\ (n < N => n + 1 \in Stop)
  <1> DEFINE T == {n \in 0 .. N : n = N \/ n + 1 \in Stop}
  <1>1. PICK n \in T : \A m \in T : n <= m
    <2>1. N \in T /\ T \in SUBSET Nat
      OBVIOUS
    <2> QED BY <2>1, LeastExists
  <1>2. \A i \in 1 .. n : i \notin Stop
    <2> SUFFICES ASSUME NEW i \in 1 .. n, i \in Stop PROVE FALSE
      OBVIOUS
    <2>1. i - 1 \in T /\ i - 1 < n
      OBVIOUS
    <2> QED BY <2>1, <1>1
  <1> QED BY <1>1, <1>2

LEMMA LeadingInRange ==
  ASSUME NEW s \in Seq(Segment), NEW t \in Int
  PROVE  /\ Leading(s, LAMBDA seg : seg.start <= t) \in 0 .. Len(s)
         /\ Leading(s, LAMBDA seg : seg.start < t) \in 0 .. Len(s)
  <1>1. ASSUME NEW Stop \in SUBSET (1 .. Len(s))
        PROVE  \E n \in 0 .. Len(s) :
                 /\ \A i \in 1 .. n : i \notin Stop
                 /\ n < Len(s) => n + 1 \in Stop
    <2>1. Len(s) \in Nat
      OBVIOUS
    <2> QED BY <2>1, StopsSomewhere
  <1>2. Leading(s, LAMBDA seg : seg.start <= t) \in 0 .. Len(s)
    <2> DEFINE Stop == {i \in 1 .. Len(s) : ~(s[i].start <= t)}
    <2>1. PICK n \in 0 .. Len(s) :
             (\A i \in 1 .. n : i \notin Stop) /\ (n < Len(s) => n + 1 \in Stop)
      <3>1. Stop \in SUBSET (1 .. Len(s))
        OBVIOUS
      <3> HIDE DEF Stop
      <3> QED BY <3>1, <1>1
    <2>2. /\ \A i \in 1 .. n : s[i].start <= t
          /\ n < Len(s) => ~(s[n + 1].start <= t)
      BY <2>1
    <2> QED BY <2>2 DEF Leading
  <1>3. Leading(s, LAMBDA seg : seg.start < t) \in 0 .. Len(s)
    <2> DEFINE Stop == {i \in 1 .. Len(s) : ~(s[i].start < t)}
    <2>1. PICK n \in 0 .. Len(s) :
             (\A i \in 1 .. n : i \notin Stop) /\ (n < Len(s) => n + 1 \in Stop)
      <3>1. Stop \in SUBSET (1 .. Len(s))
        OBVIOUS
      <3> HIDE DEF Stop
      <3> QED BY <3>1, <1>1
    <2>2. /\ \A i \in 1 .. n : s[i].start < t
          /\ n < Len(s) => ~(s[n + 1].start < t)
      BY <2>1
    <2> QED BY <2>2 DEF Leading
  <1> QED BY <1>2, <1>3

LEMMA NextSegmentInRange ==
  ASSUME NEW s \in Seq(Segment), NEW t \in Int
  PROVE  NextSegment(s, t) \in 0 .. Len(s)
  BY LeadingInRange DEF NextSegment

(* What is kept of a trajectory is a trajectory. *)
LEMMA KeptIsTrajectory ==
  ASSUME now \in Int, NEW prev \in Seq(Segment), NEW msgStart \in Int
  PROVE  KeptSegments(prev, msgStart) \in Seq(Segment)
  <1> DEFINE to   == Leading(prev, LAMBDA seg : seg.start < msgStart)
             here == Leading(prev, LAMBDA seg : seg.start <= now)
             from == IF to < here THEN to ELSE here
             m    == IF from = 0 THEN 1 ELSE from
  <1>1. to \in 0 .. Len(prev) /\ here \in 0 .. Len(prev)
    BY LeadingInRange
  <1>2. KeptSegments(prev, msgStart) = SubSeq(prev, m, to)
    BY DEF KeptSegments
  <1> HIDE DEF to, here
  <1>3. m \in Int /\ to \in Int /\ m >= 1 /\ to <= Len(prev)
    BY <1>1
  <1> HIDE DEF m
  <1>4. \A i \in m .. to : prev[i] \in Segment
    BY <1>3
  <1> QED BY <1>2, <1>3, <1>4, SubSeqProperties

LEMMA SampleIsPosition ==
  ASSUME NEW seg \in Segment, NEW t \in Int
  PROVE  Sample(seg, t) \in Int
  <1>1. seg.from \in Int /\ seg.to \in Int /\ seg.duration \in Nat
    BY DEF Segment
  <1>2. ASSUME NEW d \in Nat, d # 0, NEW n \in Int PROVE n \div d \in Int
    BY <1>2
  <1>3. (seg.to - seg.from) * t \in Int
    BY <1>1
  <1> QED BY <1>1, <1>2, <1>3 DEF Sample

(* The segments of the points of a goal: the last one ends when the last   *)
(* point is due.                                                           *)
LEMMA NewSegmentsFacts ==
  ASSUME NEW kept \in Seq(Segment), kept # <<>>, NEW msgStart \in Int,
         NEW points \in PointSeq, points # <<>>, NEW g \in Goal
  PROVE  LET new == NewSegments(kept, msgStart, points, g)
         IN  /\ new \in Seq(Segment)
             /\ Len(new) = Len(points) /\ Len(points) \in Nat \ {0}
             /\ \A i \in 1 .. Len(new) : new[i].goal = g
             /\ new[Len(new)].start + new[Len(new)].duration
                  = msgStart + points[Len(points)].time
             /\ msgStart + points[Len(points)].time \in Int
  <1> DEFINE new == NewSegments(kept, msgStart, points, g)
             origin == Sample(kept[Len(kept)], msgStart)
             N == Len(points)
             At(i) == IF i = 0 THEN [time |-> 0, pos |-> origin] ELSE points[i]
  <1>1. /\ N \in Nat \ {0} /\ DOMAIN points = 1 .. N
        /\ \A i \in 1 .. N : points[i].time \in Nat \ {0} /\ points[i].pos \in Int
        /\ \A i, j \in 1 .. N : i < j => points[i].time < points[j].time
    <2>1. PICK n \in Nat : points \in [1 .. n -> [time : Times, pos : Positions]]
      <3>1. \E n \in 0 .. MaxPoints :
               points \in [1 .. n -> [time : Times, pos : Positions]]
        BY DEF PointSeq
      <3>2. 0 .. MaxPoints \subseteq Nat
        BY ConstantsAssumption DEF ConstantsAssumption
      <3> QED BY <3>1, <3>2
    <2>2. n # 0
      BY <2>1
    <2>3. N = n /\ DOMAIN points = 1 .. n
      BY <2>1
    <2>4. \A i \in 1 .. n : points[i].time \in Times /\ points[i].pos \in Positions
      BY <2>1
    <2>5. \A i, j \in 1 .. n : i < j => points[i].time < points[j].time
      BY <2>3 DEF PointSeq
    <2> QED BY <2>1, <2>2, <2>3, <2>4, <2>5, ConstantsAssumption DEF ConstantsAssumption
  <1>2. origin \in Int
    <2>1. kept[Len(kept)] \in Segment
      OBVIOUS
    <2> QED BY <2>1, SampleIsPosition
  <1> HIDE DEF origin
  <1>3. /\ \A i \in 0 .. N : At(i).time \in Nat /\ At(i).pos \in Int
        /\ \A i \in 1 .. N : At(i - 1).time < At(i).time
        /\ At(N) = points[N]
    BY <1>1, <1>2
  <1>4. new = [i \in 1 .. N |->
                 [start |-> msgStart + At(i - 1).time,
                  duration |-> At(i).time - At(i - 1).time,
                  from |-> At(i - 1).pos, to |-> At(i).pos, goal |-> g]]
    BY DEF NewSegments, Lap, origin
  <1> HIDE DEF new, At, N
  <1>5. \A i \in 1 .. N : i - 1 \in 0 .. N /\ i \in 0 .. N
    BY <1>1
  <1>6. \A i \in 1 .. N :
          /\ msgStart + At(i - 1).time \in Int
          /\ At(i).time - At(i - 1).time \in Nat
          /\ At(i - 1).pos \in Int /\ At(i).pos \in Int
    BY <1>3, <1>5
  <1>7. new \in [1 .. N -> Segment]
    BY <1>4, <1>6 DEF Segment
  <1>8. new \in Seq(Segment) /\ Len(new) = N
    BY <1>1, <1>7
  <1>9. /\ \A i \in 1 .. N : new[i].goal = g
        /\ \A i \in 1 .. N : new[i].start = msgStart + At(i - 1).time
        /\ \A i \in 1 .. N : new[i].duration = At(i).time - At(i - 1).time
    BY <1>4
  <1>10. N \in 1 .. N /\ At(N).time \in Nat /\ At(N - 1).time \in Nat
    BY <1>1, <1>3, <1>5
  <1>11. new[N].start + new[N].duration = msgStart + At(N).time
    BY <1>9, <1>10
  <1> QED BY <1>1, <1>3, <1>8, <1>9, <1>10, <1>11 DEF new, N

LEMMA HereIsSegment ==
  ASSUME TypeOK
  PROVE  /\ now \in Int
         /\ HereAndNow \in Segment /\ HereAndNow.goal = NoGoal
         /\ ClearTrajectory \in Seq(Segment) /\ ClearTrajectory # <<>>
         /\ \A i \in 1 .. Len(ClearTrajectory) : ClearTrajectory[i].goal = NoGoal
  <1>1. now \in Int /\ odom.pos \in Int
    <2>1. Epoch \in Nat /\ MaxTime \in Nat /\ Positions \subseteq Int
      BY ConstantsAssumption DEF ConstantsAssumption
    <2>2. now \in Epoch .. (Epoch + MaxTime) /\ odom.pos \in Positions
      BY DEF TypeOK
    <2>3. \A x \in Epoch .. (Epoch + MaxTime) : x \in Int
      BY <2>1
    <2> QED BY <2>1, <2>2, <2>3
  <1>2. HereAndNow \in Segment /\ HereAndNow.goal = NoGoal
    BY <1>1 DEF HereAndNow, Segment
  <1> QED BY <1>1, <1>2 DEF ClearTrajectory

(* The spliced trajectory ends with the goal it was made for. *)
LEMMA SetTrajectoryFacts ==
  ASSUME TypeOK, NEW msgStart \in Int, NEW points \in PointSeq, points # <<>>,
         NEW g \in Goal
  PROVE  LET s == SetTrajectory(msgStart, points, g)
             end == msgStart + points[Len(points)].time
         IN  /\ s \in Seq(Segment) /\ s # <<>>
             /\ s[Len(s)].goal = g
             /\ EndTime(s) = end /\ end \in Int
  <1> DEFINE prev == IF traj = <<>> THEN ClearTrajectory ELSE traj
             kept == <<HereAndNow>> \o KeptSegments(prev, msgStart)
             new  == NewSegments(kept, msgStart, points, g)
  <1>1. prev \in Seq(Segment) /\ now \in Int /\ <<HereAndNow>> \in Seq(Segment)
    BY HereIsSegment DEF TypeOK
  <1>2. KeptSegments(prev, msgStart) \in Seq(Segment)
    BY <1>1, KeptIsTrajectory
  <1>3. kept \in Seq(Segment) /\ kept # <<>>
    BY <1>1, <1>2, ConcatProperties
  <1>4. SetTrajectory(msgStart, points, g) = kept \o new
    BY DEF SetTrajectory
  <1> HIDE DEF kept
  <1>5. /\ new \in Seq(Segment)
        /\ Len(new) \in Nat \ {0}
        /\ new[Len(new)].goal = g
        /\ new[Len(new)].start + new[Len(new)].duration
             = msgStart + points[Len(points)].time
        /\ msgStart + points[Len(points)].time \in Int
    <2>1. /\ new \in Seq(Segment)
          /\ Len(new) = Len(points) /\ Len(points) \in Nat \ {0}
          /\ \A i \in 1 .. Len(new) : new[i].goal = g
          /\ new[Len(new)].start + new[Len(new)].duration
               = msgStart + points[Len(points)].time
          /\ msgStart + points[Len(points)].time \in Int
      BY <1>3, NewSegmentsFacts
    <2> HIDE DEF new
    <2>2. Len(new) \in 1 .. Len(new)
      BY <2>1
    <2> QED BY <2>1, <2>2
  <1> HIDE DEF new
  <1>6. /\ kept \o new \in Seq(Segment)
        /\ Len(kept \o new) = Len(kept) + Len(new)
        /\ (kept \o new)[Len(kept) + Len(new)] = new[Len(new)]
    BY <1>3, <1>5, ConcatProperties
  <1>7. kept \o new # <<>>
    BY <1>3, <1>5, <1>6
  <1> QED BY <1>4, <1>5, <1>6, <1>7 DEF EndTime
-----------------------------------------------------------------------------
(* The trajectory in force ends with the current goal, when that is due,   *)
(* or has nothing of it: then the goal had no points.                      *)
EndsWithCurrent ==
  active # NoGoal =>
    /\ traj # <<>>
    /\ \/ traj[Len(traj)].goal = active /\ EndTime(traj) = goalEnd[active]
       \/ \A i \in 1 .. Len(traj) : traj[i].goal # active

LEMMA CancelingIsTyped ==
  ASSUME TypeOK
  PROVE  /\ CancelsRunningGoal(status) \in [Goal -> Statuses]
         /\ \A g \in Goal : CancelsRunningGoal(status)[g] \in {status[g], "preempted"}
  <1>1. "preempted" \in Statuses \ Live
    BY DEF Statuses, Live
  <1>2. status \in [Goal -> Statuses] /\ active \in Goal \cup {NoGoal}
    BY DEF TypeOK, Statuses
  <1>3. \A g \in Goal : g = active => active # NoGoal
    BY GoalFacts
  <1> QED BY <1>1, <1>2, <1>3, TerminatedFacts DEF CancelsRunningGoal, SetCanceled

LEMMA AcceptedIsTyped ==
  ASSUME TypeOK, NEW g \in Goal, NEW offset \in (0 - MaxPast) .. MaxFuture,
         NEW points \in PointSeq, GoalAccepted(g, now + offset, points)
  PROVE  /\ status' \in [Goal -> Statuses] /\ active' \in Goal
         /\ traj' \in Seq(Segment) /\ goalEnd' \in [Goal -> Int]
         /\ EndsWithCurrent'
  <1>1. status' \in [Goal -> Statuses] /\ active' = g /\ g # NoGoal
    BY CancelingIsTyped, GoalFacts DEF GoalAccepted, SetAccepted, Statuses
  <1>2. CASE points = <<>>
    <2>1. traj' = ClearTrajectory /\ goalEnd' = goalEnd
      BY <1>2 DEF GoalAccepted
    <2>2. EndsWithCurrent'
      BY <1>1, <2>1, HereIsSegment DEF EndsWithCurrent
    <2> QED BY <1>1, <2>1, <2>2, HereIsSegment DEF TypeOK
  <1>3. CASE points # <<>>
    <2> DEFINE end == (now + offset) + points[Len(points)].time
    <2>1. traj' = SetTrajectory(now + offset, points, g)
          /\ goalEnd' = [goalEnd EXCEPT ![g] = end]
      BY <1>3 DEF GoalAccepted
    <2>2. now + offset \in Int
      <3>1. offset \in Int
        BY ConstantsAssumption DEF ConstantsAssumption
      <3> QED BY <3>1, HereIsSegment
    <2>3. /\ traj' \in Seq(Segment) /\ traj' # <<>>
          /\ traj'[Len(traj')].goal = g
          /\ EndTime(traj') = end /\ end \in Int
      BY <1>3, <2>1, <2>2, SetTrajectoryFacts
    <2> HIDE DEF end
    <2>4. goalEnd' \in [Goal -> Int] /\ goalEnd'[g] = end
      BY <2>1, <2>3 DEF TypeOK
    <2>5. EndsWithCurrent'
      BY <1>1, <2>3, <2>4 DEF EndsWithCurrent, EndTime
    <2> QED BY <1>1, <2>3, <2>4, <2>5
  <1> QED BY <1>2, <1>3

DueInv == TypeOK /\ EndsWithCurrent

LEMMA GoalCallbackTyped ==
  ASSUME DueInv, GoalCallback PROVE DueInv'
  <1> DEFINE g == sent + 1
  <1>1. /\ g \in Goal /\ sent' = g /\ sent' \in 0 .. MaxGoals
        /\ UNCHANGED <<now, odom, command, fault>>
    <2>1. MaxGoals \in Nat
      BY ConstantsAssumption DEF ConstantsAssumption
    <2> QED BY <2>1 DEF GoalCallback, DueInv, TypeOK, Goal
  <1>2. CASE \/ GoalWithOtherJoints(g) \/ GoalWithBadSizes(g)
    <2>1. status' \in [Goal -> Statuses] /\ UNCHANGED <<goalEnd, active, traj>>
      BY <1>1, <1>2, CancelingIsTyped
      DEF GoalWithOtherJoints, GoalWithBadSizes, SetRejected, DueInv, TypeOK, Statuses
    <2> QED BY <1>1, <2>1 DEF DueInv, TypeOK, EndsWithCurrent, Statuses, EndTime
  <1>3. CASE \E offset \in (0 - MaxPast) .. MaxFuture, points \in PointSeq :
               GoalAccepted(g, now + offset, points)
    <2>1. /\ status' \in [Goal -> Statuses] /\ active' \in Goal
          /\ traj' \in Seq(Segment) /\ goalEnd' \in [Goal -> Int]
          /\ EndsWithCurrent'
      BY <1>1, <1>3, AcceptedIsTyped DEF DueInv
    <2> QED BY <1>1, <2>1 DEF DueInv, TypeOK, Statuses
  <1> QED BY <1>2, <1>3 DEF GoalCallback

(* The segment of the current goal ends when the goal is due. *)
LEMMA UpdateKnowsTheEnd ==
  ASSUME DueInv, Update
  PROVE  EndTime(traj) = goalEnd[active] /\ active \in Goal
         /\ command' = active
  <1>1. NextSegment(traj, now) \in 0 .. Len(traj)
    BY NextSegmentInRange, HereIsSegment DEF DueInv, TypeOK
  <1>2. /\ NextSegment(traj, now) # 0
        /\ traj[NextSegment(traj, now)].goal = active
    BY DEF Update, OwnSegment
  <1>3. NextSegment(traj, now) \in 1 .. Len(traj)
    BY <1>1, <1>2
  <1>4. active # NoGoal /\ command' = traj[NextSegment(traj, now)].goal
    BY DEF Update
  <1> QED BY <1>2, <1>3, <1>4 DEF DueInv, TypeOK, EndsWithCurrent

LEMMA UpdateTyped ==
  ASSUME DueInv, Update PROVE DueInv'
  <1>1. UNCHANGED <<now, odom, sent, goalEnd, traj, fault>> /\ command' \in Goal
    BY UpdateKnowsTheEnd DEF Update
  <1>2. /\ status' \in [Goal -> Statuses]
        /\ active' = active \/ active' = NoGoal
    <2>1. {"succeeded", "aborted"} \subseteq Statuses \ Live
      BY DEF Statuses, Live
    <2>2. status \in [Goal -> Statuses] /\ active \in Goal \cup {NoGoal}
      BY DEF DueInv, TypeOK, Statuses
    <2> QED BY <2>1, <2>2, TerminatedFacts
        DEF Update, Conclude, SetSucceeded, SetAborted
  <1>3. EndsWithCurrent'
    BY <1>1, <1>2 DEF DueInv, EndsWithCurrent, EndTime
  <1> QED BY <1>1, <1>2, <1>3 DEF DueInv, TypeOK, Statuses

LEMMA OthersTyped ==
  ASSUME DueInv, CancelCallback \/ OdomCallback \/ Tick \/ UNCHANGED vars
  PROVE  DueInv'
  <1> USE DEF DueInv
  <1>1. UNCHANGED <<sent, goalEnd, active, traj, command>>
    BY DEF CancelCallback, OdomCallback, Tick, vars, goalVars
  <1>2. EndsWithCurrent'
    BY <1>1 DEF EndsWithCurrent, EndTime
  <1>3. Epoch \in Nat /\ MaxTime \in Nat
    BY ConstantsAssumption DEF ConstantsAssumption
  <1>4. CASE CancelCallback
    <2>1. status' \in [Goal -> Statuses] /\ UNCHANGED <<now, odom>>
          /\ fault' \in {"none", "empty_points"}
      BY <1>4 DEF CancelCallback, TypeOK, Statuses
    <2> QED BY <1>1, <1>2, <2>1 DEF TypeOK, Statuses
  <1>5. CASE OdomCallback
    <2>1. odom' \in [stamp : Epoch .. now, pos : Positions, moving : BOOLEAN]
      <3>1. odom' \in [stamp : odom.stamp .. now, pos : Positions, moving : BOOLEAN]
        BY <1>5 DEF OdomCallback
      <3>2. odom.stamp \in Epoch .. now /\ now \in Int
        BY HereIsSegment DEF TypeOK
      <3>3. odom.stamp .. now \subseteq Epoch .. now
        BY <1>3, <3>2
      <3> QED BY <3>1, <3>3
    <2>2. UNCHANGED <<now, status, fault>>
      BY <1>5 DEF OdomCallback, goalVars
    <2> QED BY <1>1, <1>2, <2>1, <2>2 DEF TypeOK
  <1>6. CASE Tick
    <2>1. now' \in Epoch .. (Epoch + MaxTime) /\ Epoch .. now \subseteq Epoch .. now'
      BY <1>3, <1>6 DEF Tick, TypeOK
    <2>2. UNCHANGED <<odom, status, fault>>
      BY <1>6 DEF Tick, goalVars
    <2>3. odom' \in [stamp : Epoch .. now', pos : Positions, moving : BOOLEAN]
      BY <2>1, <2>2 DEF TypeOK
    <2> QED BY <1>1, <1>2, <2>1, <2>2, <2>3 DEF TypeOK
  <1>7. CASE UNCHANGED vars
    BY <1>2, <1>7 DEF TypeOK, vars
  <1> QED BY <1>4, <1>5, <1>6, <1>7

LEMMA InitTyped == Init => DueInv
  <1> SUFFICES ASSUME Init PROVE DueInv
    OBVIOUS
  <1>1. Epoch \in Nat /\ MaxTime \in Nat /\ MaxGoals \in Nat
    BY ConstantsAssumption DEF ConstantsAssumption
  <1>2. odom \in [stamp : Epoch .. now, pos : Positions, moving : BOOLEAN]
    <2>1. {Epoch} \subseteq Epoch .. now
      BY <1>1 DEF Init
    <2> QED BY <2>1 DEF Init
  <1>3. traj \in Seq(Segment)
    BY DEF Init
  <1> QED BY <1>1, <1>2, <1>3 DEF Init, DueInv, TypeOK, EndsWithCurrent

THEOREM DueInvariance == Spec => []DueInv
  <1>1. Init => DueInv
    BY InitTyped
  <1>2. DueInv /\ [Next]_vars => DueInv'
    BY GoalCallbackTyped, UpdateTyped, OthersTyped DEF Next
  <1> QED BY <1>1, <1>2, PTL DEF Spec

(* The state has its types: a spliced trajectory is a sequence of segments *)
(* of nonnegative duration, whatever was kept of earlier trajectories.     *)
THEOREM TypeCorrect == Spec => []TypeOK
  BY DueInvariance, PTL DEF DueInv

LEMMA ConclusionIsDue ==
  ASSUME DueInv, [Next]_vars, NEW g \in Goal, status[g] \in Live,
         status'[g] \in {"succeeded", "aborted"}
  PROVE  /\ now > goalEnd[g]
         /\ status'[g] = "aborted" => now >= goalEnd[g] + GoalTimeConstraint
  <1>1. status \in [Goal -> Statuses] /\ active \in Goal \cup {NoGoal}
    BY DEF DueInv, TypeOK, Statuses
  <1>2. status'[g] # status[g]
    BY DEF Live
  <1>3. CASE GoalCallback
    <2>1. \A h \in Goal : CancelsRunningGoal(status)[h] \in {status[h], "preempted"}
          /\ CancelsRunningGoal(status) \in [Goal -> Statuses]
      BY CancelingIsTyped DEF DueInv
    <2>2. status'[g] \in {status[g], "preempted", "rejected", "active"}
      BY <1>1, <1>3, <2>1
      DEF GoalCallback, GoalAccepted, GoalWithOtherJoints, GoalWithBadSizes,
          SetAccepted, SetRejected
    <2> QED BY <1>2, <2>2
  <1>4. CASE CancelCallback
    BY <1>1, <1>2, <1>4 DEF CancelCallback
  <1>5. CASE Update
    <2>1. EndTime(traj) = goalEnd[active] /\ active \in Goal
      BY <1>5, UpdateKnowsTheEnd
    <2>2. {"succeeded", "aborted"} \subseteq Statuses \ Live
      BY DEF Statuses, Live
    <2>3. g = active
      BY <1>1, <1>2, <1>5, <2>1, <2>2, TerminatedFacts
      DEF Update, Conclude, SetSucceeded, SetAborted
    <2>4. now > EndTime(traj)
      BY <1>2, <1>5 DEF Update, Conclude
    <2>5. status'[g] = "aborted" => now >= EndTime(traj) + GoalTimeConstraint
      BY <1>1, <1>2, <1>5, <2>1, <2>3
      DEF Update, Conclude, SetSucceeded, Terminated
    <2> QED BY <2>1, <2>3, <2>4, <2>5
  <1>6. CASE OdomCallback \/ Tick \/ UNCHANGED vars
    BY <1>2, <1>6 DEF OdomCallback, Tick, vars, goalVars
  <1> QED BY <1>3, <1>4, <1>5, <1>6 DEF Next

(* update concludes a goal only when that goal's own trajectory is over,   *)
(* although the segments in force were spliced from several trajectories,  *)
(* and aborts it only when goal_time_constraint is over as well.           *)
THEOREM ConclusionsAreDue == Spec => ConcludesAfterEnd
  <1>1. DueInv /\ [Next]_vars =>
          [\A g \in Goal :
             /\ status[g] \in Live /\ status'[g] \in {"succeeded", "aborted"}
                  => now > goalEnd[g]
             /\ status[g] \in Live /\ status'[g] = "aborted"
                  => now >= goalEnd[g] + GoalTimeConstraint]_vars
    BY ConclusionIsDue
  <1> QED BY <1>1, DueInvariance, PTL DEF Spec, ConcludesAfterEnd
=============================================================================
