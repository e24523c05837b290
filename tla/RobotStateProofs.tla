-------------------------- MODULE RobotStateProofs --------------------------
(***************************************************************************)
(* Proofs about RobotState: for every number of particles and of launches  *)
(* and every bound, what the nodes for odometry publish is exact, the      *)
(* particle filters apply a motion once, the bridge to roseus keeps the    *)
(* order of both directions, and a mail that is sent is whole.             *)
(*                                                                         *)
(* The components share no state: each has an inductive invariant of its   *)
(* own, and a step of the composition is a step of each or leaves it as it *)
(* is.                                                                     *)
(***************************************************************************)
EXTENDS RobotState, Sequences, FiniteSetTheorems, WellFoundedInduction, TLAPS

(***************************************************************************)
(* Counting up.                                                            *)
(***************************************************************************)

(* A set of numbers that is not empty has a least one.                     *)
LEMMA LeastExists ==
  ASSUME NEW T \in SUBSET Nat, T # {}
  PROVE  \E n \in T : \A m \in T : n <= m
<1>. DEFINE R == OpToRel(<, Nat)
<1>1. IsWellFoundedOn(R, Nat)
  BY NatLessThanWellFounded
<1>2. \A x, y \in Nat : y < x => <<y, x>> \in R
  BY DEF OpToRel
<1>. HIDE DEF R
<1>3. PICK n \in T : \A m \in T : ~(<<m, n>> \in R)
  BY <1>1, WFMin
<1>4. \A m \in T : n <= m
  <2>. SUFFICES ASSUME NEW m \in T, ~(n <= m) PROVE FALSE
    OBVIOUS
  <2>1. m \in Nat /\ n \in Nat /\ m < n
    OBVIOUS
  <2>. QED  BY <2>1, <1>2, <1>3
<1>. QED  BY <1>4

(* A set that holds 0 and with a number below N the next one holds all of  *)
(* them up to N.                                                           *)
LEMMA CountUp ==
  ASSUME NEW N \in Nat, NEW S, 0 \in S,
         \A n \in 0 .. N : n \in S /\ n # N => n + 1 \in S
  PROVE  \A n \in 0 .. N : n \in S
<1>. DEFINE T == {n \in 0 .. N : n \notin S}
<1>. SUFFICES ASSUME T # {} PROVE FALSE
  OBVIOUS
<1>. HIDE DEF T
<1>0. T \in SUBSET Nat
  BY DEF T
<1>1. PICK n \in T : \A m \in T : n <= m
  BY <1>0, LeastExists
<1>. USE DEF T
<1>2. n \in 0 .. N /\ n # 0
  OBVIOUS
<1>3. n - 1 \in 0 .. N /\ n - 1 # N /\ n - 1 + 1 = n
  BY <1>2
<1>4. n - 1 \in S
  BY <1>1, <1>2, <1>3
<1>. QED  BY <1>1, <1>3, <1>4

(* A function that is defined by recursion over 0 .. N exists.             *)
IsStep(step, N, A) == \A n \in 1 .. N, a \in A : step[<<n, a>>] \in A
Solves(g, N, b, step) == g[0] = b /\ \A n \in 1 .. N : g[n] = step[<<n, g[n - 1]>>]

LEMMA RecursionHasSolution ==
  ASSUME NEW N \in Nat, NEW A, NEW b \in A, NEW step, IsStep(step, N, A)
  PROVE  \E g \in [0 .. N -> A] : Solves(g, N, b, step)
<1>. USE DEF IsStep, Solves
<1>. DEFINE S == {k \in 0 .. N : \E g \in [0 .. k -> A] : Solves(g, k, b, step)}
<1>1. 0 \in S
  <2>. DEFINE first == [n \in 0 .. 0 |-> b]
  <2>1. first \in [0 .. 0 -> A] /\ first[0] = b
    OBVIOUS
  <2>2. 1 .. 0 = {} /\ 0 \in 0 .. N
    OBVIOUS
  <2>. HIDE DEF first
  <2>. QED  BY <2>1, <2>2
<1>2. ASSUME NEW k \in 0 .. N, k \in S, k # N PROVE k + 1 \in S
  <2>1. PICK g \in [0 .. k -> A] : Solves(g, k, b, step)
    BY <1>2
  <2>2. k + 1 \in 1 .. N /\ k \in 0 .. k
    BY <1>2
  <2>3. g[k] \in A
    BY <2>2
  <2>4. step[<<k + 1, g[k]>>] \in A
    BY <2>2, <2>3
  <2>. DEFINE h == [n \in 0 .. k + 1 |-> IF n = k + 1 THEN step[<<k + 1, g[k]>>] ELSE g[n]]
  <2>5. h \in [0 .. k + 1 -> A]
    BY <2>4
  <2>6. h[0] = b
    BY <2>1
  <2>7. ASSUME NEW n \in 1 .. k + 1 PROVE h[n] = step[<<n, h[n - 1]>>]
    <3>1. CASE n = k + 1
      <4>1. n - 1 = k /\ k # k + 1 /\ k \in 0 .. k + 1 /\ n \in 0 .. k + 1
        BY <3>1
      <4>2. h[k] = g[k] /\ h[n] = step[<<k + 1, g[k]>>]
        BY <3>1, <4>1
      <4>. HIDE DEF h
      <4>. QED  BY <3>1, <4>1, <4>2
    <3>2. CASE n # k + 1
      <4>1. n \in 1 .. k /\ n - 1 \in 0 .. k /\ n - 1 # k + 1
        BY <3>2
      <4>2. h[n] = g[n] /\ h[n - 1] = g[n - 1]
        BY <3>2, <4>1
      <4>. QED  BY <2>1, <4>1, <4>2
    <3>. QED  BY <3>1, <3>2
  <2>8. k + 1 \in 0 .. N
    BY <2>2
  <2>. HIDE DEF h
  <2>. QED  BY <2>5, <2>6, <2>7, <2>8
<1>3. N \in S
  <2>. HIDE DEF S
  <2>1. \A n \in 0 .. N : n \in S /\ n # N => n + 1 \in S
    BY <1>2
  <2>2. \A n \in 0 .. N : n \in S
    BY <1>1, <2>1, CountUp
  <2>. QED  BY <2>2
<1>. QED  BY <1>3

(***************************************************************************)
(* Poses: they are a group, and the same one in every component.           *)
(***************************************************************************)
LEMMA PoseParts ==
  ASSUME NEW p \in Pose
  PROVE  p.x \in Int /\ p.s \in {1, -1} /\ p = [x |-> p.x, s |-> p.s]
BY DEF Pose

LEMMA SamePose ==
  ASSUME NEW p \in Pose, NEW q \in Pose, p.x = q.x, p.s = q.s
  PROVE  p = q
BY DEF Pose

LEMMA FacingIs ==
  ASSUME NEW s \in {1, -1}, NEW x \in Int
  PROVE  Facing(s, x) \in Int /\ (x \in {1, -1} => Facing(s, x) \in {1, -1})
BY DEF Facing

LEMMA ComposeIsPose ==
  ASSUME NEW p \in Pose, NEW q \in Pose
  PROVE  Compose(p, q) \in Pose /\ Invert(p) \in Pose
BY FacingIs DEF Pose, Compose, Invert, Facing

LEMMA Associates ==
  ASSUME NEW p \in Pose, NEW q \in Pose, NEW r \in Pose
  PROVE  Compose(Compose(p, q), r) = Compose(p, Compose(q, r))
BY DEF Pose, Compose, Facing

LEMMA Undoes ==
  ASSUME NEW p \in Pose, NEW q \in Pose
  PROVE  /\ Compose(Invert(p), Compose(p, q)) = q
         /\ Compose(p, Compose(Invert(p), q)) = q
         /\ Invert(Invert(p)) = p
<1>1. /\ p.x \in Int /\ p.s \in {1, -1} /\ p = [x |-> p.x, s |-> p.s]
      /\ q.x \in Int /\ q.s \in {1, -1} /\ q = [x |-> q.x, s |-> q.s]
  BY PoseParts
<1>. QED  BY <1>1 DEF Compose, Invert, Facing

LEMMA InvertsBackwards ==
  ASSUME NEW p \in Pose, NEW q \in Pose
  PROVE  Invert(Compose(p, q)) = Compose(Invert(q), Invert(p))
BY DEF Pose, Compose, Invert, Facing

LEMMA NamedPoses ==
  /\ Origin \in Pose /\ Ahead \in Pose /\ Around \in Pose
  /\ \A p \in Pose : Compose(Origin, p) = p /\ Compose(p, Origin) = p
<1>1. Origin \in Pose /\ Ahead \in Pose /\ Around \in Pose
  BY DEF Origin, Ahead, Around, Pose
<1>2. ASSUME NEW p \in Pose PROVE Compose(Origin, p) = p /\ Compose(p, Origin) = p
  <2>1. p.x \in Int /\ p.s \in {1, -1} /\ p = [x |-> p.x, s |-> p.s]
    BY PoseParts
  <2>. QED  BY <2>1 DEF Origin, Compose, Facing
<1>. QED  BY <1>1, <1>2

(* Poses that look up the line commute.                                    *)
LEMMA StraightPosesCommute ==
  ASSUME NEW p \in Pose, NEW q \in Pose, p.s = 1, q.s = 1
  PROVE  Compose(p, q) = Compose(q, p)
BY DEF Pose, Compose, Facing

LEMMA WrapperPoses ==
  /\ Wrapper!Pose = Pose /\ Wrapper!Origin = Origin
  /\ Wrapper!Ahead = Ahead /\ Wrapper!Around = Around
  /\ \A p, q : Wrapper!Compose(p, q) = Compose(p, q) /\ Wrapper!Facing(p, q) = Facing(p, q)
  /\ \A p : Wrapper!Invert(p) = Invert(p)
BY DEF Pose, Origin, Ahead, Around, Compose, Facing, Invert, Wrapper!Pose, Wrapper!Origin,
       Wrapper!Ahead, Wrapper!Around, Wrapper!Compose, Wrapper!Facing, Wrapper!Invert

LEMMA OffsetPoses ==
  /\ Offset!Origin = Origin /\ Offset!Ahead = Ahead /\ Offset!Around = Around
  /\ \A p, q : Offset!Compose(p, q) = Compose(p, q)
  /\ \A p : Offset!Invert(p) = Invert(p)
BY DEF Origin, Ahead, Around, Compose, Facing, Invert, Offset!Origin, Offset!Ahead,
       Offset!Around, Offset!Compose, Offset!Facing, Offset!Invert

LEMMA TfPoses ==
  /\ Tf!Origin = Origin /\ Tf!Ahead = Ahead /\ Tf!Around = Around
  /\ \A p, q : Tf!Compose(p, q) = Compose(p, q)
  /\ \A p : Tf!Invert(p) = Invert(p)
BY DEF Origin, Ahead, Around, Compose, Facing, Invert, Tf!Origin, Tf!Ahead, Tf!Around,
       Tf!Compose, Tf!Facing, Tf!Invert

(***************************************************************************)
(* OdometryFeedbackWrapper.                                                *)
(***************************************************************************)
Msgs == [pose : Pose, stamp : Nat, twist : Pose]

(* A message says where the robot was at its stamp.                        *)
IsTrue(m) ==
  /\ m \in Msgs /\ m.stamp <= Wrapper!Clock
  /\ m.pose = Wrapper!Truth(m.stamp) /\ m.twist = Wrapper!TwistAt(m.stamp)

(* In a unit of time the robot goes ahead or turns, but not both.          *)
MovesInSteps ==
  \A t \in 1 .. Wrapper!Clock : Wrapper!TwistAt(t) \in {Ahead, Around}

(* The history is in the order of its stamps, with the twists of the robot *)
(* and none later than the last source message.                            *)
HistoryIsOrdered ==
  /\ history \in Seq(Msgs)
  /\ history # <<>> => sourceOdom # NoMsg
  /\ \A i \in 1 .. Len(history) :
       /\ history[i].twist = Wrapper!TwistAt(history[i].stamp)
       /\ history[i].stamp <= sourceOdom.stamp
  /\ \A i, j \in 1 .. Len(history) : i < j => history[i].stamp < history[j].stamp

WrapperInv ==
  /\ path \in Seq(Pose) /\ slip \in Pose /\ offset \in Pose
  /\ MovesInSteps
  /\ sourceOdom # NoMsg => sourceOdom \in Msgs /\ sourceOdom.stamp <= Wrapper!Clock
  /\ wrapOdom # NoMsg =>
       wrapOdom \in Msgs /\ sourceOdom # NoMsg /\ wrapOdom.stamp = sourceOdom.stamp
  /\ Wrapper!OffsetIsCurrent
  /\ HistoryIsOrdered
  /\ feedbackPc = "merge" /\ feedbackOdom # NoMsg => IsTrue(feedbackOdom)

LEMMA UpdateIsPose ==
  ASSUME NEW p \in Pose, NEW s \in {1, -1}, NEW twist \in Pose, NEW dt \in Int
  PROVE  /\ Wrapper!UpdatePose(p, s, twist, dt) \in Pose
         /\ Wrapper!UpdatePose(p, s, twist, 0) = p
         /\ Wrapper!UpdatePose(p, s, twist, 1) =
              [x |-> p.x + Facing(s, twist.x), s |-> Facing(p.s, twist.s)]
<1>1. /\ p.x \in Int /\ p.s \in {1, -1} /\ p = [x |-> p.x, s |-> p.s]
      /\ twist.x \in Int /\ twist.s \in {1, -1}
  BY PoseParts
<1>2. ASSUME NEW d \in Int
      PROVE  /\ Wrapper!UpdatePose(p, s, twist, d) =
                  [x |-> p.x + Facing(s, twist.x) * d,
                   s |-> Facing(p.s, Wrapper!Turns(twist.s, d))]
             /\ Wrapper!Turns(twist.s, d) \in {1, -1}
  BY <1>1, WrapperPoses DEF Wrapper!UpdatePose, Wrapper!Turns
<1>3. Facing(s, twist.x) \in Int
  BY <1>1, FacingIs
<1>4. Wrapper!UpdatePose(p, s, twist, dt) \in Pose
  <2>1. p.x + Facing(s, twist.x) * dt \in Int
    BY <1>1, <1>3
  <2>2. Facing(p.s, Wrapper!Turns(twist.s, dt)) \in {1, -1}
    BY <1>1, <1>2, FacingIs
  <2>. QED  BY <1>2, <2>1, <2>2 DEF Pose
<1>5. Wrapper!Turns(twist.s, 0) = 1 /\ Wrapper!Turns(twist.s, 1) = twist.s
  BY DEF Wrapper!Turns
<1>6. Wrapper!UpdatePose(p, s, twist, 0) = p
  <2>1. Facing(s, twist.x) * 0 = 0 /\ Facing(p.s, 1) = p.s
    BY <1>1, <1>3 DEF Facing
  <2>. QED  BY <1>1, <1>2, <1>5, <2>1
<1>7. Wrapper!UpdatePose(p, s, twist, 1) =
        [x |-> p.x + Facing(s, twist.x), s |-> Facing(p.s, twist.s)]
  <2>1. Facing(s, twist.x) * 1 = Facing(s, twist.x)
    BY <1>3
  <2>. QED  BY <1>2, <1>5, <2>1
<1>. QED  BY <1>4, <1>6, <1>7

(* A unit of time with the twist of the robot takes the heading to where   *)
(* it is then, and the pose if the heading at the end is right too.        *)
LEMMA UpdateByOne ==
  ASSUME NEW p \in Pose, NEW here \in Pose, NEW twist \in {Ahead, Around}, NEW s \in {1, -1},
         p.s = here.s
  PROVE  LET there == Compose(here, twist)
             q == Wrapper!UpdatePose(p, s, twist, 1)
         IN q.s = there.s /\ (p = here /\ s = there.s => q = there)
<1>1. twist \in Pose /\ 1 \in Int
  BY NamedPoses
<1>2. /\ p.x \in Int /\ p.s \in {1, -1} /\ here.x \in Int /\ here.s \in {1, -1}
  BY PoseParts
<1>3. Wrapper!UpdatePose(p, s, twist, 1) =
        [x |-> p.x + Facing(s, twist.x), s |-> Facing(p.s, twist.s)]
  BY <1>1, UpdateIsPose
<1>4. CASE twist = Ahead
  BY <1>2, <1>3, <1>4 DEF Ahead, Compose, Facing
<1>5. CASE twist = Around
  BY <1>2, <1>3, <1>5 DEF Around, Compose, Facing
<1>. QED  BY <1>4, <1>5

LEMMA AlongIsMessage ==
  ASSUME NEW m \in Msgs, NEW h \in Msgs
  PROVE  /\ Wrapper!Along(m, h) \in Msgs
         /\ h.stamp > m.stamp =>
              Wrapper!Along(m, h) =
                [pose |-> Wrapper!UpdatePose(m.pose, h.pose.s, h.twist, h.stamp - m.stamp),
                 stamp |-> h.stamp, twist |-> h.twist]
<1>1. /\ h.stamp \in Nat /\ h.twist \in Pose /\ h.pose \in Pose
      /\ m.stamp \in Nat /\ m.pose \in Pose
  BY DEF Msgs
<1>2. h.pose.s \in {1, -1}
  BY <1>1, PoseParts
<1>3. Wrapper!UpdatePose(m.pose, h.pose.s, h.twist, h.stamp - m.stamp) \in Pose
  <2>1. PICK p \in Pose, s \in {1, -1}, twist \in Pose, dt \in Int :
          p = m.pose /\ s = h.pose.s /\ twist = h.twist /\ dt = h.stamp - m.stamp
    BY <1>1, <1>2
  <2>2. Wrapper!UpdatePose(p, s, twist, dt) \in Pose
    BY UpdateIsPose
  <2>. QED  BY <2>1, <2>2
<1>. QED  BY <1>1, <1>3 DEF Msgs, Wrapper!Along

(* What CarriedForward makes of a message, as a function.                  *)
LEMMA AlongExists ==
  ASSUME history \in Seq(Msgs), NEW f \in Msgs
  PROVE  \E g \in [0 .. Len(history) -> Msgs] :
           /\ g[0] = f
           /\ \A n \in 1 .. Len(history) : g[n] = Wrapper!Along(g[n - 1], history[n])
           /\ LET last == g[Len(history)]
              IN Wrapper!CarriedForward(f) =
                   Wrapper!UpdatePose(last.pose, last.pose.s, last.twist,
                                      wrapOdom.stamp - last.stamp)
<1>. DEFINE N == Len(history)
            step == [x \in (1 .. N) \X Msgs |-> Wrapper!Along(x[2], history[x[1]])]
            Recursive(a) ==
              a = [n \in 0 .. N |-> IF n = 0 THEN f ELSE Wrapper!Along(a[n - 1], history[n])]
            along == CHOOSE a : Recursive(a)
<1>1. N \in Nat
  OBVIOUS
<1>2. ASSUME NEW n \in 1 .. N, NEW m \in Msgs PROVE Wrapper!Along(m, history[n]) \in Msgs
  <2>1. history[n] \in Msgs
    OBVIOUS
  <2>. QED  BY <2>1, AlongIsMessage
<1>3. \A n \in 1 .. N, m \in Msgs : step[<<n, m>>] = Wrapper!Along(m, history[n])
  OBVIOUS
<1>4. \A n \in 1 .. N, m \in Msgs : step[<<n, m>>] \in Msgs
  BY <1>2, <1>3
<1>. HIDE DEF step, N
<1>5. PICK a \in [0 .. N -> Msgs] : a[0] = f /\ \A n \in 1 .. N : a[n] = step[<<n, a[n - 1]>>]
  <2>1. IsStep(step, N, Msgs)
    BY <1>4 DEF IsStep
  <2>2. \E a \in [0 .. N -> Msgs] : Solves(a, N, f, step)
    BY <1>1, <2>1, RecursionHasSolution
  <2>. QED  BY <2>2 DEF Solves
<1>. USE DEF N
<1>6. \A n \in 1 .. N : a[n] = Wrapper!Along(a[n - 1], history[n])
  <2>. TAKE n \in 1 .. N
  <2>1. a[n - 1] \in Msgs
    BY <1>1
  <2>. QED  BY <2>1, <1>3, <1>5
<1>7. Recursive(a)
  <2>1. \A n \in 0 .. N : a[n] = IF n = 0 THEN f ELSE Wrapper!Along(a[n - 1], history[n])
    BY <1>5, <1>6
  <2>. QED  BY <2>1
<1>8. Recursive(along)
  BY <1>7
<1>9. Wrapper!CarriedForward(f) =
        Wrapper!UpdatePose(along[N].pose, along[N].pose.s, along[N].twist,
                           wrapOdom.stamp - along[N].stamp)
  BY DEF Wrapper!CarriedForward
<1>. HIDE DEF along
<1>10. along[0] = f /\ \A n \in 1 .. N : along[n] = Wrapper!Along(along[n - 1], history[n])
  BY <1>8, <1>1
<1>11. along \in [0 .. N -> Msgs]
  <2>. DEFINE S == {n \in 0 .. N : along[n] \in Msgs}
  <2>1. 0 \in S
    BY <1>10, <1>1
  <2>2. ASSUME NEW n \in 0 .. N, n \in S, n # N PROVE n + 1 \in S
    <3>1. n + 1 \in 1 .. N /\ n + 1 - 1 = n
      BY <2>2, <1>1
    <3>. QED  BY <2>2, <3>1, <1>2, <1>10
  <2>. HIDE DEF S
  <2>3. \A n \in 0 .. N : n \in S
    BY <1>1, <2>1, <2>2, CountUp
  <2>4. \A n \in 0 .. N : along[n] \in Msgs
    BY <2>3 DEF S
  <2>5. along = [n \in 0 .. N |-> along[n]]
    BY <1>8
  <2>. QED  BY <2>4, <2>5
<1>. QED  BY <1>9, <1>10, <1>11

LEMMA TruthIsPose ==
  ASSUME path \in Seq(Pose), NEW u \in 0 .. Wrapper!Clock
  PROVE  Wrapper!Truth(u) \in Pose /\ Wrapper!TwistAt(u) \in Pose
<1>1. Len(path) \in Nat /\ u \in 0 .. Len(path)
  BY DEF Wrapper!Clock
<1>2. \A t \in 0 .. Len(path) : Wrapper!Truth(t) \in Pose
  BY NamedPoses, WrapperPoses DEF Wrapper!Truth
<1>3. CASE u = 0
  BY <1>1, <1>2, <1>3, NamedPoses, WrapperPoses DEF Wrapper!TwistAt
<1>4. CASE u # 0
  <2>1. u - 1 \in 0 .. Len(path)
    BY <1>1, <1>4
  <2>2. Wrapper!Truth(u) \in Pose /\ Wrapper!Truth(u - 1) \in Pose
    BY <1>1, <1>2, <2>1
  <2>3. Compose(Invert(Wrapper!Truth(u - 1)), Wrapper!Truth(u)) \in Pose
    BY <2>2, ComposeIsPose
  <2>. QED  BY <1>2, <1>4, <2>2, <2>3, WrapperPoses DEF Wrapper!TwistAt
<1>. QED  BY <1>3, <1>4

(* A message that has come along the history as far as its stamp says.     *)
HasCome(m, f) ==
  /\ m \in Msgs /\ m.stamp <= Wrapper!Clock /\ m.twist = Wrapper!TwistAt(m.stamp)
  /\ m.pose.s = Wrapper!Truth(m.stamp).s
  /\ Wrapper!Aligned(f) => m.pose = Wrapper!Truth(m.stamp)

(* With a complete history every step along it is one unit of time.        *)
LEMMA CarriedIsRight ==
  ASSUME WrapperInv, NEW f, IsTrue(f), wrapOdom # NoMsg, Wrapper!Complete(f)
  PROVE  LET pose == Wrapper!CarriedForward(f)
             right == Wrapper!Truth(wrapOdom.stamp)
         IN pose.s = right.s /\ (Wrapper!Aligned(f) => pose = right)
<1>. DEFINE N == Len(history)
            W == wrapOdom.stamp
<1>1. history \in Seq(Msgs) /\ N \in Nat /\ f \in Msgs
  BY DEF WrapperInv, HistoryIsOrdered, IsTrue
<1>2. /\ W \in Nat /\ f.stamp \in Nat /\ W <= Wrapper!Clock /\ Wrapper!Clock \in Nat
      /\ f.stamp <= W
  BY <1>1 DEF WrapperInv, Msgs, Wrapper!Clock, Wrapper!Complete
<1>3. /\ \A i \in 1 .. N : /\ history[i] \in Msgs /\ history[i].stamp \in Nat
                           /\ history[i].stamp <= W
                           /\ history[i].twist = Wrapper!TwistAt(history[i].stamp)
      /\ \A i, j \in 1 .. N : i < j => history[i].stamp < history[j].stamp
  <2>1. \A i \in 1 .. N : history[i] \in Msgs
    BY <1>1
  <2>. QED  BY <2>1 DEF WrapperInv, HistoryIsOrdered, Msgs
<1>. DEFINE Ends(last) ==
              Wrapper!CarriedForward(f) =
                Wrapper!UpdatePose(last.pose, last.pose.s, last.twist, W - last.stamp)
<1>4. PICK g \in [0 .. N -> Msgs] :
        /\ g[0] = f
        /\ \A n \in 1 .. N : g[n] = Wrapper!Along(g[n - 1], history[n])
        /\ Ends(g[N])
  BY <1>1, AlongExists
<1>. HIDE DEF Ends
<1>5. \A t \in (f.stamp + 1) .. W : \E k \in 1 .. N : history[k].stamp = t
  BY <1>1 DEF Wrapper!Complete, Wrapper!Passed, Wrapper!ToSet
<1>6. ASSUME NEW t \in Nat, t # 0, t <= Wrapper!Clock
      PROVE  /\ Wrapper!Truth(t - 1) \in Pose /\ Wrapper!TwistAt(t) \in {Ahead, Around}
             /\ Wrapper!Truth(t) = Compose(Wrapper!Truth(t - 1), Wrapper!TwistAt(t))
  <2>1. t \in 1 .. Wrapper!Clock /\ t \in 0 .. Wrapper!Clock /\ t - 1 \in 0 .. Wrapper!Clock
    BY <1>2, <1>6
  <2>2. Wrapper!Truth(t) \in Pose /\ Wrapper!Truth(t - 1) \in Pose
    BY <2>1, TruthIsPose DEF WrapperInv
  <2>3. Wrapper!TwistAt(t) = Compose(Invert(Wrapper!Truth(t - 1)), Wrapper!Truth(t))
    BY <1>6, WrapperPoses DEF Wrapper!TwistAt
  <2>. QED  BY <2>1, <2>2, <2>3, Undoes DEF WrapperInv, MovesInSteps
<1>. DEFINE Reached(n) ==
       /\ HasCome(g[n], f) /\ f.stamp <= g[n].stamp
       /\ \A i \in 1 .. n : history[i].stamp <= g[n].stamp
     S == {n \in 0 .. N : Reached(n)}
<1>7. 0 \in S
  BY <1>1, <1>2, <1>4 DEF IsTrue, HasCome
<1>8. ASSUME NEW n \in 0 .. N, n \in S, n # N PROVE n + 1 \in S
  <2>1. n + 1 \in 1 .. N /\ n + 1 - 1 = n /\ n \in 0 .. N
    BY <1>1, <1>8
  <2>2. g[n + 1] = Wrapper!Along(g[n], history[n + 1])
    BY <1>4, <2>1
  <2>3. PICK h \in Msgs : h = history[n + 1]
    BY <1>3, <2>1
  <2>4. PICK m \in Msgs : m = g[n]
    BY <2>1
  <2>5. /\ h.stamp \in Nat /\ h.stamp <= W /\ m.stamp \in Nat /\ m.pose \in Pose
        /\ h.pose \in Pose /\ h.twist = Wrapper!TwistAt(h.stamp)
    BY <1>3, <2>1, <2>3, <2>4 DEF Msgs
  <2>6. Reached(n)
    BY <1>8
  <2>7. CASE ~(h.stamp > m.stamp)
    <3>1. g[n + 1] = m
      BY <2>2, <2>3, <2>4, <2>7 DEF Wrapper!Along
    <3>2. \A i \in 1 .. n + 1 : history[i].stamp <= m.stamp
      BY <2>1, <2>3, <2>4, <2>5, <2>6, <2>7
    <3>. QED  BY <2>1, <2>4, <2>6, <3>1, <3>2
  <2>8. CASE h.stamp > m.stamp
    <3>1. m.stamp + 1 \in (f.stamp + 1) .. W
      BY <1>2, <2>4, <2>5, <2>6, <2>8
    <3>2. PICK k \in 1 .. N : history[k].stamp = m.stamp + 1
      BY <1>5, <3>1
    <3>3. ~(k <= n)
      BY <2>4, <2>5, <2>6, <3>2
    <3>4. ~(n + 1 < k)
      BY <1>3, <2>1, <2>3, <2>5, <2>8, <3>2
    <3>5. k = n + 1
      BY <2>1, <3>3, <3>4
    <3>6. h.stamp = m.stamp + 1 /\ h.stamp - m.stamp = 1
      BY <2>3, <2>5, <3>2, <3>5
    <3>7. h.stamp <= Wrapper!Clock /\ m.stamp = h.stamp - 1 /\ h.stamp # 0
      <4>1. m.stamp = h.stamp - 1 /\ h.stamp # 0
        BY <2>5, <3>6
      <4>2. h.stamp <= W /\ W <= Wrapper!Clock /\ W \in Nat /\ Wrapper!Clock \in Nat
        BY <1>2, <2>5
      <4>. QED  BY <2>5, <4>1, <4>2
    <3>8. PICK here \in Pose, twist \in {Ahead, Around} :
            /\ here = Wrapper!Truth(m.stamp) /\ twist = h.twist
            /\ Wrapper!Truth(h.stamp) = Compose(here, twist)
      BY <1>6, <2>5, <3>7
    <3>9. m.pose.s = here.s /\ (Wrapper!Aligned(f) => m.pose = here)
      BY <2>4, <2>6, <3>8 DEF HasCome
    <3>10. Wrapper!Aligned(f) => h.pose.s = Wrapper!Truth(h.stamp).s
      <4>1. h \in Wrapper!Passed(f)
        <5>1. h \in Wrapper!ToSet(history)
          BY <1>1, <2>1, <2>3 DEF Wrapper!ToSet
        <5>2. h.stamp > f.stamp
          BY <1>2, <2>4, <2>5, <2>6, <2>8
        <5>. QED  BY <5>1, <5>2 DEF Wrapper!Passed
      <4>. QED  BY <4>1 DEF Wrapper!Aligned
    <3>11. PICK q : q = Wrapper!UpdatePose(m.pose, h.pose.s, twist, 1)
      OBVIOUS
    <3>12. g[n + 1] = [pose |-> q, stamp |-> h.stamp, twist |-> h.twist]
      BY <2>2, <2>3, <2>4, <2>8, <3>6, <3>8, <3>11, AlongIsMessage
    <3>13. /\ q.s = Wrapper!Truth(h.stamp).s
           /\ Wrapper!Aligned(f) => q = Wrapper!Truth(h.stamp)
      <4>1. h.pose.s \in {1, -1}
        BY <2>5, PoseParts
      <4>2. /\ q.s = Compose(here, twist).s
            /\ m.pose = here /\ h.pose.s = Compose(here, twist).s => q = Compose(here, twist)
        BY <2>5, <3>9, <3>11, <4>1, UpdateByOne
      <4>. QED  BY <3>8, <3>9, <3>10, <4>2
    <3>14. HasCome(g[n + 1], f) /\ g[n + 1].stamp = h.stamp
      <4>1. g[n + 1] \in Msgs
        BY <2>1
      <4>. QED  BY <2>5, <3>7, <3>12, <3>13, <4>1 DEF HasCome
    <3>15. \A i \in 1 .. n + 1 : history[i].stamp <= h.stamp
      <4>. TAKE i \in 1 .. n + 1
      <4>1. i \in 1 .. N /\ history[i].stamp \in Nat
        BY <1>3, <2>1
      <4>2. CASE i = n + 1
        BY <2>3, <2>5, <4>2
      <4>3. CASE i < n + 1
        BY <1>3, <2>1, <2>3, <2>5, <4>1, <4>3
      <4>. QED  BY <2>1, <4>2, <4>3
    <3>16. f.stamp <= h.stamp
      BY <1>2, <2>4, <2>5, <2>6, <2>8
    <3>. QED  BY <2>1, <3>14, <3>15, <3>16
  <2>. QED  BY <2>7, <2>8
<1>9. Reached(N)
  <2>1. N \in S
    <3>. HIDE DEF S, N
    <3>1. \A n \in 0 .. N : n \in S
      BY <1>1, <1>7, <1>8, CountUp
    <3>. QED  BY <1>1, <3>1
  <2>. QED  BY <2>1
<1>10. PICK m \in Msgs : m = g[N]
  BY <1>1
<1>11. m.stamp \in Nat /\ m.pose \in Pose /\ m.twist \in Pose /\ f.stamp <= m.stamp
  BY <1>9, <1>10 DEF Msgs
<1>12. m.stamp <= W
  <2>. DEFINE T == {n \in 0 .. N : g[n].stamp <= W}
  <2>1. 0 \in T
    BY <1>1, <1>2, <1>4
  <2>2. ASSUME NEW n \in 0 .. N, n \in T, n # N PROVE n + 1 \in T
    <3>1. n + 1 \in 1 .. N /\ n + 1 - 1 = n
      BY <1>1, <2>2
    <3>2. g[n + 1] = Wrapper!Along(g[n], history[n + 1])
      BY <1>4, <3>1
    <3>. QED  BY <1>3, <2>2, <3>1, <3>2 DEF Wrapper!Along
  <2>3. N \in T
    <3>. HIDE DEF T, N
    <3>1. \A n \in 0 .. N : n \in T
      BY <1>1, <2>1, <2>2, CountUp
    <3>. QED  BY <1>1, <3>1
  <2>. QED  BY <1>2, <1>10, <1>11, <2>3
<1>13. m.stamp = W
  <2>. SUFFICES ASSUME m.stamp # W PROVE FALSE
    OBVIOUS
  <2>1. m.stamp + 1 \in (f.stamp + 1) .. W
    BY <1>2, <1>11, <1>12
  <2>2. PICK k \in 1 .. N : history[k].stamp = m.stamp + 1
    BY <1>5, <2>1
  <2>. QED  BY <1>9, <1>10, <1>11, <2>2
<1>14. Wrapper!CarriedForward(f) = m.pose
  <2>1. W - m.stamp = 0 /\ 0 \in Int /\ m.pose.s \in {1, -1}
    BY <1>2, <1>11, <1>13, PoseParts
  <2>2. Wrapper!CarriedForward(f) = Wrapper!UpdatePose(m.pose, m.pose.s, m.twist, 0)
    BY <1>4, <1>10, <2>1 DEF Ends
  <2>3. PICK p \in Pose, s \in {1, -1}, twist \in Pose, none \in Int :
          p = m.pose /\ s = m.pose.s /\ twist = m.twist /\ none = 0
    BY <1>11, <2>1
  <2>4. /\ Wrapper!UpdatePose(p, s, twist, none) \in Pose
        /\ Wrapper!UpdatePose(p, s, twist, 0) = p
    BY UpdateIsPose
  <2>. QED  BY <2>2, <2>3, <2>4
<1>. QED  BY <1>9, <1>10, <1>13, <1>14 DEF HasCome

LEMMA WrapperIsEnough ==
  WrapperInv => Wrapper!FeedbackIsCarriedForward /\ Wrapper!OffsetIsCurrent
<1>. SUFFICES ASSUME WrapperInv PROVE Wrapper!FeedbackIsCarriedForward
  BY DEF WrapperInv
<1>. QED  BY CarriedIsRight DEF WrapperInv, Wrapper!FeedbackIsCarriedForward

LEMMA WrapperInit == Wrapper!Init => WrapperInv
<1>. SUFFICES ASSUME Wrapper!Init PROVE WrapperInv
  OBVIOUS
<1>1. /\ path = <<>> /\ slip = Origin /\ offset = Origin /\ history = <<>>
      /\ wrapOdom = NoMsg /\ sourceOdom = NoMsg /\ feedbackOdom = NoMsg
  BY WrapperPoses DEF Wrapper!Init
<1>2. MovesInSteps
  BY <1>1 DEF MovesInSteps, Wrapper!Clock
<1>. QED  BY <1>1, <1>2, NamedPoses DEF WrapperInv, HistoryIsOrdered, Wrapper!OffsetIsCurrent

(* What is true stays true while the robot moves on.                       *)
LEMMA PastStays ==
  ASSUME path \in Seq(Pose), NEW v \in Pose, path' = Append(path, v)
  PROVE  /\ path' \in Seq(Pose) /\ Wrapper!Clock \in Nat /\ Wrapper!Clock' = Wrapper!Clock + 1
         /\ \A t \in Nat : t = Wrapper!Clock + 1 => Wrapper!Truth(t)' = v
         /\ \A t \in Nat : t <= Wrapper!Clock =>
              Wrapper!Truth(t)' = Wrapper!Truth(t) /\ Wrapper!TwistAt(t)' = Wrapper!TwistAt(t)
<1>1. /\ path' \in Seq(Pose) /\ Len(path) \in Nat /\ Len(path') = Len(path) + 1
      /\ path'[Len(path) + 1] = v /\ \A t \in 1 .. Len(path) : path'[t] = path[t]
  OBVIOUS
<1>2. \A t \in Nat : t <= Len(path) => Wrapper!Truth(t)' = Wrapper!Truth(t)
  BY <1>1 DEF Wrapper!Truth
<1>3. \A t \in Nat : t <= Len(path) => Wrapper!TwistAt(t)' = Wrapper!TwistAt(t)
  <2>. TAKE t \in Nat
  <2>1. CASE t = 0
    BY <2>1 DEF Wrapper!TwistAt
  <2>2. CASE t # 0
    <3>1. t - 1 \in Nat /\ (t <= Len(path) => t - 1 <= Len(path))
      BY <1>1, <2>2
    <3>2. t <= Len(path) => Wrapper!Truth(t - 1)' = Wrapper!Truth(t - 1)
      BY <1>2, <3>1
    <3>. QED  BY <1>2, <2>2, <3>2 DEF Wrapper!TwistAt
  <2>. QED  BY <2>1, <2>2
<1>4. \A t \in Nat : t = Len(path) + 1 => Wrapper!Truth(t)' = v
  BY <1>1 DEF Wrapper!Truth
<1>. QED  BY <1>1, <1>2, <1>3, <1>4 DEF Wrapper!Clock

LEMMA WrapperMove ==
  ASSUME WrapperInv, Wrapper!Move
  PROVE  WrapperInv'
<1>1. /\ path \in Seq(Pose) /\ history \in Seq(Msgs) /\ slip \in Pose
      /\ Wrapper!Clock \in Nat /\ Wrapper!Clock \in 0 .. Wrapper!Clock
  BY DEF WrapperInv, HistoryIsOrdered, Wrapper!Clock
<1>2. PICK here \in Pose : here = Wrapper!Truth(Wrapper!Clock)
  BY <1>1, TruthIsPose
<1>3. PICK step \in {Ahead, Around} : path' = Append(path, Compose(here, step))
  BY <1>2, WrapperPoses DEF Wrapper!Move
<1>4. step \in Pose /\ Compose(here, step) \in Pose
  BY NamedPoses, ComposeIsPose
<1>5. /\ path' \in Seq(Pose) /\ Wrapper!Clock' = Wrapper!Clock + 1
      /\ \A t \in Nat : t = Wrapper!Clock + 1 => Wrapper!Truth(t)' = Compose(here, step)
      /\ \A t \in Nat : t <= Wrapper!Clock =>
           Wrapper!Truth(t)' = Wrapper!Truth(t) /\ Wrapper!TwistAt(t)' = Wrapper!TwistAt(t)
  BY <1>1, <1>3, <1>4, PastStays
<1>6. MovesInSteps'
  <2>. SUFFICES ASSUME NEW t \in 1 .. (Wrapper!Clock + 1)
                PROVE  Wrapper!TwistAt(t)' \in {Ahead, Around}
    BY <1>5 DEF MovesInSteps
  <2>1. CASE t <= Wrapper!Clock
    BY <1>1, <1>5, <2>1 DEF WrapperInv, MovesInSteps
  <2>2. CASE t = Wrapper!Clock + 1
    <3>1. t \in Nat /\ t # 0 /\ t - 1 \in Nat /\ t - 1 = Wrapper!Clock
      BY <1>1, <2>2
    <3>2. Wrapper!Truth(t - 1)' = here /\ Wrapper!Truth(t)' = Compose(here, step)
      BY <1>1, <1>2, <1>5, <2>2, <3>1
    <3>3. Wrapper!TwistAt(t)' = Compose(Invert(here), Compose(here, step))
      BY <3>1, <3>2, WrapperPoses DEF Wrapper!TwistAt
    <3>. QED  BY <1>4, <3>3, Undoes
  <2>. QED  BY <1>1, <2>1, <2>2
<1>7. UNCHANGED <<wrapOdom, sourceOdom, feedbackOdom, offset, history, feedbackPc>>
  BY DEF Wrapper!Move
<1>8. slip' \in Pose
  <2>1. \A error \in {Ahead, Around} : Wrapper!Slipped(here, error) \in Pose
    BY NamedPoses, ComposeIsPose, WrapperPoses DEF Wrapper!Slipped
  <2>. QED  BY <1>1, <1>2, <2>1, WrapperPoses DEF Wrapper!Move
<1>9. sourceOdom # NoMsg =>
        sourceOdom \in Msgs /\ sourceOdom.stamp \in Nat /\ sourceOdom.stamp <= Wrapper!Clock
  BY DEF WrapperInv, Msgs
<1>10. HistoryIsOrdered'
  <2>1. ASSUME NEW i \in 1 .. Len(history)
        PROVE  history[i].twist = Wrapper!TwistAt(history[i].stamp)'
               /\ history[i].stamp <= sourceOdom.stamp
    <3>1. history[i] \in Msgs /\ sourceOdom # NoMsg
      BY <1>1 DEF WrapperInv, HistoryIsOrdered
    <3>2. history[i].stamp \in Nat /\ history[i].stamp <= sourceOdom.stamp
          /\ history[i].twist = Wrapper!TwistAt(history[i].stamp)
      BY <3>1 DEF WrapperInv, HistoryIsOrdered, Msgs
    <3>3. history[i].stamp <= Wrapper!Clock
      BY <1>1, <1>9, <3>1, <3>2
    <3>4. Wrapper!TwistAt(history[i].stamp)' = Wrapper!TwistAt(history[i].stamp)
      BY <1>5, <1>7, <3>2, <3>3
    <3>. QED  BY <3>2, <3>4
  <2>. QED  BY <1>7, <2>1 DEF WrapperInv, HistoryIsOrdered
<1>11. feedbackPc = "merge" /\ feedbackOdom # NoMsg => IsTrue(feedbackOdom)'
  <2>. SUFFICES ASSUME IsTrue(feedbackOdom) PROVE IsTrue(feedbackOdom)'
    BY DEF WrapperInv
  <2>1. feedbackOdom.stamp \in Nat
    BY DEF IsTrue, Msgs
  <2>. QED  BY <1>1, <1>5, <1>7, <2>1 DEF IsTrue
<1>12. Wrapper!OffsetIsCurrent'
  BY <1>7 DEF WrapperInv, Wrapper!OffsetIsCurrent
<1>. QED  BY <1>1, <1>5, <1>6, <1>7, <1>8, <1>9, <1>10, <1>11, <1>12 DEF WrapperInv

LEMMA WrapperSource ==
  ASSUME WrapperInv, Wrapper!SourceOdomCallback
  PROVE  WrapperInv'
<1>1. /\ path \in Seq(Pose) /\ slip \in Pose /\ offset \in Pose /\ Wrapper!Clock \in Nat
      /\ NoMsg \notin Msgs
  BY StateAssumption DEF WrapperInv, Wrapper!Clock, Msgs
<1>. DEFINE c == Wrapper!Clock
            twist == Wrapper!TwistAt(c)
            p == Compose(slip, Wrapper!Truth(c))
            w == [pose |-> Compose(p, offset), stamp |-> c, twist |-> twist]
<1>2. /\ sourceOdom' = [pose |-> p, stamp |-> c, twist |-> twist]
      /\ wrapOdom' = [sourceOdom' EXCEPT !.pose = Compose(@, offset)]
      /\ history' = Append(history, wrapOdom')
      /\ UNCHANGED <<path, slip, offset, feedbackOdom, feedbackPc>>
      /\ sourceOdom # NoMsg => Wrapper!Clock > sourceOdom.stamp
  BY WrapperPoses DEF Wrapper!SourceOdomCallback, Wrapper!motionVars
<1>3. wrapOdom' = w
  BY <1>2
<1>4. p \in Pose /\ Compose(p, offset) \in Pose /\ twist \in Pose
  <2>1. Wrapper!Truth(c) \in Pose /\ twist \in Pose
    BY <1>1, TruthIsPose
  <2>2. p \in Pose
    BY <1>1, <2>1, ComposeIsPose
  <2>. HIDE DEF p
  <2>. QED  BY <1>1, <2>1, <2>2, ComposeIsPose
<1>5. sourceOdom' \in Msgs /\ w \in Msgs /\ sourceOdom'.stamp = c /\ w.stamp = c
      /\ w.twist = Wrapper!TwistAt(c) /\ w.pose = Compose(p, offset) /\ sourceOdom'.pose = p
  BY <1>1, <1>2, <1>4 DEF Msgs
<1>. HIDE DEF c, p, w, twist
<1>6. /\ history \in Seq(Msgs) /\ history' \in Seq(Msgs) /\ Len(history') = Len(history) + 1
      /\ history' # <<>> /\ history'[Len(history) + 1] = w /\ Len(history) \in Nat
      /\ \A i \in 1 .. Len(history) : history'[i] = history[i]
  <2>1. history \in Seq(Msgs)
    BY DEF WrapperInv, HistoryIsOrdered
  <2>. QED  BY <1>2, <1>3, <1>5, <2>1
<1>7. \A i \in 1 .. Len(history) :
        /\ history[i].stamp \in Nat /\ history[i].stamp < c
        /\ history[i].twist = Wrapper!TwistAt(history[i].stamp)
  <2>. TAKE i \in 1 .. Len(history)
  <2>1. history[i] \in Msgs /\ sourceOdom # NoMsg
    BY <1>6 DEF WrapperInv, HistoryIsOrdered
  <2>2. sourceOdom.stamp \in Nat /\ history[i].stamp \in Nat
        /\ history[i].stamp <= sourceOdom.stamp
        /\ history[i].twist = Wrapper!TwistAt(history[i].stamp)
    BY <2>1 DEF WrapperInv, HistoryIsOrdered, Msgs
  <2>. QED  BY <1>1, <1>2, <2>1, <2>2 DEF c
<1>8. Wrapper!Clock' = c /\ \A t : Wrapper!TwistAt(t)' = Wrapper!TwistAt(t)
                                   /\ Wrapper!Truth(t)' = Wrapper!Truth(t)
  BY <1>2 DEF c, Wrapper!Clock, Wrapper!TwistAt, Wrapper!Truth
<1>9. sourceOdom' # NoMsg /\ wrapOdom' # NoMsg /\ c \in Nat
  BY <1>1, <1>3, <1>5 DEF c
<1>10. ASSUME NEW i \in 1 .. Len(history')
       PROVE  history'[i].twist = Wrapper!TwistAt(history'[i].stamp) /\ history'[i].stamp <= c
  BY <1>5, <1>6, <1>7, <1>9
<1>11. \A i, j \in 1 .. Len(history') : i < j => history'[i].stamp < history'[j].stamp
  <2>. TAKE i, j \in 1 .. Len(history')
  <2>. SUFFICES ASSUME i < j PROVE history'[i].stamp < history'[j].stamp
    OBVIOUS
  <2>1. i \in 1 .. Len(history) /\ history'[i] = history[i]
    BY <1>6
  <2>2. CASE j = Len(history) + 1
    BY <1>5, <1>6, <1>7, <2>1, <2>2
  <2>3. CASE j # Len(history) + 1
    <3>1. j \in 1 .. Len(history) /\ history'[j] = history[j]
      BY <1>6, <2>3
    <3>. QED  BY <2>1, <3>1 DEF WrapperInv, HistoryIsOrdered
  <2>. QED  BY <2>2, <2>3
<1>12. HistoryIsOrdered'
  <2>1. \A i \in 1 .. Len(history') :
          history'[i].twist = Wrapper!TwistAt(history[i].stamp)'
    BY <1>2, <1>10 DEF Wrapper!TwistAt, Wrapper!Truth
  <2>. QED  BY <1>5, <1>6, <1>9, <1>10, <1>11, <2>1 DEF HistoryIsOrdered
<1>13. feedbackPc = "merge" /\ feedbackOdom # NoMsg => IsTrue(feedbackOdom)'
  <2>1. IsTrue(feedbackOdom) => IsTrue(feedbackOdom)'
    BY <1>2 DEF IsTrue, Wrapper!Clock, Wrapper!Truth, Wrapper!TwistAt
  <2>. QED  BY <2>1 DEF WrapperInv
<1>14. Wrapper!OffsetIsCurrent' /\ wrapOdom'.stamp = sourceOdom'.stamp
  BY <1>2, <1>3, <1>5, WrapperPoses DEF Wrapper!OffsetIsCurrent
<1>15. MovesInSteps'
  BY <1>2 DEF WrapperInv, MovesInSteps, Wrapper!Clock, Wrapper!TwistAt, Wrapper!Truth
<1>. QED  BY <1>1, <1>2, <1>3, <1>5, <1>8, <1>9, <1>12, <1>13, <1>14, <1>15 DEF WrapperInv

LEMMA WrapperMerge ==
  ASSUME WrapperInv, Wrapper!Merge
  PROVE  WrapperInv'
<1>1. /\ path \in Seq(Pose) /\ slip \in Pose /\ NoMsg \notin Msgs
      /\ wrapOdom \in Msgs /\ wrapOdom # NoMsg /\ sourceOdom # NoMsg /\ sourceOdom \in Msgs
      /\ sourceOdom.stamp <= Wrapper!Clock /\ wrapOdom.stamp = sourceOdom.stamp
      /\ history \in Seq(Msgs) /\ feedbackOdom \in Msgs
  BY StateAssumption DEF WrapperInv, HistoryIsOrdered, IsTrue, Wrapper!Merge, Msgs
<1>. DEFINE pose == Wrapper!CarriedForward(feedbackOdom)
<1>2. PICK merged \in {pose, wrapOdom.pose} :
        /\ wrapOdom' = [wrapOdom EXCEPT !.pose = merged]
        /\ offset' = Compose(Invert(sourceOdom.pose), merged)
  BY WrapperPoses DEF Wrapper!Merge, Wrapper!Offset
<1>3. pose \in Pose
  <2>. DEFINE Ends(last) ==
                pose = Wrapper!UpdatePose(last.pose, last.pose.s, last.twist,
                                          wrapOdom.stamp - last.stamp)
  <2>1. PICK g \in [0 .. Len(history) -> Msgs] : Ends(g[Len(history)])
    BY <1>1, AlongExists
  <2>2. Len(history) \in 0 .. Len(history)
    BY <1>1
  <2>3. PICK m \in Msgs : m = g[Len(history)]
    BY <2>2
  <2>4. m.pose \in Pose /\ m.twist \in Pose /\ wrapOdom.stamp - m.stamp \in Int
    BY <1>1 DEF Msgs
  <2>5. m.pose.s \in {1, -1}
    BY <2>4, PoseParts
  <2>6. PICK p \in Pose, s \in {1, -1}, twist \in Pose, dt \in Int :
          p = m.pose /\ s = m.pose.s /\ twist = m.twist /\ dt = wrapOdom.stamp - m.stamp
    BY <2>4, <2>5
  <2>7. Wrapper!UpdatePose(p, s, twist, dt) \in Pose
    BY UpdateIsPose
  <2>. QED  BY <2>1, <2>3, <2>6, <2>7
<1>4. merged \in Pose
  BY <1>1, <1>2, <1>3 DEF Msgs
<1>5. wrapOdom' \in Msgs /\ wrapOdom'.stamp = wrapOdom.stamp /\ wrapOdom'.pose = merged
  BY <1>1, <1>2, <1>4 DEF Msgs
<1>6. offset' \in Pose /\ Compose(sourceOdom.pose, offset') = merged
  <2>1. sourceOdom.pose \in Pose
    BY <1>1 DEF Msgs
  <2>. QED  BY <1>2, <1>4, <2>1, ComposeIsPose, Undoes
<1>7. UNCHANGED <<path, slip, sourceOdom>> /\ history' = <<>> /\ feedbackPc' = "none"
  BY DEF Wrapper!Merge, Wrapper!motionVars
<1>8. HistoryIsOrdered'
  BY <1>7 DEF HistoryIsOrdered
<1>9. Wrapper!OffsetIsCurrent'
  BY <1>5, <1>6, <1>7, WrapperPoses DEF Wrapper!OffsetIsCurrent
<1>10. Wrapper!Clock' = Wrapper!Clock /\ MovesInSteps'
  BY <1>7 DEF WrapperInv, MovesInSteps, Wrapper!Clock, Wrapper!TwistAt, Wrapper!Truth
<1>. QED  BY <1>1, <1>5, <1>6, <1>7, <1>8, <1>9, <1>10 DEF WrapperInv

LEMMA WrapperNext ==
  ASSUME WrapperInv, [Wrapper!Next]_(Wrapper!wrapVars)
  PROVE  WrapperInv'
<1>. DEFINE D == UNCHANGED <<path, slip, wrapOdom, sourceOdom, offset, history>>
<1>1. ASSUME D, feedbackPc' = "merge" /\ feedbackOdom' # NoMsg => IsTrue(feedbackOdom)'
      PROVE  WrapperInv'
  BY <1>1 DEF WrapperInv, HistoryIsOrdered, MovesInSteps, Wrapper!OffsetIsCurrent,
              Wrapper!Clock, Wrapper!Truth, Wrapper!TwistAt
<1>2. ASSUME D, UNCHANGED feedbackOdom, feedbackPc' \in {feedbackPc, "none", "store"}
      PROVE  WrapperInv'
  <2>1. IsTrue(feedbackOdom) => IsTrue(feedbackOdom)'
    BY <1>2 DEF IsTrue, Wrapper!Clock, Wrapper!Truth, Wrapper!TwistAt
  <2>. QED  BY <1>1, <1>2, <2>1 DEF WrapperInv
<1>3. CASE Wrapper!Launch \/ UNCHANGED Wrapper!wrapVars
  BY <1>2, <1>3 DEF Wrapper!Launch, Wrapper!wrapVars, Wrapper!motionVars
<1>4. CASE Wrapper!CheckOdom \/ Wrapper!AttributeMissing \/ Wrapper!Refuse
  BY <1>2, <1>4 DEF Wrapper!CheckOdom, Wrapper!AttributeMissing, Wrapper!Refuse, Wrapper!motionVars
<1>5. CASE Wrapper!InitSignalCallback
  <2>1. /\ UNCHANGED <<path, slip>> /\ history' = <<>> /\ offset' = Origin
        /\ wrapOdom' = NoMsg /\ sourceOdom' = NoMsg /\ feedbackOdom' = NoMsg
    BY <1>5, WrapperPoses DEF Wrapper!InitSignalCallback, Wrapper!motionVars
  <2>2. MovesInSteps'
    BY <2>1 DEF WrapperInv, MovesInSteps, Wrapper!Clock, Wrapper!TwistAt, Wrapper!Truth
  <2>. QED  BY <2>1, <2>2, NamedPoses DEF WrapperInv, HistoryIsOrdered, Wrapper!OffsetIsCurrent
<1>6. CASE Wrapper!StoreFeedback
  <2>1. D
    BY <1>6 DEF Wrapper!StoreFeedback, Wrapper!motionVars
  <2>2. PICK t \in 0 .. Wrapper!Clock :
          feedbackOdom' = [pose |-> Wrapper!Truth(t), stamp |-> t, twist |-> Wrapper!TwistAt(t)]
    BY <1>6 DEF Wrapper!StoreFeedback
  <2>3. path \in Seq(Pose) /\ Wrapper!Clock \in Nat /\ t \in Nat
    BY DEF WrapperInv, Wrapper!Clock
  <2>4. Wrapper!Truth(t) \in Pose /\ Wrapper!TwistAt(t) \in Pose
    BY <2>3, TruthIsPose
  <2>5. IsTrue(feedbackOdom')
    <3>1. feedbackOdom' \in Msgs
      BY <2>2, <2>3, <2>4 DEF Msgs
    <3>. QED  BY <2>2, <2>3, <3>1 DEF IsTrue
  <2>6. IsTrue(feedbackOdom)'
    BY <2>1, <2>5 DEF IsTrue, Wrapper!Clock, Wrapper!Truth, Wrapper!TwistAt
  <2>. QED  BY <1>1, <2>1, <2>6
<1>. QED  BY <1>3, <1>4, <1>5, <1>6, WrapperMove, WrapperSource, WrapperMerge DEF Wrapper!Next

(***************************************************************************)
(* OdometryOffset.                                                         *)
(***************************************************************************)
Transforms == {t \in [value : Pose, frame : Pose, base : Pose] :
                 t.value = Compose(Invert(t.frame), t.base)}

(* offset_matrix makes the source odometry start at the transform it was   *)
(* computed from, and what is published was made with it.                  *)
OffsetInv ==
  /\ place \in Pose /\ baseOdom \in Pose \cup {NoValue}
  /\ offsetTransform \in Transforms \cup {NoValue} /\ underWay \in Seq(Transforms)
  /\ initial \in Transforms /\ anchor \in Pose
  /\ offsetMatrix \in Pose \cup {NoValue}
  /\ offsetMatrix # NoValue =>
       offsetMatrix = Compose(initial.value, Invert(Compose(Shift, anchor)))
  /\ prevOdom # NoValue =>
       /\ prevOdom.pose = Compose(offsetMatrix, Compose(Shift, prevOdom.place))
       /\ prevOdom.place \in Pose /\ offsetMatrix # NoValue

LEMMA TransformIsOne ==
  ASSUME NEW b \in Pose, NEW f \in Pose
  PROVE  Offset!Transform(b, f) \in Transforms
<1>1. Offset!Transform(b, f) = [value |-> Compose(Invert(f), b), frame |-> f, base |-> b]
  BY OffsetPoses DEF Offset!Transform
<1>. QED  BY <1>1, ComposeIsPose DEF Transforms

LEMMA OffsetInit == Offset!Init => OffsetInv
BY NamedPoses, TransformIsOne, OffsetPoses DEF Offset!Init, OffsetInv

LEMMA OffsetNext ==
  ASSUME OffsetInv, [Offset!Next]_(Offset!offVars)
  PROVE  OffsetInv'
<1>. NoValue \notin Pose /\ Shift \in Pose
  BY StateAssumption
<1>. USE DEF OffsetInv, Offset!calcVars, Offset!robotVars
<1>1. ASSUME NEW frame \in Pose, NEW b \in Pose \cup {NoValue}
      PROVE  Offset!Calculate(b, frame) \in Transforms \cup {NoValue}
  BY TransformIsOne DEF Offset!Calculate
<1>2. ASSUME offsetTransform' \in Transforms \cup {NoValue}, Offset!PublishTransform
      PROVE  underWay' \in Seq(Transforms)
  BY <1>2 DEF Offset!PublishTransform
<1>3. CASE Offset!Launch \/ UNCHANGED Offset!offVars
  BY <1>3 DEF Offset!Launch, Offset!offVars
<1>4. CASE Offset!Walk
  BY <1>4, NamedPoses, ComposeIsPose, OffsetPoses DEF Offset!Walk
<1>5. CASE Offset!BaseOdomCallback
  <2>1. Offset!Origin \in Pose /\ baseOdom' \in Pose
    BY <1>5, NamedPoses, OffsetPoses DEF Offset!BaseOdomCallback
  <2>2. offsetTransform' \in Transforms \cup {NoValue} /\ underWay' \in Seq(Transforms)
    BY <1>1, <1>2, <1>5, <2>1 DEF Offset!BaseOdomCallback
  <2>. QED  BY <1>5, <2>1, <2>2 DEF Offset!BaseOdomCallback
<1>6. CASE Offset!BaseToInitTransformCallback
  <2>1. offsetTransform' \in Transforms \cup {NoValue} /\ underWay' \in Seq(Transforms)
    BY <1>1, <1>2, <1>6 DEF Offset!BaseToInitTransformCallback
  <2>. QED  BY <1>6, <2>1 DEF Offset!BaseToInitTransformCallback
<1>7. CASE Offset!InitTransformCallback
  BY <1>7 DEF Offset!InitTransformCallback, Offset!Restart
<1>8. CASE Offset!SourceOdomCallback
  <2>1. CASE offsetMatrix = NoValue
    <3>1. /\ offsetMatrix' = Compose(initial.value, Invert(Compose(Shift, place)))
          /\ anchor' = place
          /\ UNCHANGED <<place, baseOdom, offsetTransform, underWay, initial, prevOdom>>
      BY <1>8, <2>1, OffsetPoses DEF Offset!SourceOdomCallback
    <3>2. initial.value \in Pose
      BY DEF Transforms
    <3>3. offsetMatrix' \in Pose
      BY <3>1, <3>2, ComposeIsPose
    <3>. QED  BY <2>1, <3>1, <3>3
  <2>2. CASE offsetMatrix # NoValue
    <3>1. /\ prevOdom' = [pose |-> Compose(offsetMatrix, Compose(Shift, place)), place |-> place]
          /\ UNCHANGED <<place, baseOdom, offsetTransform, underWay, initial, offsetMatrix, anchor>>
      BY <1>8, <2>2, OffsetPoses DEF Offset!SourceOdomCallback
    <3>. QED  BY <2>2, <3>1
  <2>. QED  BY <2>1, <2>2
<1>. QED  BY <1>3, <1>4, <1>5, <1>6, <1>7, <1>8 DEF Offset!Next

(* The shift of the source odometry cancels out.                           *)
LEMMA OffsetIsEnough == OffsetInv => Offset!OutputIsInInitFrame
<1>. SUFFICES ASSUME OffsetInv, prevOdom # NoValue
              PROVE  prevOdom.pose =
                       Compose(Compose(Invert(initial.frame), initial.base),
                               Compose(Invert(anchor), prevOdom.place))
  BY OffsetPoses DEF Offset!OutputIsInInitFrame
<1>. DEFINE v == initial.value
            b == anchor
            p == prevOdom.place
<1>1. /\ v \in Pose /\ b \in Pose /\ p \in Pose /\ Shift \in Pose
      /\ v = Compose(Invert(initial.frame), initial.base)
      /\ prevOdom.pose = Compose(Compose(v, Invert(Compose(Shift, b))), Compose(Shift, p))
  BY StateAssumption DEF OffsetInv, Transforms
<1>. HIDE DEF v, b, p
<1>2. PICK i \in Pose, j \in Pose, q \in Pose :
        i = Invert(b) /\ j = Invert(Shift) /\ q = Compose(Shift, p)
  BY <1>1, ComposeIsPose
<1>3. Invert(Compose(Shift, b)) = Compose(i, j)
  BY <1>1, <1>2, InvertsBackwards
<1>4. Compose(j, q) = p
  BY <1>1, <1>2, Undoes
<1>5. Compose(Compose(v, Compose(i, j)), q) = Compose(v, Compose(i, p))
  <2>1. Compose(i, j) \in Pose
    BY <1>2, ComposeIsPose
  <2>2. Compose(Compose(v, Compose(i, j)), q) = Compose(v, Compose(Compose(i, j), q))
    BY <1>1, <1>2, <2>1, Associates
  <2>3. Compose(Compose(i, j), q) = Compose(i, Compose(j, q))
    BY <1>2, Associates
  <2>. QED  BY <1>4, <2>2, <2>3
<1>. QED  BY <1>1, <1>2, <1>3, <1>5 DEF v, b, p

(***************************************************************************)
(* OdometryIntegrator.                                                     *)
(***************************************************************************)

(* A message the loop has not seen yet is right at its stamp.              *)
IntegratorInv ==
  /\ clock \in Nat /\ DOMAIN odoms = Integrator!Sides
  /\ \A i \in Integrator!Sides :
       odoms[i] # NoInput =>
         /\ odoms[i] \in [stamp : Nat, pos : Int, uses : Nat]
         /\ odoms[i].uses = 0 => odoms[i].pos = odoms[i].stamp
  /\ Integrator!FreshOdometryIsCurrent

LEMMA IntegratorInit == Integrator!Init => IntegratorInv
BY DEF Integrator!Init, IntegratorInv, Integrator!FreshOdometryIsCurrent

LEMMA IntegratorNext ==
  ASSUME IntegratorInv, [Integrator!Next]_(Integrator!integVars)
  PROVE  IntegratorInv'
<1>1. CASE Integrator!Launch \/ Integrator!Pass \/ UNCHANGED Integrator!integVars
  BY <1>1 DEF IntegratorInv, Integrator!FreshOdometryIsCurrent, Integrator!Launch,
              Integrator!Pass, Integrator!integVars
<1>2. ASSUME NEW i \in Integrator!Sides, Integrator!Callback(i) PROVE IntegratorInv'
  BY <1>2 DEF IntegratorInv, Integrator!FreshOdometryIsCurrent, Integrator!Callback
<1>3. CASE Integrator!Execute /\ ~Integrator!Usable
  BY <1>3 DEF IntegratorInv, Integrator!FreshOdometryIsCurrent, Integrator!Execute
<1>4. CASE Integrator!Execute /\ Integrator!Usable
  <2>1. PICK known \in SUBSET Integrator!Sides, i \in Integrator!Sides :
          /\ odoms' = [j \in Integrator!Sides |-> Integrator!CarryForward(odoms[j], j \in known)]
          /\ result' = [pos |-> odoms'[i].pos, time |-> clock,
                        fresh |-> known = Integrator!Sides
                                    /\ \A j \in Integrator!Sides : odoms[j].uses = 0]
          /\ UNCHANGED clock
    BY <1>4 DEF Integrator!Execute
  <2>2. \A j \in Integrator!Sides :
          /\ odoms[j] \in [stamp : Nat, pos : Int, uses : Nat]
          /\ odoms[j].uses = 0 => odoms[j].pos = odoms[j].stamp
    BY <1>4 DEF IntegratorInv, Integrator!FreshOdometryIsCurrent, Integrator!Usable
  <2>. clock \in Nat
    BY DEF IntegratorInv
  <2>3. ASSUME NEW o \in [stamp : Nat, pos : Int, uses : Nat], NEW k \in BOOLEAN
        PROVE  LET c == Integrator!CarryForward(o, k)
               IN /\ c \in [stamp : Nat, pos : Int, uses : Nat] /\ c.uses # 0
                  /\ k /\ o.pos = o.stamp => c.pos = clock
    <3>1. o.stamp \in Nat /\ o.pos \in Int /\ o.uses \in Nat
      OBVIOUS
    <3>2. /\ Integrator!CarryForward(o, k) \in [stamp : Nat, pos : Int, uses : Nat]
          /\ Integrator!CarryForward(o, k).uses = o.uses + 1
          /\ k => Integrator!CarryForward(o, k).pos = o.pos + (clock - o.stamp)
      BY <3>1 DEF Integrator!CarryForward, Integrator!SinceStamp
    <3>. QED  BY <3>1, <3>2
  <2>4. \A j \in Integrator!Sides :
          /\ odoms'[j] \in [stamp : Nat, pos : Int, uses : Nat] /\ odoms'[j].uses # 0
          /\ j \in known /\ odoms[j].uses = 0 => odoms'[j].pos = clock
    <3>. TAKE j \in Integrator!Sides
    <3>1. odoms'[j] = Integrator!CarryForward(odoms[j], j \in known)
      BY <2>1
    <3>2. /\ odoms[j] \in [stamp : Nat, pos : Int, uses : Nat]
          /\ odoms[j].uses = 0 => odoms[j].pos = odoms[j].stamp
      BY <2>2
    <3>3. (j \in known) \in BOOLEAN
      OBVIOUS
    <3>4. LET c == Integrator!CarryForward(odoms[j], j \in known)
          IN /\ c \in [stamp : Nat, pos : Int, uses : Nat] /\ c.uses # 0
             /\ j \in known /\ odoms[j].pos = odoms[j].stamp => c.pos = clock
      BY <3>2, <3>3, <2>3
    <3>. QED  BY <3>1, <3>2, <3>4
  <2>5. result'.fresh => result'.pos = result'.time
    BY <2>1, <2>4
  <2>. QED  BY <2>1, <2>4, <2>5 DEF IntegratorInv, Integrator!FreshOdometryIsCurrent
<1>. QED  BY <1>1, <1>2, <1>3, <1>4 DEF Integrator!Next

(***************************************************************************)
(* TfOdometry.                                                             *)
(***************************************************************************)
Traces == [place : Pose, drift : Pose, head : Pose]

RightOnMap(odom) ==
  odom # NoPose => odom.stamp \in 1 .. Len(trace) /\ odom.pose = trace[odom.stamp].place

TfInv ==
  /\ trace \in Seq(Traces) /\ trace # <<>> /\ tfStamp \in 0 .. Len(trace)
  /\ slamStamp \in 0 .. Len(trace) /\ cameraStamp \in 0 .. Len(trace)
  /\ RightOnMap(slamOdom) /\ RightOnMap(mapOdom)
  /\ initialMatrix \in Pose \cup {NoPose}
  /\ cameraAnchor # NoPose => initialMatrix = cameraAnchor
  /\ cameraOdom # NoPose =>
       /\ cameraOdom.stamp \in 1 .. Len(trace)
       /\ cameraOdom.exact /\ cameraOdom.anchor # NoPose /\ Tf!Straight(cameraOdom.stamp) =>
            cameraOdom.pose = Compose(cameraOdom.anchor, trace[cameraOdom.stamp].place)

LEMMA TfInit == Tf!Init => TfInv
<1>. SUFFICES ASSUME Tf!Init PROVE TfInv
  OBVIOUS
<1>1. Tf!Start \in Traces
  BY NamedPoses, TfPoses DEF Tf!Start, Traces
<1>. QED  BY <1>1 DEF Tf!Init, TfInv, RightOnMap

LEMMA TfNext ==
  ASSUME TfInv, [Tf!Next]_(Tf!tfVars)
  PROVE  TfInv'
<1>1. CASE Tf!Launch \/ Tf!MapCallback \/ Tf!InitSignal \/ UNCHANGED Tf!tfVars
  BY <1>1 DEF TfInv, RightOnMap, Tf!slamVars, Tf!cameraVars, Tf!Launch, Tf!MapCallback,
              Tf!InitSignal, Tf!tfVars, Tf!Straight
<1>2. CASE Tf!TfArrives
  BY <1>2 DEF TfInv, RightOnMap, Tf!slamVars, Tf!cameraVars, Tf!TfArrives, Tf!Straight
<1>3. CASE Tf!InitSignalCallback
  BY <1>3 DEF TfInv, RightOnMap, Tf!slamVars, Tf!cameraVars, Tf!InitSignalCallback, Tf!Straight
<1>4. CASE Tf!Tick
  <2>1. PICK part \in DOMAIN Tf!Start, step \in {Ahead, Around} :
          trace' = Append(trace, [trace[Len(trace)] EXCEPT ![part] = Compose(@, step)])
    BY <1>4, TfPoses DEF Tf!Tick
  <2>2. trace # <<>>
    BY DEF TfInv
  <2>3. [trace[Len(trace)] EXCEPT ![part] = Compose(@, step)] \in Traces
    <3>1. part \in {"place", "drift", "head"} /\ step \in Pose
      BY NamedPoses DEF Tf!Start
    <3>2. trace[Len(trace)] \in Traces
      BY <2>2 DEF TfInv
    <3>3. PICK last \in Traces : last = trace[Len(trace)]
      BY <3>2
    <3>4. Compose(last[part], step) \in Pose
      <4>1. last[part] \in Pose
        BY <3>1 DEF Traces
      <4>. QED  BY <3>1, <4>1, ComposeIsPose
    <3>5. [last EXCEPT ![part] = Compose(last[part], step)] \in Traces
      BY <3>1, <3>4 DEF Traces
    <3>. QED  BY <3>3, <3>5
  <2>4. /\ trace' \in Seq(Traces) /\ Len(trace') = Len(trace) + 1
        /\ \A s \in 1 .. Len(trace) : trace'[s] = trace[s]
    BY <2>1, <2>3 DEF TfInv
  <2>. QED  BY <1>4, <2>4 DEF TfInv, RightOnMap, Tf!slamVars, Tf!cameraVars, Tf!Tick, Tf!Straight
<1>5. CASE Tf!BaseOdomCallback
  <2>1. slamStamp + 1 \in 1 .. Len(trace)
    BY <1>5 DEF TfInv, Tf!BaseOdomCallback
  <2>. DEFINE onMap == Tf!Compose(Tf!MapToBaseOdom(slamStamp + 1), Tf!BaseOdom(slamStamp + 1))
  <2>2. onMap = trace[slamStamp + 1].place
    <3>1. trace[slamStamp + 1] \in Traces
      BY <2>1 DEF TfInv
    <3>2. trace[slamStamp + 1].drift \in Pose /\ trace[slamStamp + 1].place \in Pose
      BY <3>1 DEF Traces
    <3>. QED  BY <3>2, TfPoses, Undoes DEF Tf!BaseOdom, Tf!MapToBaseOdom
  <2>. HIDE DEF onMap
  <2>3. RightOnMap([pose |-> onMap, stamp |-> slamStamp + 1])
    BY <2>1, <2>2 DEF RightOnMap
  <2>4. UNCHANGED <<trace, tfStamp, Tf!cameraVars>> /\ slamStamp' = slamStamp + 1
    BY <1>5 DEF Tf!BaseOdomCallback
  <2>5. RightOnMap(slamOdom') /\ RightOnMap(mapOdom')
    BY <1>5, <2>3, <2>4 DEF Tf!BaseOdomCallback, TfInv, onMap
  <2>6. RightOnMap(slamOdom)' /\ RightOnMap(mapOdom)'
    BY <2>4, <2>5 DEF RightOnMap
  <2>. QED  BY <2>1, <2>4, <2>6 DEF TfInv, Tf!cameraVars, Tf!Straight
<1>6. CASE Tf!SourceOdomCallback
  <2>1. UNCHANGED <<trace, tfStamp, Tf!slamVars>> /\ cameraStamp' = cameraStamp + 1
        /\ cameraStamp + 1 \in 1 .. Len(trace)
    BY <1>6 DEF TfInv, Tf!SourceOdomCallback
  <2>2. RightOnMap(slamOdom)' /\ RightOnMap(mapOdom)'
    BY <2>1 DEF TfInv, RightOnMap, Tf!slamVars
  <2>3. CASE tfStamp = 0
    BY <1>6, <2>1, <2>2, <2>3 DEF TfInv, Tf!SourceOdomCallback, Tf!slamVars, Tf!Straight
  <2>4. CASE tfStamp # 0
    <3>1. PICK s, l \in 1 .. Len(trace) :
            /\ s = cameraStamp + 1 /\ l = Tf!Lookup(s) /\ (s <= tfStamp => l = s)
      BY <2>1, <2>4 DEF TfInv, Tf!Lookup
    <3>2. trace[s] \in Traces /\ trace[l] \in Traces
      BY DEF TfInv
    <3>3. PICK here, known \in Traces : here = trace[s] /\ known = trace[l]
      BY <3>2
    <3>. DEFINE seen == Compose(here.place, here.head)
    <3>4. /\ initialMatrix' = IF initialMatrix = NoPose
                              THEN Invert(Invert(known.head)) ELSE initialMatrix
          /\ cameraAnchor' = IF initialMatrix = NoPose
                             THEN IF s <= tfStamp THEN here.head ELSE NoPose
                             ELSE cameraAnchor
          /\ cameraOdom' = [pose |-> Compose(Compose(initialMatrix', Invert(known.head)), seen),
                            stamp |-> s, anchor |-> cameraAnchor', exact |-> s <= tfStamp]
      BY <1>6, <2>1, <2>4, <3>1, <3>3, TfPoses
         DEF Tf!SourceOdomCallback, Tf!CameraToBase, Tf!SourceOdom
    <3>5. here.place \in Pose /\ here.head \in Pose /\ known.head \in Pose
      BY DEF Traces
    <3>6. s <= tfStamp => known.head = here.head
      BY <3>1, <3>3
    <3>7. /\ initialMatrix' \in Pose
          /\ cameraAnchor' # NoPose => initialMatrix' = cameraAnchor'
      BY <3>4, <3>5, <3>6, Undoes DEF TfInv
    <3>8. ASSUME cameraOdom'.exact, cameraOdom'.anchor # NoPose,
                 here.place.s = 1, here.head.s = 1
          PROVE  cameraOdom'.pose = Compose(cameraOdom'.anchor, here.place)
      <4>1. s <= tfStamp /\ known.head = here.head /\ cameraOdom'.anchor = initialMatrix'
        BY <3>4, <3>6, <3>7, <3>8
      <4>2. seen = Compose(here.head, here.place)
        BY <3>5, <3>8, StraightPosesCommute
      <4>3. Compose(Compose(initialMatrix', Invert(here.head)), seen) =
              Compose(initialMatrix', Compose(Invert(here.head), seen))
        <5>1. Invert(here.head) \in Pose /\ seen \in Pose
          BY <3>5, ComposeIsPose
        <5>. QED  BY <3>7, <5>1, Associates
      <4>4. Compose(Invert(here.head), seen) = here.place
        BY <3>5, <4>2, Undoes
      <4>. QED  BY <3>4, <4>1, <4>3, <4>4
    <3>9. cameraOdom'.stamp = s /\ trace'[s] = here
      BY <2>1, <3>3, <3>4
    <3>. QED  BY <2>1, <2>2, <3>1, <3>7, <3>8, <3>9 DEF TfInv, Tf!slamVars, Tf!Straight
  <2>. QED  BY <2>3, <2>4
<1>. QED  BY <1>1, <1>2, <1>3, <1>4, <1>5, <1>6 DEF Tf!Next

(***************************************************************************)
(* ParticleOdometry and EKFGPFOdometry.                                    *)
(***************************************************************************)
Weights == [Particles!Index -> Nat]
IntParticles == [Particles!Index -> Int]

ParticlesInv ==
  /\ ekf \in BOOLEAN /\ now \in Nat
  /\ estimate \in [pos : Int, stamp : Int] /\ source \in Int \cup {NoOdom}
  /\ initialized \in {0, 1} /\ corrected \in {0, 1}
  /\ pfPc = "run" /\ ~ekf => particles \in IntParticles

LEMMA ParticlesInit == Particles!Init => ParticlesInv
<1>. SUFFICES ASSUME Particles!Init PROVE ParticlesInv
  OBVIOUS
<1>1. ekf = FALSE /\ pfPc # "run"
  BY DEF Particles!Init
<1>2. now \in Nat /\ estimate \in [pos : Int, stamp : Int] /\ source \in Int \cup {NoOdom}
      /\ initialized \in {0, 1} /\ corrected \in {0, 1}
  BY DEF Particles!Init
<1>. QED  BY <1>1, <1>2 DEF ParticlesInv

LEMMA CumulatedIsNumber ==
  ASSUME NEW w \in Weights, NEW k \in Particles!Index
  PROVE  Particles!Cumulated(w, k) \in Int
<1>. DEFINE step == [x \in (1 .. k) \X Int |-> x[2] + w[x[1]]]
            Recursive(s) == s = [n \in 0 .. k |-> IF n = 0 THEN 0 ELSE s[n - 1] + w[n]]
            sum == CHOOSE s : Recursive(s)
<1>1. k \in Nat /\ k # 0 /\ \A n \in 1 .. k : w[n] \in Nat
  BY StateAssumption DEF Weights, Particles!Index
<1>2. \A n \in 1 .. k, a \in Int : step[<<n, a>>] = a + w[n]
  OBVIOUS
<1>. HIDE DEF step
<1>3. \A n \in 1 .. k, a \in Int : step[<<n, a>>] \in Int
  <2>. TAKE n \in 1 .. k, a \in Int
  <2>1. w[n] \in Nat /\ step[<<n, a>>] = a + w[n]
    BY <1>1, <1>2
  <2>. QED  BY <2>1
<1>4. PICK g \in [0 .. k -> Int] : g[0] = 0 /\ \A n \in 1 .. k : g[n] = step[<<n, g[n - 1]>>]
  <2>1. IsStep(step, k, Int)
    BY <1>3 DEF IsStep
  <2>2. \E g \in [0 .. k -> Int] : Solves(g, k, 0, step)
    <3>1. 0 \in Int
      OBVIOUS
    <3>. QED  BY <1>1, <2>1, <3>1, RecursionHasSolution
  <2>. QED  BY <2>2 DEF Solves
<1>5. Recursive(g)
  <2>1. ASSUME NEW n \in 0 .. k PROVE g[n] = IF n = 0 THEN 0 ELSE g[n - 1] + w[n]
    <3>1. CASE n = 0
      BY <1>4, <3>1
    <3>2. CASE n # 0
      <4>1. n \in 1 .. k /\ g[n - 1] \in Int
        BY <1>1, <3>2
      <4>. QED  BY <1>2, <1>4, <3>2, <4>1
    <3>. QED  BY <3>1, <3>2
  <2>. QED  BY <2>1
<1>6. Recursive(sum)
  BY <1>5
<1>7. Particles!Cumulated(w, k) = sum[k]
  BY DEF Particles!Cumulated
<1>. HIDE DEF sum
<1>8. sum[0] = 0 /\ \A n \in 1 .. k : sum[n] = sum[n - 1] + w[n]
  BY <1>1, <1>6
<1>. DEFINE S == {n \in 0 .. k : sum[n] \in Int}
<1>9. 0 \in S
  BY <1>1, <1>8
<1>10. ASSUME NEW n \in 0 .. k, n \in S, n # k PROVE n + 1 \in S
  <2>1. n + 1 \in 1 .. k /\ n + 1 - 1 = n
    BY <1>1, <1>10
  <2>2. sum[n + 1] = sum[n] + w[n + 1] /\ w[n + 1] \in Nat /\ sum[n] \in Int
    BY <1>1, <1>8, <1>10, <2>1
  <2>. QED  BY <2>1, <2>2
<1>11. k \in S
  <2>. HIDE DEF S
  <2>1. \A n \in 0 .. k : n \in S
    BY <1>1, <1>9, <1>10, CountUp
  <2>. QED  BY <1>1, <2>1
<1>. QED  BY <1>7, <1>11

(* A selector falls below the sum of all weights: it selects a particle.   *)
LEMMA SelectedIsParticle ==
  ASSUME NEW w \in Weights, NEW i \in Particles!Index,
         NEW seed \in 0 .. (Particles!Cumulated(w, NumParticles) - 1)
  PROVE  Particles!Selected(w, seed, i) \in Particles!Index
<1>. DEFINE N == NumParticles
            C == Particles!Cumulated(w, N)
            T == {k \in Particles!Index :
                    2 * seed + 1 + 2 * (i - 1) * C <= 2 * N * Particles!Cumulated(w, k)}
<1>1. N \in Nat /\ N \in Particles!Index /\ i \in Nat /\ i <= N /\ Particles!Index \subseteq Nat
  BY StateAssumption DEF Particles!Index
<1>2. C \in Int /\ seed \in Nat /\ seed <= C - 1 /\ C >= 1
  <2>1. C \in Int
    BY <1>1, CumulatedIsNumber
  <2>. HIDE DEF C
  <2>. QED  BY <2>1 DEF C
<1>. HIDE DEF C
<1>3. 2 * seed + 1 + 2 * (i - 1) * C <= 2 * N * C
  <2>1. (N - i) * C >= 0 /\ (N - i) * C = N * C - i * C /\ i * C \in Int /\ N * C \in Int
    BY <1>1, <1>2
  <2>2. 2 * (i - 1) * C = 2 * (i * C) - 2 * C /\ 2 * N * C = 2 * (N * C)
    BY <1>1, <1>2
  <2>. QED  BY <1>2, <2>1, <2>2
<1>4. N \in T
  BY <1>1, <1>3 DEF C
<1>5. T \in SUBSET Nat /\ T # {} /\ T \subseteq Particles!Index
  BY <1>1, <1>4
<1>6. Particles!Selected(w, seed, i) = Particles!Min(T)
  BY DEF Particles!Selected, C
<1>. HIDE DEF T
<1>7. \E x \in T : \A y \in T : x <= y
  BY <1>5, LeastExists
<1>8. Particles!Min(T) \in T
  BY <1>7 DEF Particles!Min
<1>. QED  BY <1>5, <1>6, <1>8

LEMMA CorrectKeepsParticles ==
  ASSUME NEW prts \in IntParticles, Particles!Correct(prts), corrected \in {0, 1}
  PROVE  /\ particles' \in IntParticles
         /\ corrected' \in {0, 1} /\ corrected' # corrected
<1>1. PICK w \in Particles!Weighting(prts) :
        \E seed \in 0 .. (Particles!Cumulated(w, NumParticles) - 1) :
          weights' = w /\ particles' = Particles!Resampling(prts, w, seed)
  BY DEF Particles!Correct
<1>2. PICK seed \in 0 .. (Particles!Cumulated(w, NumParticles) - 1) :
        particles' = Particles!Resampling(prts, w, seed)
  BY <1>1
<1>3. w \in Weights
  <2>1. \A d : Particles!Likelihood(d) \in Nat
    BY DEF Particles!Likelihood
  <2>. QED  BY <2>1 DEF Particles!Weighting, Weights, Particles!Uniform
<1>4. \A i \in Particles!Index : Particles!Selected(w, seed, i) \in Particles!Index
  BY <1>3, SelectedIsParticle
<1>5. particles' \in IntParticles
  BY <1>2, <1>4 DEF Particles!Resampling, IntParticles
<1>6. corrected' \in {0, 1} /\ corrected' # corrected
  BY DEF Particles!Correct, Particles!Count
<1>. QED  BY <1>5, <1>6

LEMMA ValidIsNumber ==
  ASSUME NEW prts \in IntParticles, NEW w
  PROVE  Particles!Valid(prts, w) \subseteq Int
BY DEF Particles!Valid, IntParticles

Initialized ==
  /\ initialized' \in {0, 1} /\ initialized' # initialized
  /\ estimate' \in [pos : Int, stamp : Int] /\ source' = NoOdom
  /\ ekf' \/ particles' \in IntParticles

LEMMA InitializeIsCounted ==
  ASSUME ParticlesInv, Particles!InitializeOdometry, ekf' \in BOOLEAN
  PROVE  Initialized
<1>1. now \in Nat /\ initialized \in {0, 1} /\ Particles!Deviation \subseteq Int
  BY DEF ParticlesInv, Particles!Deviation
<1>2. initialized' \in {0, 1} /\ initialized' # initialized /\ source' = NoOdom
  BY <1>1 DEF Particles!InitializeOdometry, Particles!Count
<1>3. CASE ekf'
  <2>1. PICK d \in Particles!Deviation : estimate' = [pos |-> now + d, stamp |-> now]
    BY <1>3 DEF Particles!InitializeOdometry
  <2>. QED  BY <1>1, <1>2, <1>3, <2>1 DEF Initialized
<1>4. CASE ~ekf'
  <2>1. PICK d \in [Particles!Index -> Particles!Deviation] :
          /\ particles' = [i \in Particles!Index |-> now + d[i]]
          /\ estimate' = [pos |-> now + d[1], stamp |-> now]
    BY <1>4 DEF Particles!InitializeOdometry
  <2>2. 1 \in Particles!Index /\ \A i \in Particles!Index : d[i] \in Int
    <3>1. 1 \in Particles!Index
      BY StateAssumption DEF Particles!Index
    <3>2. \A i \in Particles!Index : d[i] \in Particles!Deviation
      OBVIOUS
    <3>. QED  BY <1>1, <3>1, <3>2
  <2>3. estimate' \in [pos : Int, stamp : Int] /\ particles' \in IntParticles
    BY <1>1, <2>1, <2>2 DEF IntParticles
  <2>. QED  BY <1>2, <2>3 DEF Initialized
<1>. QED  BY <1>3, <1>4

(* What a step of the filters promises.                                    *)
Keeps ==
  ParticlesInv' /\ (initialized' = initialized /\ corrected' = corrected
                      => Particles!Errors' = Particles!Errors)

LEMMA ParticlesRestart ==
  ASSUME ParticlesInv, Particles!Launch \/ Particles!InitTransformCallback
  PROVE  Keeps
<1>1. /\ ekf' \in BOOLEAN /\ Particles!InitializeOdometry /\ UNCHANGED <<now, corrected>>
  BY DEF ParticlesInv, Particles!Launch, Particles!InitTransformCallback
<1>2. Initialized
  BY <1>1, InitializeIsCounted
<1>. QED  BY <1>1, <1>2 DEF Initialized, Keeps, ParticlesInv

LEMMA ParticlesStay ==
  ASSUME ParticlesInv, Particles!Time \/ UNCHANGED Particles!pfVars
  PROVE  Keeps
<1>1. UNCHANGED <<ekf, particles, estimate, source, initialized, corrected, pfPc>> /\ now' \in Nat
  BY DEF ParticlesInv, Particles!Time, Particles!pfVars, Particles!inputVars, Particles!countVars
<1>. QED  BY <1>1 DEF Keeps, ParticlesInv, Particles!Errors

LEMMA ParticlesUpdate ==
  ASSUME ParticlesInv, Particles!Update
  PROVE  Keeps
<1>1. /\ pfPc = "run" /\ ekf = FALSE /\ source # NoOdom
      /\ UNCHANGED <<ekf, now, source, initialized, pfPc>>
  BY DEF ParticlesInv, Particles!Update
<1>2. /\ source \in Int /\ estimate.stamp \in Int /\ particles \in IntParticles
      /\ corrected \in {0, 1} /\ initialized \in {0, 1} /\ now \in Nat
  BY <1>1 DEF ParticlesInv
<1>3. /\ Particles!Sampling \in IntParticles
      /\ \A i \in Particles!Index :
           Particles!Sampling[i] = particles[i] + source - estimate.stamp /\ particles[i] \in Int
  BY <1>2 DEF Particles!Sampling, IntParticles
<1>4. \/ Particles!Correct(Particles!Sampling)
      \/ particles' = Particles!Sampling /\ corrected' = corrected
  BY DEF Particles!Update
<1>5. particles' \in IntParticles /\ corrected' \in {0, 1}
  BY <1>2, <1>3, <1>4, CorrectKeepsParticles
<1>6. PICK p \in Particles!Valid(particles', weights') : estimate' = [pos |-> p, stamp |-> source]
  BY DEF Particles!Update, Particles!Publish, Particles!NewStamp
<1>7. estimate' \in [pos : Int, stamp : Int] /\ estimate'.stamp = source
  BY <1>2, <1>5, <1>6, ValidIsNumber
<1>8. ParticlesInv'
  BY <1>1, <1>2, <1>5, <1>7 DEF ParticlesInv
<1>9. ASSUME corrected' = corrected PROVE Particles!Errors' = Particles!Errors
  <2>1. particles' = Particles!Sampling
    BY <1>2, <1>3, <1>4, <1>9, CorrectKeepsParticles
  <2>2. \A i \in Particles!Index : particles'[i] - source = particles[i] - estimate.stamp
    BY <1>2, <1>3, <2>1
  <2>3. DOMAIN particles = Particles!Index /\ DOMAIN particles' = Particles!Index
    BY <1>2, <1>5 DEF IntParticles
  <2>4. Particles!Errors = {particles[i] - estimate.stamp : i \in Particles!Index}
    BY <1>1, <2>3 DEF Particles!Errors
  <2>5. Particles!Errors' = {particles'[i] - source : i \in Particles!Index}
    BY <1>1, <1>7, <2>3 DEF Particles!Errors
  <2>. QED  BY <2>2, <2>4, <2>5
<1>. QED  BY <1>8, <1>9 DEF Keeps

LEMMA ParticlesSource ==
  ASSUME ParticlesInv, NEW t \in Int, Particles!SourceOdomCallback(t)
  PROVE  Keeps
<1>1. /\ pfPc = "run" /\ source' = t
      /\ UNCHANGED <<ekf, now, particles, initialized, corrected, pfPc>>
      /\ estimate \in [pos : Int, stamp : Int] /\ ekf \in BOOLEAN
  BY DEF ParticlesInv, Particles!SourceOdomCallback, Particles!countVars
<1>2. CASE estimate' = estimate
  BY <1>1, <1>2 DEF Keeps, ParticlesInv, Particles!Errors
<1>3. CASE ekf = TRUE /\ estimate' = [pos |-> estimate.pos + (t - estimate.stamp), stamp |-> t]
  <2>1. estimate.pos \in Int /\ estimate.stamp \in Int
    BY <1>1
  <2>2. /\ estimate' \in [pos : Int, stamp : Int]
        /\ estimate'.pos - estimate'.stamp = estimate.pos - estimate.stamp
    BY <1>3, <2>1
  <2>3. Particles!Errors' = Particles!Errors
    BY <1>1, <1>3, <2>2 DEF Particles!Errors
  <2>. QED  BY <1>1, <2>2, <2>3 DEF Keeps, ParticlesInv
<1>4. \/ estimate' = estimate
      \/ ekf = TRUE /\ estimate' = [pos |-> estimate.pos + (t - estimate.stamp), stamp |-> t]
  <2>1. CASE Particles!StoreSourceOdom
    BY <2>1 DEF Particles!StoreSourceOdom
  <2>2. CASE Particles!EkfUpdate(t)
    <3>1. ekf = TRUE
      BY <1>1, <2>2 DEF Particles!EkfUpdate
    <3>2. estimate' = estimate
          \/ estimate' = [pos |-> estimate.pos + (t - estimate.stamp), stamp |-> t]
      BY <2>2 DEF Particles!EkfUpdate
    <3>. QED  BY <3>1, <3>2
  <2>. QED  BY <2>1, <2>2 DEF Particles!SourceOdomCallback
<1>. QED  BY <1>2, <1>3, <1>4

LEMMA ParticlesMeasure ==
  ASSUME ParticlesInv, NEW t \in Int, Particles!MeasureOdomCallback(t)
  PROVE  Keeps
<1>1. /\ pfPc = "run" /\ UNCHANGED <<ekf, now, source, initialized, pfPc>>
      /\ estimate \in [pos : Int, stamp : Int] /\ ekf \in BOOLEAN /\ corrected \in {0, 1}
  BY DEF ParticlesInv, Particles!MeasureOdomCallback
<1>2. CASE UNCHANGED <<particles, estimate, corrected>>
  BY <1>1, <1>2 DEF Keeps, ParticlesInv, Particles!Errors
<1>3. CASE ekf = TRUE /\ \E d \in [Particles!Index -> {-1, 0, 1}] :
              Particles!Correct([i \in Particles!Index |-> estimate.pos + d[i]])
           /\ \E p \in Particles!Valid(particles', weights') :
                estimate' = [estimate EXCEPT !.pos = p]
  <2>1. PICK d \in [Particles!Index -> {-1, 0, 1}] :
          Particles!Correct([i \in Particles!Index |-> estimate.pos + d[i]])
    BY <1>3
  <2>2. [i \in Particles!Index |-> estimate.pos + d[i]] \in IntParticles
    BY <1>1 DEF IntParticles
  <2>3. particles' \in IntParticles /\ corrected' \in {0, 1} /\ corrected' # corrected
    BY <1>1, <2>1, <2>2, CorrectKeepsParticles
  <2>4. estimate' \in [pos : Int, stamp : Int]
    BY <1>1, <1>3, <2>3, ValidIsNumber
  <2>. QED  BY <1>1, <2>3, <2>4 DEF Keeps, ParticlesInv
<1>. QED  BY <1>1, <1>2, <1>3
          DEF Particles!MeasureOdomCallback, Particles!StoreMeasureOdom, Particles!SampleFromEkf

LEMMA ParticlesNext ==
  ASSUME ParticlesInv, [Particles!Next]_(Particles!pfVars)
  PROVE  Keeps
<1>1. 0 .. MaxTime \subseteq Int
  OBVIOUS
<1>. QED  BY <1>1, ParticlesRestart, ParticlesStay, ParticlesUpdate, ParticlesSource,
             ParticlesMeasure
          DEF Particles!Next

(***************************************************************************)
(* RoseusBridge.                                                           *)
(***************************************************************************)
Pairs == Nat \X Nat

(* Commands go from the queue over cmd into inputs, older ones first.      *)
CommandsInv ==
  /\ gen \in 0 .. MaxSpawns /\ received \in Nat
  /\ inputs \in Seq(Pairs) /\ cmdQueue \in Seq(Nat)
  /\ \A k \in 1 .. Len(inputs) : inputs[k][1] <= gen /\ inputs[k][2] <= received
  /\ \A k \in 1 .. Len(cmdQueue) : cmdQueue[k] <= received
  /\ \A i, j \in 1 .. Len(cmdQueue) : i < j => cmdQueue[i] < cmdQueue[j]
  /\ \A k \in 1 .. Len(inputs), i \in 1 .. Len(cmdQueue) : inputs[k][2] < cmdQueue[i]
  /\ bridgePc = "write" =>
       /\ cmd \in Nat /\ cmd <= received
       /\ \A k \in 1 .. Len(inputs) : inputs[k][2] < cmd
       /\ \A i \in 1 .. Len(cmdQueue) : cmd < cmdQueue[i]
  /\ Bridge!Increasing(inputs, 2) /\ Bridge!Monotone(inputs)

LEMMA CommandsInit == Bridge!Init => CommandsInv
BY StateAssumption DEF Bridge!Init, CommandsInv, Bridge!Increasing, Bridge!Monotone

LEMMA CommandsReceived ==
  ASSUME CommandsInv, Bridge!RawCommandCb
  PROVE  CommandsInv'
<1>1. received \in Nat /\ received' = received + 1 /\ UNCHANGED <<gen, inputs, cmd, bridgePc>>
      /\ cmdQueue' \in {cmdQueue, Append(cmdQueue, received + 1)}
  BY DEF Bridge!RawCommandCb, CommandsInv
<1>2. CASE cmdQueue' = cmdQueue
  BY <1>1, <1>2 DEF CommandsInv, Pairs, Bridge!Increasing, Bridge!Monotone
<1>3. CASE cmdQueue' = Append(cmdQueue, received + 1)
  <2>1. cmdQueue \in Seq(Nat) /\ inputs \in Seq(Pairs)
    BY DEF CommandsInv
  <2>2. /\ cmdQueue' \in Seq(Nat) /\ Len(cmdQueue') = Len(cmdQueue) + 1 /\ Len(cmdQueue) \in Nat
        /\ cmdQueue'[Len(cmdQueue) + 1] = received + 1
        /\ \A i \in 1 .. Len(cmdQueue) : cmdQueue'[i] = cmdQueue[i] /\ cmdQueue[i] \in Nat
    BY <1>1, <1>3, <2>1
  <2>3. \A k \in 1 .. Len(inputs) : inputs[k][1] \in Nat /\ inputs[k][2] \in Nat
    BY <2>1 DEF Pairs
  <2>4. \A k \in 1 .. Len(cmdQueue') : k \in 1 .. Len(cmdQueue) \/ k = Len(cmdQueue) + 1
    BY <2>2
  <2>. DEFINE n == Len(cmdQueue)
  <2>5. \A k \in 1 .. Len(cmdQueue') : cmdQueue'[k] <= received'
    <3>1. \A k \in 1 .. n : cmdQueue[k] <= received
      BY DEF CommandsInv
    <3>. QED  BY <1>1, <2>2, <2>4, <3>1
  <2>6. \A i, j \in 1 .. Len(cmdQueue') : i < j => cmdQueue'[i] < cmdQueue'[j]
    <3>1. /\ \A i, j \in 1 .. n : i < j => cmdQueue[i] < cmdQueue[j]
          /\ \A k \in 1 .. n : cmdQueue[k] < received + 1
      BY <2>2, <1>1 DEF CommandsInv
    <3>. TAKE i, j \in 1 .. Len(cmdQueue')
    <3>2. i < j => i \in 1 .. n
      BY <2>2
    <3>. QED  BY <2>2, <2>4, <3>1, <3>2
  <2>7. \A k \in 1 .. Len(inputs), i \in 1 .. Len(cmdQueue') : inputs[k][2] < cmdQueue'[i]
    <3>1. /\ \A k \in 1 .. Len(inputs), i \in 1 .. n : inputs[k][2] < cmdQueue[i]
          /\ \A k \in 1 .. Len(inputs) : inputs[k][2] <= received
      BY DEF CommandsInv
    <3>. TAKE k \in 1 .. Len(inputs), i \in 1 .. Len(cmdQueue')
    <3>2. CASE i \in 1 .. n
      BY <2>2, <3>1, <3>2
    <3>3. CASE i = n + 1
      <4>1. cmdQueue'[i] = received + 1
        BY <2>2, <3>3
      <4>2. inputs[k][2] \in Nat /\ inputs[k][2] <= received
        BY <2>3, <3>1
      <4>. QED  BY <1>1, <4>1, <4>2
    <3>. QED  BY <2>4, <3>2, <3>3
  <2>8. \A k \in 1 .. Len(inputs) : inputs[k][1] <= gen /\ inputs[k][2] <= received + 1
    BY <1>1, <2>3 DEF CommandsInv
  <2>9. bridgePc = "write" => /\ cmd \in Nat /\ cmd <= received'
                              /\ \A k \in 1 .. Len(inputs) : inputs[k][2] < cmd
                              /\ \A i \in 1 .. Len(cmdQueue') : cmd < cmdQueue'[i]
    <3>. SUFFICES ASSUME bridgePc = "write"
                  PROVE  /\ cmd \in Nat /\ cmd <= received'
                         /\ \A k \in 1 .. Len(inputs) : inputs[k][2] < cmd
                         /\ \A i \in 1 .. Len(cmdQueue') : cmd < cmdQueue'[i]
      OBVIOUS
    <3>1. /\ cmd \in Nat /\ cmd <= received
          /\ \A k \in 1 .. Len(inputs) : inputs[k][2] < cmd
          /\ \A i \in 1 .. n : cmd < cmdQueue[i]
      BY DEF CommandsInv
    <3>. QED  BY <1>1, <2>2, <2>4, <3>1
  <2>10. Bridge!Increasing(inputs, 2)' /\ Bridge!Monotone(inputs)'
    BY <1>1 DEF CommandsInv, Bridge!Increasing, Bridge!Monotone
  <2>. QED  BY <1>1, <2>2, <2>5, <2>6, <2>7, <2>8, <2>9, <2>10 DEF CommandsInv
<1>. QED  BY <1>1, <1>2, <1>3

LEMMA CommandsTaken ==
  ASSUME CommandsInv, Bridge!Take
  PROVE  CommandsInv'
<1>1. UNCHANGED <<gen, received, inputs>>
  BY DEF Bridge!Take
<1>2. CASE cmdQueue = <<>>
  BY <1>1, <1>2 DEF Bridge!Take, CommandsInv, Bridge!Increasing, Bridge!Monotone
<1>3. CASE cmdQueue # <<>>
  <2>1. cmd' = Head(cmdQueue) /\ cmdQueue' = Tail(cmdQueue)
    BY <1>3 DEF Bridge!Take
  <2>2. /\ cmd' = cmdQueue[1] /\ cmdQueue[1] \in Nat /\ 1 \in 1 .. Len(cmdQueue)
        /\ cmdQueue' \in Seq(Nat)
        /\ \A i \in 1 .. Len(cmdQueue') : /\ i + 1 \in 1 .. Len(cmdQueue) /\ 1 < i + 1
                                          /\ cmdQueue'[i] = cmdQueue[i + 1]
    BY <1>3, <2>1 DEF CommandsInv
  <2>3. \A k \in 1 .. Len(cmdQueue') : cmdQueue'[k] <= received
    BY <2>2 DEF CommandsInv
  <2>4. \A i, j \in 1 .. Len(cmdQueue') : i < j => cmdQueue'[i] < cmdQueue'[j]
    <3>. TAKE i, j \in 1 .. Len(cmdQueue')
    <3>1. i < j => i + 1 < j + 1
      OBVIOUS
    <3>. QED  BY <2>2, <3>1 DEF CommandsInv
  <2>5. \A k \in 1 .. Len(inputs), i \in 1 .. Len(cmdQueue') : inputs[k][2] < cmdQueue'[i]
    BY <2>2 DEF CommandsInv
  <2>6. /\ cmd' \in Nat /\ cmd' <= received
        /\ \A k \in 1 .. Len(inputs) : inputs[k][2] < cmd'
        /\ \A i \in 1 .. Len(cmdQueue') : cmd' < cmdQueue'[i]
    BY <2>2 DEF CommandsInv
  <2>7. Bridge!Increasing(inputs, 2)' /\ Bridge!Monotone(inputs)'
    BY <1>1 DEF CommandsInv, Bridge!Increasing, Bridge!Monotone
  <2>. QED  BY <1>1, <2>2, <2>3, <2>4, <2>5, <2>6, <2>7 DEF CommandsInv
<1>. QED  BY <1>2, <1>3

LEMMA CommandsWritten ==
  ASSUME CommandsInv, Bridge!Write
  PROVE  CommandsInv'
<1>1. UNCHANGED <<gen, received, cmdQueue>> /\ bridgePc' # "write" /\ bridgePc = "write"
      /\ inputs' \in {inputs, Append(inputs, <<gen, cmd>>)}
  BY DEF Bridge!Write, Bridge!AfterInterrupt
<1>2. CASE inputs' = inputs
  BY <1>1, <1>2 DEF CommandsInv, Bridge!Increasing, Bridge!Monotone
<1>3. CASE inputs' = Append(inputs, <<gen, cmd>>)
  <2>1. /\ inputs \in Seq(Pairs) /\ gen \in Nat /\ cmd \in Nat /\ cmd <= received
        /\ \A k \in 1 .. Len(inputs) : inputs[k][2] < cmd
        /\ \A i \in 1 .. Len(cmdQueue) : cmd < cmdQueue[i]
    BY <1>1, StateAssumption DEF CommandsInv
  <2>2. /\ inputs' \in Seq(Pairs) /\ Len(inputs') = Len(inputs) + 1 /\ Len(inputs) \in Nat
        /\ inputs'[Len(inputs) + 1] = <<gen, cmd>>
        /\ \A i \in 1 .. Len(inputs) : inputs'[i] = inputs[i] /\ inputs[i] \in Pairs
    BY <1>3, <2>1 DEF Pairs
  <2>3. \A k \in 1 .. Len(inputs') :
          k \in 1 .. Len(inputs) \/ k = Len(inputs) + 1
    BY <2>2
  <2>4. \A k \in 1 .. Len(inputs') : inputs'[k][1] <= gen /\ inputs'[k][2] <= received
    <3>1. \A k \in 1 .. Len(inputs) : inputs[k][1] <= gen /\ inputs[k][2] <= received
      BY DEF CommandsInv
    <3>. QED  BY <2>1, <2>2, <2>3, <3>1
  <2>5. \A k \in 1 .. Len(inputs'), i \in 1 .. Len(cmdQueue) : inputs'[k][2] < cmdQueue[i]
    <3>1. \A k \in 1 .. Len(inputs), i \in 1 .. Len(cmdQueue) : inputs[k][2] < cmdQueue[i]
      BY DEF CommandsInv
    <3>. QED  BY <2>1, <2>2, <2>3, <3>1
  <2>6. \A i, j \in 1 .. Len(inputs') :
          i < j => inputs'[i][2] < inputs'[j][2] /\ inputs'[i][1] <= inputs'[j][1]
    <3>. TAKE i, j \in 1 .. Len(inputs')
    <3>. SUFFICES ASSUME i < j
                  PROVE  inputs'[i][2] < inputs'[j][2] /\ inputs'[i][1] <= inputs'[j][1]
      OBVIOUS
    <3>1. i \in 1 .. Len(inputs)
      BY <2>2
    <3>2. CASE j = Len(inputs) + 1
      <4>1. inputs'[i] = inputs[i] /\ inputs[i][1] <= gen /\ inputs[i][2] < cmd
        BY <2>1, <2>2, <3>1 DEF CommandsInv
      <4>2. inputs'[j] = <<gen, cmd>>
        BY <2>2, <3>2
      <4>. QED  BY <4>1, <4>2
    <3>3. CASE j \in 1 .. Len(inputs)
      BY <2>2, <3>1, <3>3 DEF CommandsInv, Bridge!Increasing, Bridge!Monotone
    <3>. QED  BY <2>3, <3>2, <3>3
  <2>7. Bridge!Increasing(inputs, 2)' /\ Bridge!Monotone(inputs)'
    BY <2>6 DEF Bridge!Increasing, Bridge!Monotone
  <2>. QED  BY <1>1, <2>2, <2>4, <2>5, <2>7 DEF CommandsInv
<1>. QED  BY <1>1, <1>2, <1>3

LEMMA CommandsNext ==
  ASSUME CommandsInv, [Bridge!Next]_(Bridge!bridgeVars)
  PROVE  CommandsInv'
<1>1. ASSUME UNCHANGED <<gen, received, cmdQueue, inputs, cmd>>,
             bridgePc' = "write" => bridgePc = "write"
      PROVE  CommandsInv'
  BY <1>1 DEF CommandsInv, Bridge!Increasing, Bridge!Monotone
<1>2. CASE Bridge!Launch \/ Bridge!Shutdown \/ UNCHANGED Bridge!bridgeVars
  BY <1>1, <1>2 DEF Bridge!Launch, Bridge!Shutdown, Bridge!bridgeVars, Bridge!cmdVars
<1>3. CASE Bridge!Test \/ Bridge!Poll \/ Bridge!Publish \/ Bridge!KillRoseus
  BY <1>1, <1>3 DEF Bridge!Test, Bridge!Poll, Bridge!Publish, Bridge!KillRoseus, Bridge!cmdVars
<1>4. ASSUME NEW g \in Bridge!Gens, Bridge!Dies(g) \/ Bridge!Prints(g) \/ Bridge!Reader(g)
      PROVE  CommandsInv'
  BY <1>1, <1>4 DEF Bridge!Dies, Bridge!Prints, Bridge!Reader, Bridge!ReaderPolls,
                    Bridge!ReaderReads, Bridge!ReaderPuts, Bridge!cmdVars
<1>5. CASE Bridge!LaunchRoseus
  <2>1. /\ gen' = gen + 1 /\ gen < MaxSpawns /\ cmdQueue' = <<>> /\ bridgePc' = "poll"
        /\ UNCHANGED <<received, inputs>>
    BY <1>5 DEF Bridge!LaunchRoseus
  <2>2. /\ gen \in Nat /\ gen' \in 0 .. MaxSpawns /\ inputs \in Seq(Pairs)
        /\ \A k \in 1 .. Len(inputs) : inputs[k][1] \in Nat /\ inputs[k][1] <= gen
    <3>1. gen \in Nat /\ gen' \in 0 .. MaxSpawns
      BY <2>1, StateAssumption DEF CommandsInv
    <3>2. inputs \in Seq(Pairs) /\ \A k \in 1 .. Len(inputs) : inputs[k][1] <= gen
      BY DEF CommandsInv
    <3>3. \A k \in 1 .. Len(inputs) : inputs[k] \in Pairs
      BY <3>2
    <3>4. \A k \in 1 .. Len(inputs) : inputs[k][1] \in Nat
      BY <3>3 DEF Pairs
    <3>. QED  BY <3>1, <3>2, <3>4
  <2>3. \A k \in 1 .. Len(inputs) : inputs[k][1] <= gen'
    BY <2>1, <2>2
  <2>. QED  BY <2>1, <2>2, <2>3 DEF CommandsInv, Bridge!Increasing, Bridge!Monotone
<1>. QED  BY <1>2, <1>3, <1>4, <1>5, CommandsReceived, CommandsTaken, CommandsWritten
          DEF Bridge!Next, Bridge!Loop

(* Which and how many of the first n entries are of g.                     *)
PositionsOf(s, n, g) == {j \in 1 .. n : s[j][1] = g}
CountOf(s, n, g) == Cardinality(PositionsOf(s, n, g))
AllAreOf(q, g) == \A i \in 1 .. Len(q) : q[i][1] = g

LEMMA CountIsNumber ==
  ASSUME NEW s, NEW n \in Nat, NEW g
  PROVE  CountOf(s, n, g) \in Nat /\ IsFiniteSet(PositionsOf(s, n, g))
<1>. DEFINE C == PositionsOf(s, n, g)
<1>1. IsFiniteSet(1 .. n)
  BY FS_Interval
<1>2. C \subseteq 1 .. n
  BY DEF PositionsOf
<1>. HIDE DEF C
<1>3. IsFiniteSet(C)
  BY <1>1, <1>2, FS_Subset
<1>4. Cardinality(C) \in Nat
  BY <1>3, FS_CardinalityType
<1>. QED  BY <1>3, <1>4 DEF C, CountOf

(* Appending the queue of g adds to the entries of g, and to those of no   *)
(* other one.                                                              *)
LEMMA CountAppended ==
  ASSUME NEW s \in Seq(Pairs), NEW q \in Seq(Pairs), NEW g, AllAreOf(q, g)
  PROVE  /\ \A n \in 0 .. Len(s) : \A h : CountOf(s \o q, n, h) = CountOf(s, n, h)
         /\ \A k \in 0 .. Len(q) : CountOf(s \o q, Len(s) + k, g) = CountOf(s, Len(s), g) + k
         /\ \A h : h # g => CountOf(s \o q, Len(s \o q), h) = CountOf(s, Len(s), h)
<1>. DEFINE N == Len(s)
            t == s \o q
            Of(k, h) == PositionsOf(t, k, h)
<1>1. /\ N \in Nat /\ Len(q) \in Nat /\ Len(t) = N + Len(q)
      /\ \A j \in 1 .. N : t[j] = s[j]
      /\ \A j \in N + 1 .. N + Len(q) : t[j] = q[j - N] /\ j - N \in 1 .. Len(q)
  OBVIOUS
<1>. HIDE DEF t
<1>2. ASSUME NEW n \in 0 .. N, NEW h PROVE CountOf(t, n, h) = CountOf(s, n, h)
  <2>1. PositionsOf(t, n, h) = PositionsOf(s, n, h)
    BY <1>1 DEF PositionsOf
  <2>. QED  BY <2>1 DEF CountOf
<1>3. \A j \in N + 1 .. N + Len(q) : t[j][1] = g
  BY <1>1 DEF AllAreOf
<1>4. ASSUME NEW k \in 0 .. Len(q) PROVE CountOf(t, N + k, g) = CountOf(s, N, g) + k
  <2>. DEFINE A == Of(N, g)
              B == (N + 1) .. (N + k)
  <2>1. Of(N + k, g) = A \cup B
    BY <1>1, <1>3 DEF PositionsOf
  <2>2. A \cap B = {}
    BY <1>1 DEF PositionsOf
  <2>3. IsFiniteSet(B) /\ Cardinality(B) = k
    <3>1. N + 1 \in Int /\ N + k \in Int
      BY <1>1
    <3>2. IsFiniteSet(B) /\ Cardinality(B) = IF N + 1 > N + k THEN 0 ELSE (N + k) - (N + 1) + 1
      BY <3>1, FS_Interval
    <3>. QED  BY <1>1, <3>2
  <2>4. IsFiniteSet(A) /\ Cardinality(A) = CountOf(t, N, g) /\ CountOf(t, N, g) \in Nat
    <3>1. CountOf(t, N, g) \in Nat /\ IsFiniteSet(A)
      BY <1>1, CountIsNumber
    <3>. QED  BY <3>1 DEF CountOf
  <2>. HIDE DEF A, B
  <2>5. A \cap B = {} /\ Cardinality({}) = 0
    BY <2>2, FS_EmptySet
  <2>6. Cardinality(A \cup B) = Cardinality(A) + Cardinality(B) - Cardinality(A \cap B)
    BY <2>3, <2>4, FS_Union
  <2>7. Cardinality(A \cup B) = CountOf(t, N, g) + k
    <3>1. k \in Nat
      BY <1>1
    <3>2. Cardinality(A \cap B) = 0
      BY <2>5
    <3>3. Cardinality(A \cup B) = CountOf(t, N, g) + k - 0
      BY <2>3, <2>4, <2>6, <3>2
    <3>. QED  BY <2>4, <3>1, <3>3
  <2>8. CountOf(t, N + k, g) = Cardinality(A \cup B)
    BY <2>1 DEF CountOf
  <2>9. CountOf(t, N, g) = CountOf(s, N, g)
    BY <1>1, <1>2
  <2>. QED  BY <2>7, <2>8, <2>9
<1>5. ASSUME NEW h, h # g PROVE CountOf(t, Len(t), h) = CountOf(s, N, h)
  <2>1. Of(Len(t), h) = PositionsOf(s, N, h)
    BY <1>1, <1>3, <1>5 DEF PositionsOf
  <2>. QED  BY <2>1 DEF CountOf
<1>. QED  BY <1>2, <1>4, <1>5 DEF t

(* Outputs go from the reader over the queue of their process to output:   *)
(* the queue of g continues what has been published of g, up to the last   *)
(* output that its reader has put.                                         *)
Put(g) == IF reader[g] = "put" THEN consumed[g] - 1 ELSE consumed[g]
Published(g) == CountOf(output, Len(output), g)

QueueContinues(g) ==
  /\ outQueue[g] \in Seq(Pairs)
  /\ Published(g) + Len(outQueue[g]) = Put(g)
  /\ \A i \in 1 .. Len(outQueue[g]) : outQueue[g][i] = <<g, Published(g) + i>>

OutputsInv ==
  /\ gen \in 0 .. MaxSpawns
  /\ bridgePc \in {"poll", "take", "write", "publish", "kill"} => gen \in Bridge!Gens
  /\ consumed \in [Bridge!Gens -> Nat]
  /\ DOMAIN reader = Bridge!Gens /\ DOMAIN outQueue = Bridge!Gens
  /\ \A g \in Bridge!Gens : gen < g => reader[g] = "none"
  /\ output \in Seq(Pairs)
  /\ \A k \in 1 .. Len(output) : output[k][1] <= gen
  /\ \A g \in Bridge!Gens : QueueContinues(g)
  /\ Bridge!Monotone(output)
  /\ \A k \in 1 .. Len(output) : output[k][2] = CountOf(output, k, output[k][1])

LEMMA OutputsInit == Bridge!Init => OutputsInv
<1>. SUFFICES ASSUME Bridge!Init PROVE OutputsInv
  OBVIOUS
<1>1. \A g : CountOf(output, 0, g) = 0
  <2>1. \A g : PositionsOf(output, 0, g) = {}
    BY DEF PositionsOf
  <2>. QED  BY <2>1, FS_EmptySet DEF CountOf
<1>2. output = <<>> /\ Len(output) = 0
  BY DEF Bridge!Init
<1>3. \A g \in Bridge!Gens : outQueue[g] = <<>> /\ reader[g] = "none" /\ consumed[g] = 0
  BY DEF Bridge!Init
<1>4. \A g \in Bridge!Gens : QueueContinues(g)
  <2>. TAKE g \in Bridge!Gens
  <2>1. Published(g) = 0 /\ Put(g) = 0 /\ outQueue[g] = <<>>
    BY <1>1, <1>2, <1>3 DEF Published, Put
  <2>2. <<>> \in Seq(Pairs) /\ Len(<<>>) = 0 /\ 1 .. 0 = {}
    OBVIOUS
  <2>. QED  BY <2>1, <2>2 DEF QueueContinues
<1>. QED  BY <1>2, <1>4, StateAssumption DEF Bridge!Init, OutputsInv, Bridge!Monotone

LEMMA OutputsPut ==
  ASSUME OutputsInv, NEW g \in Bridge!Gens, Bridge!ReaderPuts(g)
  PROVE  OutputsInv'
<1>1. /\ reader[g] = "put" /\ reader' = [reader EXCEPT ![g] = "poll"]
      /\ outQueue' = [outQueue EXCEPT ![g] = Append(@, <<g, consumed[g]>>)]
      /\ UNCHANGED <<bridgePc, gen, consumed, output>>
  BY DEF Bridge!ReaderPuts, Bridge!QueueOf
<1>2. /\ consumed \in [Bridge!Gens -> Nat] /\ DOMAIN reader = Bridge!Gens
      /\ DOMAIN outQueue = Bridge!Gens /\ output \in Seq(Pairs)
  BY DEF OutputsInv
<1>3. ASSUME NEW h \in Bridge!Gens PROVE QueueContinues(h)'
  <2>1. QueueContinues(h) /\ Published(h)' = Published(h)
    BY <1>1 DEF OutputsInv, Published
  <2>2. CASE h # g
    <3>1. outQueue'[h] = outQueue[h] /\ Put(h)' = Put(h)
      BY <1>1, <1>2, <2>2 DEF Put
    <3>. QED  BY <2>1, <3>1 DEF QueueContinues
  <2>3. CASE h = g
    <3>. DEFINE q == outQueue[g]
    <3>1. /\ outQueue'[g] = Append(q, <<g, consumed[g]>>) /\ q \in Seq(Pairs)
          /\ g \in Nat /\ consumed[g] \in Nat /\ Put(g) = consumed[g] - 1 /\ Put(g)' = consumed[g]
      BY <1>1, <1>2, <2>1, <2>3 DEF QueueContinues, Put, Bridge!Gens
    <3>2. Published(g) \in Nat /\ Published(g) + Len(q) = consumed[g] - 1
          /\ \A i \in 1 .. Len(q) : q[i] = <<g, Published(g) + i>>
      <4>1. Len(output) \in Nat
        BY <1>2
      <4>2. Published(g) \in Nat
        BY <4>1, CountIsNumber DEF Published
      <4>. QED  BY <2>1, <2>3, <3>1, <4>2 DEF QueueContinues
    <3>3. /\ outQueue'[g] \in Seq(Pairs) /\ Len(outQueue'[g]) = Len(q) + 1 /\ Len(q) \in Nat
          /\ outQueue'[g][Len(q) + 1] = <<g, consumed[g]>>
          /\ \A i \in 1 .. Len(q) : outQueue'[g][i] = q[i]
      BY <3>1 DEF Pairs
    <3>. HIDE DEF q
    <3>4. \A i \in 1 .. Len(outQueue'[g]) : outQueue'[g][i] = <<g, Published(g) + i>>
      <4>. TAKE i \in 1 .. Len(outQueue'[g])
      <4>1. CASE i = Len(q) + 1
        <5>1. consumed[g] = Published(g) + i
          BY <3>1, <3>2, <3>3, <4>1
        <5>. QED  BY <3>3, <4>1, <5>1
      <4>2. CASE i # Len(q) + 1
        <5>1. i \in 1 .. Len(q)
          BY <3>3, <4>2
        <5>. QED  BY <3>2, <3>3, <5>1
      <4>. QED  BY <4>1, <4>2
    <3>5. Published(g) + Len(outQueue'[g]) = Put(g)'
      BY <3>1, <3>2, <3>3
    <3>. QED  BY <2>1, <2>3, <3>3, <3>4, <3>5 DEF QueueContinues
  <2>. QED  BY <2>2, <2>3
<1>4. DOMAIN reader' = Bridge!Gens /\ DOMAIN outQueue' = Bridge!Gens
  BY <1>1, <1>2
<1>. QED  BY <1>1, <1>2, <1>3, <1>4 DEF OutputsInv, Bridge!Monotone, CountOf, PositionsOf

LEMMA OutputsPublished ==
  ASSUME OutputsInv, Bridge!Publish
  PROVE  OutputsInv'
<1>. DEFINE q == outQueue[gen]
            N == Len(output)
<1>1. /\ output' = output \o q /\ outQueue' = [outQueue EXCEPT ![gen] = <<>>]
      /\ UNCHANGED <<gen, reader, consumed>> /\ bridgePc = "publish"
  BY DEF Bridge!Publish
<1>2. /\ gen \in Bridge!Gens /\ gen \in 0 .. MaxSpawns /\ gen \in Nat
      /\ consumed \in [Bridge!Gens -> Nat]
      /\ DOMAIN reader = Bridge!Gens /\ DOMAIN outQueue = Bridge!Gens /\ output \in Seq(Pairs)
  BY <1>1 DEF OutputsInv, Bridge!Gens
<1>3. q \in Seq(Pairs) /\ \A i \in 1 .. Len(q) : q[i] = <<gen, Published(gen) + i>>
  BY <1>2 DEF OutputsInv, QueueContinues
<1>4. /\ output' \in Seq(Pairs) /\ Len(output') = N + Len(q) /\ N \in Nat /\ Len(q) \in Nat
      /\ \A k \in 1 .. N : output'[k] = output[k]
      /\ \A k \in 1 .. Len(output') :
           k \notin 1 .. N => k - N \in 1 .. Len(q) /\ output'[k] = q[k - N]
  BY <1>1, <1>2, <1>3
<1>5. /\ \A n \in 0 .. N : \A h : CountOf(output', n, h) = CountOf(output, n, h)
      /\ \A k \in 0 .. Len(q) : CountOf(output', N + k, gen) = CountOf(output, N, gen) + k
      /\ \A h : h # gen => CountOf(output', Len(output'), h) = CountOf(output, N, h)
  <2>1. AllAreOf(q, gen)
    BY <1>3 DEF AllAreOf
  <2>2. q \in Seq(Pairs) /\ output \in Seq(Pairs)
    BY <1>2, <1>3
  <2>. HIDE DEF q
  <2>3. /\ \A n \in 0 .. N : \A h : CountOf(output \o q, n, h) = CountOf(output, n, h)
        /\ \A k \in 0 .. Len(q) : CountOf(output \o q, N + k, gen) = CountOf(output, N, gen) + k
        /\ \A h : h # gen => CountOf(output \o q, Len(output \o q), h) = CountOf(output, N, h)
    BY <2>1, <2>2, CountAppended
  <2>. QED  BY <1>1, <2>3 DEF q
<1>. HIDE DEF q, N
<1>6. Published(gen) \in Nat /\ Published(gen) = CountOf(output, N, gen)
  <2>1. CountOf(output, N, gen) \in Nat
    BY <1>4, CountIsNumber
  <2>. QED  BY <2>1 DEF Published, N
<1>7. ASSUME NEW k \in 1 .. Len(output'), k \notin 1 .. N
      PROVE  /\ output'[k][1] = gen /\ output'[k][2] = CountOf(output', k, gen)
  <2>1. /\ k - N \in 1 .. Len(q) /\ k - N \in 0 .. Len(q) /\ N + (k - N) = k
        /\ output'[k] = <<gen, Published(gen) + (k - N)>>
    <3>1. k - N \in 1 .. Len(q) /\ output'[k] = q[k - N]
      BY <1>4, <1>7
    <3>2. k - N \in 0 .. Len(q) /\ N + (k - N) = k
      BY <1>4, <3>1
    <3>. QED  BY <1>3, <3>1, <3>2 DEF q
  <2>2. CountOf(output', N + (k - N), gen) = CountOf(output, N, gen) + (k - N)
    BY <1>5, <2>1
  <2>. QED  BY <1>6, <2>1, <2>2
<1>8. ASSUME NEW k \in 1 .. N
      PROVE  /\ output'[k] = output[k] /\ output[k][1] <= gen /\ output[k][1] \in Nat
             /\ output[k][2] = CountOf(output', k, output[k][1])
  <2>1. k \in 1 .. Len(output) /\ k \in 0 .. N
    BY <1>4 DEF N
  <2>2. output[k] \in Pairs
    BY <1>2, <2>1
  <2>. QED  BY <1>4, <1>5, <2>1, <2>2 DEF OutputsInv, Pairs
<1>9. \A k \in 1 .. Len(output') :
        output'[k][1] <= gen /\ output'[k][2] = CountOf(output', k, output'[k][1])
  <2>. TAKE k \in 1 .. Len(output')
  <2>1. CASE k \in 1 .. N
    BY <1>8, <2>1
  <2>2. CASE k \notin 1 .. N
    BY <1>2, <1>7, <2>2
  <2>. QED  BY <2>1, <2>2
<1>10. \A i, j \in 1 .. Len(output') : i < j => output'[i][1] <= output'[j][1]
  <2>. TAKE i, j \in 1 .. Len(output')
  <2>. SUFFICES ASSUME i < j PROVE output'[i][1] <= output'[j][1]
    OBVIOUS
  <2>1. CASE j \notin 1 .. N
    BY <1>7, <1>9, <2>1
  <2>2. CASE j \in 1 .. N
    <3>1. i \in 1 .. N
      BY <1>4, <2>2
    <3>2. output[i][1] <= output[j][1]
      BY <2>2, <3>1 DEF OutputsInv, Bridge!Monotone, N
    <3>. QED  BY <1>8, <2>2, <3>1, <3>2
  <2>. QED  BY <2>1, <2>2
<1>11. ASSUME NEW h \in Bridge!Gens PROVE QueueContinues(h)'
  <2>1. QueueContinues(h) /\ Put(h)' = Put(h)
    BY <1>1 DEF OutputsInv, Put
  <2>2. CASE h = gen
    <3>1. outQueue'[h] = <<>>
      BY <1>1, <1>2, <2>2
    <3>2. Len(q) \in 0 .. Len(q)
      BY <1>4
    <3>3. Published(h)' = Published(h) + Len(q)
      BY <1>4, <1>5, <1>6, <2>2, <3>2 DEF Published
    <3>4. Published(h)' \in Nat /\ Published(h)' = Put(h)'
      BY <1>4, <1>6, <2>1, <2>2, <3>3 DEF QueueContinues, q
    <3>5. Published(h)' + 0 = Published(h)' /\ Len(<<>>) = 0
      BY <3>4
    <3>. QED  BY <3>1, <3>4, <3>5 DEF QueueContinues
  <2>3. CASE h # gen
    <3>1. outQueue'[h] = outQueue[h]
      BY <1>1, <1>2, <2>3
    <3>2. Published(h)' = Published(h)
      BY <1>5, <2>3 DEF Published, N
    <3>. QED  BY <2>1, <3>1, <3>2 DEF QueueContinues
  <2>. QED  BY <2>2, <2>3
<1>12. DOMAIN outQueue' = Bridge!Gens
  BY <1>1, <1>2
<1>. QED  BY <1>1, <1>2, <1>4, <1>9, <1>10, <1>11, <1>12 DEF OutputsInv, Bridge!Monotone

LEMMA OutputsNext ==
  ASSUME OutputsInv, [Bridge!Next]_(Bridge!bridgeVars)
  PROVE  OutputsInv'
<1>. DEFINE Mine == {"poll", "take", "write", "publish", "kill"}
<1>1. ASSUME UNCHANGED <<gen, consumed, reader, outQueue, output>>,
             bridgePc' \in Mine => bridgePc \in Mine
      PROVE  OutputsInv'
  <2>1. \A g \in Bridge!Gens : QueueContinues(g)'
    BY <1>1 DEF OutputsInv, QueueContinues, Published, Put
  <2>2. Bridge!Monotone(output)' /\ \A k, g : CountOf(output, k, g)' = CountOf(output, k, g)
    BY <1>1 DEF OutputsInv, Bridge!Monotone, CountOf, PositionsOf
  <2>. QED  BY <1>1, <2>1, <2>2 DEF OutputsInv
<1>2. CASE Bridge!Launch \/ Bridge!Shutdown \/ UNCHANGED Bridge!bridgeVars
  BY <1>1, <1>2 DEF Bridge!Launch, Bridge!Shutdown, Bridge!bridgeVars, Bridge!outVars
<1>3. CASE Bridge!Test \/ Bridge!Poll \/ Bridge!KillRoseus \/ Bridge!RawCommandCb
  BY <1>1, <1>3 DEF Bridge!Test, Bridge!Poll, Bridge!KillRoseus, Bridge!RawCommandCb,
                    Bridge!outVars
<1>4. CASE Bridge!Take \/ Bridge!Write
  BY <1>1, <1>4 DEF Bridge!Take, Bridge!Write, Bridge!outVars
<1>5. ASSUME NEW g \in Bridge!Gens, Bridge!Dies(g) \/ Bridge!Prints(g)
      PROVE  OutputsInv'
  BY <1>1, <1>5 DEF Bridge!Dies, Bridge!Prints, Bridge!outVars
<1>6. ASSUME UNCHANGED <<bridgePc, gen, outQueue, output>>,
             DOMAIN reader' = Bridge!Gens,
             \A g \in Bridge!Gens : gen < g => reader'[g] = "none",
             consumed' \in [Bridge!Gens -> Nat],
             \A g \in Bridge!Gens : Put(g)' = Put(g)
      PROVE  OutputsInv'
  <2>1. \A g \in Bridge!Gens : QueueContinues(g)'
    BY <1>6 DEF OutputsInv, QueueContinues, Published
  <2>2. Bridge!Monotone(output)' /\ \A k, g : CountOf(output, k, g)' = CountOf(output, k, g)
    BY <1>6 DEF OutputsInv, Bridge!Monotone, CountOf, PositionsOf
  <2>. QED  BY <1>6, <2>1, <2>2 DEF OutputsInv
<1>7. ASSUME NEW g \in Bridge!Gens, Bridge!ReaderPolls(g) PROVE OutputsInv'
  <2>1. /\ reader[g] = "poll" /\ UNCHANGED <<bridgePc, gen, consumed, outQueue, output>>
        /\ reader' = [reader EXCEPT ![g] = IF Bridge!Alive THEN "read" ELSE "ended"]
    BY <1>7 DEF Bridge!ReaderPolls
  <2>2. /\ DOMAIN reader' = Bridge!Gens /\ consumed \in [Bridge!Gens -> Nat]
        /\ reader'[g] \in {"read", "ended"}
        /\ \A h \in Bridge!Gens : h # g => reader'[h] = reader[h]
        /\ \A h \in Bridge!Gens : gen < h => reader[h] = "none"
    BY <2>1 DEF OutputsInv
  <2>3. \A h \in Bridge!Gens : Put(h)' = Put(h)
    BY <2>1, <2>2 DEF Put
  <2>4. \A h \in Bridge!Gens : gen < h => reader'[h] = "none"
    BY <2>1, <2>2
  <2>. QED  BY <1>6, <2>1, <2>2, <2>3, <2>4
<1>8. ASSUME NEW g \in Bridge!Gens, Bridge!ReaderReads(g) PROVE OutputsInv'
  <2>1. /\ reader[g] = "read" /\ UNCHANGED <<bridgePc, gen, outQueue, output>>
        /\ \/ consumed' = [consumed EXCEPT ![g] = @ + 1] /\ reader' = [reader EXCEPT ![g] = "put"]
           \/ consumed' = consumed /\ reader' = [reader EXCEPT ![g] = "poll"]
    BY <1>8 DEF Bridge!ReaderReads
  <2>2. consumed \in [Bridge!Gens -> Nat] /\ DOMAIN reader = Bridge!Gens
        /\ \A h \in Bridge!Gens : gen < h => reader[h] = "none"
    BY DEF OutputsInv
  <2>3. DOMAIN reader' = Bridge!Gens /\ consumed' \in [Bridge!Gens -> Nat]
    BY <2>1, <2>2
  <2>4. \A h \in Bridge!Gens : Put(h)' = Put(h)
    BY <2>1, <2>2 DEF Put
  <2>5. \A h \in Bridge!Gens : gen < h => reader'[h] = "none"
    BY <2>1, <2>2
  <2>. QED  BY <1>6, <2>1, <2>3, <2>4, <2>5
<1>9. CASE Bridge!LaunchRoseus
  <2>1. /\ gen' = gen + 1 /\ gen < MaxSpawns /\ reader' = [reader EXCEPT ![gen + 1] = "poll"]
        /\ UNCHANGED <<consumed, outQueue, output>> /\ bridgePc' = "poll"
    BY <1>9 DEF Bridge!LaunchRoseus
  <2>2. gen \in Nat /\ gen' \in Bridge!Gens /\ gen' \in 0 .. MaxSpawns
    BY <2>1, StateAssumption DEF OutputsInv, Bridge!Gens
  <2>3. DOMAIN reader = Bridge!Gens /\ \A h \in Bridge!Gens : gen < h => reader[h] = "none"
    BY DEF OutputsInv
  <2>4. /\ reader[gen + 1] = "none" /\ DOMAIN reader' = Bridge!Gens /\ reader'[gen + 1] = "poll"
        /\ \A h \in Bridge!Gens : h # gen + 1 => reader'[h] = reader[h]
    BY <2>1, <2>2, <2>3
  <2>5. \A h \in Bridge!Gens : gen' < h => reader'[h] = "none"
    <3>. TAKE h \in Bridge!Gens
    <3>1. gen' < h => gen < h /\ h # gen + 1
      BY <2>1, <2>2 DEF Bridge!Gens
    <3>. QED  BY <2>3, <2>4, <3>1
  <2>6. \A h \in Bridge!Gens : Put(h)' = Put(h)
    BY <2>1, <2>4 DEF Put
  <2>7. \A h \in Bridge!Gens : QueueContinues(h)'
    BY <2>1, <2>6 DEF OutputsInv, QueueContinues, Published
  <2>8. \A k \in 1 .. Len(output) : output[k][1] <= gen'
    <3>. TAKE k \in 1 .. Len(output)
    <3>1. output[k] \in Pairs
      BY DEF OutputsInv
    <3>2. output[k][1] \in Nat /\ output[k][1] <= gen
      BY <3>1 DEF OutputsInv, Pairs
    <3>. QED  BY <2>1, <2>2, <3>2
  <2>9. Bridge!Monotone(output)' /\ \A k, g : CountOf(output, k, g)' = CountOf(output, k, g)
    BY <2>1 DEF OutputsInv, Bridge!Monotone, CountOf, PositionsOf
  <2>. QED  BY <2>1, <2>2, <2>4, <2>5, <2>7, <2>8, <2>9 DEF OutputsInv
<1>. QED  BY <1>2, <1>3, <1>4, <1>5, <1>7, <1>8, <1>9, OutputsPut, OutputsPublished
          DEF Bridge!Next, Bridge!Loop, Bridge!Reader

LEMMA BridgeIsEnough == CommandsInv /\ OutputsInv => Bridge!OrderIsKept
<1>. SUFFICES ASSUME CommandsInv, OutputsInv PROVE Bridge!OrderIsKept
  OBVIOUS
<1>1. \A k \in 1 .. Len(output) :
        output[k][2] = Cardinality({j \in 1 .. k : output[j][1] = output[k][1]})
  BY DEF OutputsInv, CountOf, PositionsOf
<1>3. \A S : Bridge!Cardinality(S) = Cardinality(S)
  BY DEF Bridge!Cardinality, Cardinality
<1>2. Bridge!Increasing(inputs, 2) /\ Bridge!Monotone(inputs) /\ Bridge!Monotone(output)
  BY DEF CommandsInv, OutputsInv
<1>. QED  BY <1>1, <1>2, <1>3 DEF Bridge!OrderIsKept

(***************************************************************************)
(* EmailTopic.                                                             *)
(***************************************************************************)
Kinds == {"shown", "unknown", "image", "attachment"}
Items == [kind : Kinds, file : Files \cup {NoFile}]

LEMMA MessagesAreItems == Email!Messages \subseteq Seq(Items)
<1>1. Email!Contents \subseteq Items /\ Email!Attachments \subseteq Items
  BY DEF Email!Contents, Email!Attachments, Email!Item, Items, Kinds
<1>2. ASSUME NEW S \in SUBSET Items, NEW s \in Email!BoundedSeq(S, MaxItems) PROVE s \in Seq(Items)
  <2>1. PICK n \in 0 .. MaxItems : s \in [1 .. n -> S]
    BY DEF Email!BoundedSeq, Email!SeqOf, Email!TupleOf
  <2>2. n \in Nat
    OBVIOUS
  <2>. QED  BY <2>1, <2>2
<1>3. ASSUME NEW b \in Seq(Items), NEW a \in Seq(Items) PROVE b \o a \in Seq(Items)
  OBVIOUS
<1>. SUFFICES ASSUME NEW m \in Email!Messages PROVE m \in Seq(Items)
  OBVIOUS
<1>4. PICK b \in Email!BoundedSeq(Email!Contents, MaxItems),
           a \in Email!BoundedSeq(Email!Attachments, MaxItems) : m = b \o a
  BY DEF Email!Messages
<1>5. b \in Seq(Items) /\ a \in Seq(Items)
  BY <1>1, <1>2
<1>. QED  BY <1>3, <1>4, <1>5

(* The entries of s are those of m at these positions, in their order.     *)
UpTo(P, i) == {j \in P : j <= i}
AreAt(s, m, P) ==
  /\ Len(s) = Cardinality(P)
  /\ \A i \in P : s[Cardinality(UpTo(P, i))] = m[i]

(* One more entry at a later position.                                     *)
LEMMA OneMoreIsAt ==
  ASSUME NEW s \in Seq(Items), NEW m \in Seq(Items), NEW n \in Nat, NEW P \in SUBSET (1 .. n),
         AreAt(s, m, P), n + 1 \in 1 .. Len(m)
  PROVE  AreAt(Append(s, m[n + 1]), m, P \cup {n + 1})
<1>. DEFINE Q == P \cup {n + 1}
            t == Append(s, m[n + 1])
<1>1. IsFiniteSet(P) /\ Cardinality(P) \in Nat /\ n + 1 \notin P
  <2>1. IsFiniteSet(1 .. n)
    BY FS_Interval
  <2>2. IsFiniteSet(P)
    BY <2>1, FS_Subset
  <2>. QED  BY <2>2, FS_CardinalityType
<1>2. Cardinality(Q) = Cardinality(P) + 1
  BY <1>1, FS_AddElement
<1>3. m[n + 1] \in Items
  OBVIOUS
<1>4. /\ Len(t) = Len(s) + 1 /\ t[Len(s) + 1] = m[n + 1]
      /\ \A k \in 1 .. Len(s) : t[k] = s[k]
  BY <1>3
<1>5. Len(s) = Cardinality(P) /\ \A i \in P : s[Cardinality(UpTo(P, i))] = m[i]
  BY DEF AreAt
<1>. HIDE DEF t
<1>6. ASSUME NEW i \in P PROVE t[Cardinality(UpTo(Q, i))] = m[i]
  <2>1. UpTo(Q, i) = UpTo(P, i) /\ i \in UpTo(P, i) /\ UpTo(P, i) \subseteq P
    BY DEF UpTo
  <2>2. IsFiniteSet(UpTo(P, i)) /\ Cardinality(UpTo(P, i)) <= Cardinality(P)
    BY <1>1, <2>1, FS_Subset
  <2>3. Cardinality(UpTo(P, i)) \in Nat
    BY <2>2, FS_CardinalityType
  <2>4. Cardinality(UpTo(P, i)) # 0
    <3>1. Cardinality(UpTo(P, i)) = 0 => UpTo(P, i) = {}
      BY <2>2, FS_EmptySet
    <3>. QED  BY <2>1, <3>1
  <2>5. Cardinality(UpTo(P, i)) \in 1 .. Len(s)
    BY <1>5, <2>2, <2>3, <2>4
  <2>. QED  BY <1>4, <1>5, <2>1, <2>5
<1>7. UpTo(Q, n + 1) = Q
  <2>1. \A j \in Q : j <= n + 1
    OBVIOUS
  <2>. QED  BY <2>1 DEF UpTo
<1>8. t[Cardinality(UpTo(Q, n + 1))] = m[n + 1]
  BY <1>2, <1>4, <1>5, <1>7
<1>9. \A i \in Q : t[Cardinality(UpTo(Q, i))] = m[i]
  BY <1>6, <1>8
<1>10. Len(t) = Cardinality(Q)
  BY <1>2, <1>4, <1>5
<1>. QED  BY <1>9, <1>10 DEF AreAt, t

(* The first n items have been treated, those at P are parts now.          *)
Treated(n, P) ==
  /\ n \in Nat /\ Len(message) = n + Len(left)
  /\ \A i \in 1 .. Len(left) : left[i] = message[n + i]
  /\ P \in SUBSET (1 .. n) /\ AreAt(parts, message, P)
  /\ \A i \in 1 .. n : message[i].kind # "image" => (i \in P <=> ~Email!Skipped(message[i]))

EmailInv ==
  /\ message \in Seq(Items) /\ left \in Seq(Items) /\ parts \in Seq(Items)
  /\ emailInfo \in BOOLEAN /\ receiver \in BOOLEAN
  /\ emailPc \in {"add", "open", "sent"} =>
       /\ receiver \/ emailInfo
       /\ \E n, P : Treated(n, P)
  /\ emailPc = "open" => left # <<>> /\ ~Email!Skipped(Head(left))
  /\ emailPc = "sent" => left = <<>>

LEMMA EmailInit == Email!Init => EmailInv
<1>1. <<>> \in Seq(Items)
  OBVIOUS
<1>. QED  BY <1>1 DEF Email!Init, EmailInv

LEMMA ItemSkipped ==
  ASSUME EmailInv, left # <<>>, NEW n, NEW P, Treated(n, P),
         Email!Skipped(Head(left)) \/ Head(left).kind = "image",
         left' = Tail(left), UNCHANGED <<message, parts>>
  PROVE  Treated(n + 1, P)'
<1>1. /\ message \in Seq(Items) /\ left \in Seq(Items) /\ n \in Nat /\ P \in SUBSET (1 .. n)
      /\ Len(message) = n + Len(left)
      /\ \A i \in 1 .. Len(left) : left[i] = message[n + i]
  BY DEF EmailInv, Treated
<1>2. /\ 1 \in 1 .. Len(left) /\ Head(left) = left[1] /\ Len(left') = Len(left) - 1
      /\ Len(left) \in Nat
      /\ \A i \in 1 .. Len(left') : i + 1 \in 1 .. Len(left) /\ left'[i] = left[i + 1]
  BY <1>1
<1>3. Head(left) = message[n + 1]
  BY <1>1, <1>2
<1>4. n + 1 \in Nat /\ Len(message) = (n + 1) + Len(left') /\ P \in SUBSET (1 .. (n + 1))
      /\ n + 1 \notin P
  BY <1>1, <1>2
<1>5. \A i \in 1 .. Len(left') : left'[i] = message[(n + 1) + i]
  BY <1>1, <1>2
<1>6. ASSUME NEW i \in 1 .. (n + 1)
      PROVE  message[i].kind # "image" => (i \in P <=> ~Email!Skipped(message[i]))
  <2>1. CASE i = n + 1
    BY <1>3, <1>4, <2>1
  <2>2. CASE i # n + 1
    <3>1. i \in 1 .. n
      BY <1>1, <2>2
    <3>. QED  BY <3>1 DEF Treated
  <2>. QED  BY <2>1, <2>2
<1>7. AreAt(parts, message, P)
  BY DEF Treated
<1>. QED  BY <1>4, <1>5, <1>6, <1>7 DEF Treated, AreAt, UpTo

LEMMA ItemAdded ==
  ASSUME EmailInv, left # <<>>, NEW n, NEW P, Treated(n, P), ~Email!Skipped(Head(left)),
         left' = Tail(left), parts' = Append(parts, Head(left)), UNCHANGED message
  PROVE  Treated(n + 1, P \cup {n + 1})'
<1>. DEFINE Q == P \cup {n + 1}
<1>1. /\ message \in Seq(Items) /\ left \in Seq(Items) /\ parts \in Seq(Items)
      /\ n \in Nat /\ P \in SUBSET (1 .. n)
      /\ Len(message) = n + Len(left)
      /\ \A i \in 1 .. Len(left) : left[i] = message[n + i]
  BY DEF EmailInv, Treated
<1>2. /\ 1 \in 1 .. Len(left) /\ Head(left) = left[1] /\ Len(left') = Len(left) - 1
      /\ Len(left) \in Nat
      /\ \A i \in 1 .. Len(left') : i + 1 \in 1 .. Len(left) /\ left'[i] = left[i + 1]
  BY <1>1
<1>3. Head(left) = message[n + 1]
  BY <1>1, <1>2
<1>4. n + 1 \in Nat /\ Len(message) = (n + 1) + Len(left') /\ Q \in SUBSET (1 .. (n + 1))
      /\ n + 1 \in 1 .. Len(message)
  BY <1>1, <1>2
<1>5. \A i \in 1 .. Len(left') : left'[i] = message[(n + 1) + i]
  BY <1>1, <1>2
<1>6. ASSUME NEW i \in 1 .. (n + 1)
      PROVE  message[i].kind # "image" => (i \in Q <=> ~Email!Skipped(message[i]))
  <2>1. CASE i = n + 1
    BY <1>3, <2>1
  <2>2. CASE i # n + 1
    <3>1. i \in 1 .. n /\ (i \in Q <=> i \in P)
      BY <1>1, <2>2
    <3>. QED  BY <3>1 DEF Treated
  <2>. QED  BY <2>1, <2>2
<1>7. AreAt(parts', message, Q)
  <2>1. AreAt(parts, message, P)
    BY DEF Treated
  <2>2. AreAt(Append(parts, message[n + 1]), message, P \cup {n + 1})
    BY <1>1, <1>4, <2>1, OneMoreIsAt
  <2>. QED  BY <1>3, <2>2
<1>. QED  BY <1>4, <1>5, <1>6, <1>7 DEF Treated, AreAt, UpTo

LEMMA EmailNext ==
  ASSUME EmailInv, [Email!Next]_(Email!emailVars)
  PROVE  EmailInv'
<1>. DEFINE Busy == {"add", "open", "sent"}
<1>1. ASSUME UNCHANGED <<message, left, parts, receiver>>, emailInfo' \in BOOLEAN,
             emailPc' \in Busy => emailPc \in Busy /\ emailInfo' = emailInfo,
             emailPc' = "open" => left # <<>> /\ ~Email!Skipped(Head(left)),
             emailPc' = "sent" => left = <<>>
      PROVE  EmailInv'
  <2>1. \A n, P : Treated(n, P) => Treated(n, P)'
    BY <1>1 DEF Treated, AreAt, UpTo
  <2>2. \A i : Email!Skipped(i)' <=> Email!Skipped(i)
    BY DEF Email!Skipped
  <2>. QED  BY <1>1, <2>1, <2>2 DEF EmailInv
<1>2. CASE Email!Launch
  BY <1>1, <1>2 DEF EmailInv, Email!Launch, Email!EmailGoto
<1>3. CASE Email!FilesChange \/ UNCHANGED Email!emailVars
  BY <1>1, <1>3 DEF EmailInv, Email!FilesChange, Email!emailVars
<1>4. CASE Email!Send
  BY <1>1, <1>4 DEF EmailInv, Email!Send
<1>5. CASE Email!Receive
  <2>1. /\ message' \in Seq(Items) /\ left' = message' /\ parts' = <<>> /\ parts' \in Seq(Items)
        /\ receiver' \in BOOLEAN /\ emailInfo' = emailInfo /\ emailInfo \in BOOLEAN
        /\ emailPc' = IF receiver' \/ emailInfo THEN "add" ELSE "idle"
    BY <1>5, MessagesAreItems DEF EmailInv, Email!Receive, Email!EmailGoto
  <2>2. Treated(0, {})'
    <3>1. AreAt(parts', message', {})
      BY <2>1, FS_EmptySet DEF AreAt
    <3>2. Len(message') = 0 + Len(left') /\ \A i \in 1 .. Len(left') : left'[i] = message'[0 + i]
      BY <2>1
    <3>. QED  BY <3>1, <3>2 DEF Treated, AreAt, UpTo
  <2>. QED  BY <2>1, <2>2 DEF EmailInv
<1>6. ASSUME left # <<>>, emailPc \in {"add", "open"}, emailPc' \in {"add", emailPc},
             UNCHANGED <<emailInfo, message, receiver>>, left' = Tail(left),
             \/ (Email!Skipped(Head(left)) \/ Head(left).kind = "image") /\ parts' = parts
                /\ emailPc' = "add"
             \/ ~Email!Skipped(Head(left)) /\ parts' = Append(parts, Head(left)) /\ emailPc' = "add"
      PROVE  EmailInv'
  <2>1. PICK n, P : Treated(n, P)
    BY <1>6 DEF EmailInv
  <2>2. \E k, Q : Treated(k, Q)'
    BY <1>6, <2>1, ItemSkipped, ItemAdded
  <2>3. left' \in Seq(Items) /\ parts' \in Seq(Items)
    <3>1. left \in Seq(Items) /\ parts \in Seq(Items) /\ Head(left) \in Items
      BY <1>6 DEF EmailInv
    <3>2. Tail(left) \in Seq(Items) /\ Append(parts, Head(left)) \in Seq(Items)
      BY <1>6, <3>1
    <3>3. left' = Tail(left) /\ (parts' = parts \/ parts' = Append(parts, Head(left)))
      BY <1>6
    <3>. QED  BY <3>1, <3>2, <3>3
  <2>. QED  BY <1>6, <2>2, <2>3 DEF EmailInv
<1>7. CASE Email!AddItem
  <2>. DEFINE i == Head(left)
  <2>1. /\ emailPc = "add" /\ left # <<>> /\ UNCHANGED <<emailInfo, message, receiver>>
        /\ i \in Items /\ i.kind \in Kinds /\ emailInfo \in BOOLEAN
    <3>1. i \in Items
      BY <1>7 DEF Email!AddItem, EmailInv
    <3>. QED  BY <1>7, <3>1 DEF Email!AddItem, Items, EmailInv
  <2>2. \/ Email!Skipped(i) /\ Email!Skip
        \/ ~Email!Skipped(i) /\ i.kind = "shown" /\ Email!Add(i) /\ UNCHANGED emailPc
        \/ ~Email!Skipped(i) /\ emailPc' = "open" /\ UNCHANGED <<left, parts>>
        \/ ~Email!Skipped(i) /\ i.kind # "shown" /\ Email!FileMissing(i)
    BY <1>7 DEF Email!AddItem, Email!EmailGoto, Email!NamesFile, Email!Skipped
  <2>3. CASE Email!Skipped(i) /\ Email!Skip
    BY <1>6, <2>1, <2>3 DEF Email!Skip
  <2>4. CASE ~Email!Skipped(i) /\ i.kind = "shown" /\ Email!Add(i) /\ UNCHANGED emailPc
    BY <1>6, <2>1, <2>4 DEF Email!Add
  <2>5. CASE ~Email!Skipped(i) /\ emailPc' = "open" /\ UNCHANGED <<left, parts>>
    BY <1>1, <2>1, <2>5
  <2>6. CASE ~Email!Skipped(i) /\ i.kind # "shown" /\ Email!FileMissing(i)
    <3>1. CASE i.kind = "attachment"
      BY <1>1, <2>1, <2>6, <3>1 DEF Email!FileMissing, Email!GiveUp, Email!EmailGoto
    <3>2. CASE i.kind # "attachment"
      <4>1. i.kind = "image"
        BY <2>1, <2>6, <3>2 DEF Kinds, Email!Skipped
      <4>. QED  BY <1>6, <2>1, <2>6, <3>2, <4>1 DEF Email!FileMissing, Email!Skip
    <3>. QED  BY <3>1, <3>2
  <2>. QED  BY <2>2, <2>3, <2>4, <2>5, <2>6
<1>8. CASE Email!OpenFile
  <2>1. /\ emailPc = "open" /\ left # <<>> /\ ~Email!Skipped(Head(left)) /\ emailInfo \in BOOLEAN
        /\ UNCHANGED <<emailInfo, message, receiver>>
    BY <1>8 DEF Email!OpenFile, EmailInv
  <2>2. CASE Email!Add(Head(left)) /\ emailPc' = "add"
    BY <1>6, <2>1, <2>2 DEF Email!Add
  <2>3. CASE Email!GiveUp
    BY <1>1, <2>1, <2>3 DEF Email!GiveUp, Email!EmailGoto
  <2>. QED  BY <1>8, <2>2, <2>3 DEF Email!OpenFile, Email!EmailGoto
<1>. QED  BY <1>2, <1>3, <1>4, <1>5, <1>7, <1>8 DEF Email!Next

LEMMA EmailIsEnough == EmailInv => Email!MailIsWhole
<1>. SUFFICES ASSUME EmailInv, emailPc = "sent"
              PROVE  /\ receiver \/ emailInfo
                     /\ \E P \in SUBSET DOMAIN message :
                          /\ Email!PartsAreAt(P)
                          /\ \A i \in DOMAIN message :
                               message[i].kind # "image" => (i \in P <=> ~Email!Skipped(message[i]))
  BY DEF Email!MailIsWhole
<1>1. PICK n, P : Treated(n, P)
  BY DEF EmailInv
<1>2. left = <<>> /\ message \in Seq(Items) /\ (receiver \/ emailInfo)
  BY DEF EmailInv
<1>3. n = Len(message) /\ DOMAIN message = 1 .. n
  BY <1>1, <1>2 DEF Treated
<1>4. \A S : Email!Cardinality(S) = Cardinality(S)
  BY DEF Email!Cardinality, Cardinality
<1>5. Email!PartsAreAt(P)
  BY <1>1, <1>4 DEF Treated, AreAt, UpTo, Email!PartsAreAt
<1>6. P \in SUBSET DOMAIN message
      /\ \A i \in DOMAIN message :
           message[i].kind # "image" => (i \in P <=> ~Email!Skipped(message[i]))
  BY <1>1, <1>3 DEF Treated
<1>. QED  BY <1>2, <1>5, <1>6

(***************************************************************************)
(* The composition.                                                        *)
(***************************************************************************)

(* A step of the composition is one of each component, or leaves it alone. *)
LEMMA StepOfOdometries ==
  ASSUME [Next]_vars
  PROVE  /\ [Wrapper!Next]_(Wrapper!wrapVars) /\ [Offset!Next]_(Offset!offVars)
         /\ [Integrator!Next]_(Integrator!integVars) /\ [Tf!Next]_(Tf!tfVars)
<1>1. [Wrapper!Next]_(Wrapper!wrapVars)
  BY DEF Next, vars, poseVars, wrapVars, Wrapper!wrapVars, Wrapper!motionVars
<1>2. [Offset!Next]_(Offset!offVars)
  BY DEF Next, vars, poseVars, offVars, Offset!offVars, Offset!calcVars, Offset!robotVars
<1>3. [Integrator!Next]_(Integrator!integVars)
  BY DEF Next, vars, rateVars, integVars, Integrator!integVars
<1>4. [Tf!Next]_(Tf!tfVars)
  BY DEF Next, vars, rateVars, tfVars, Tf!tfVars, Tf!slamVars, Tf!cameraVars
<1>. QED  BY <1>1, <1>2, <1>3, <1>4

LEMMA StepOfOthers ==
  ASSUME [Next]_vars
  PROVE  /\ [Particles!Next]_(Particles!pfVars) /\ [Bridge!Next]_(Bridge!bridgeVars)
         /\ [Email!Next]_(Email!emailVars)
<1>1. [Particles!Next]_(Particles!pfVars)
  BY DEF Next, vars, poseVars, pfVars, Particles!pfVars, Particles!inputVars, Particles!countVars
<1>2. [Bridge!Next]_(Bridge!bridgeVars)
  BY DEF Next, vars, bridgeVars, Bridge!bridgeVars, Bridge!cmdVars, Bridge!outVars
<1>3. [Email!Next]_(Email!emailVars)
  BY DEF Next, vars, bodyVars, emailVars, Email!emailVars
<1>. QED  BY <1>1, <1>2, <1>3

(* What the nodes for odometry publish is where the robot was at the stamp *)
(* they publish it for, as far as their formulas allow:                    *)
(* OdometryFeedbackWrapper carries a feedback over a complete history to   *)
(* the right heading, and to the right pose where the headings of the      *)
(* history are right, and keeps its offset current; OdometryOffset and     *)
(* SlamMapTfToOdometry are exact for every motion; CameraToBaseOffset is   *)
(* while neither robot nor head is turned.                                 *)
THEOREM WhatIsPublishedIsExact == Spec => []OdometriesAreExact
<1>. DEFINE Inv == WrapperInv /\ OffsetInv /\ IntegratorInv /\ TfInv
<1>1. Init => Inv
  BY WrapperInit, OffsetInit, IntegratorInit, TfInit DEF Init
<1>2. Inv /\ [Next]_vars => Inv'
  BY StepOfOdometries, WrapperNext, OffsetNext, IntegratorNext, TfNext
<1>3. Inv => OdometriesAreExact
  <2>1. WrapperInv => Wrapper!FeedbackIsCarriedForward /\ Wrapper!OffsetIsCurrent
    BY WrapperIsEnough
  <2>2. IntegratorInv => Integrator!FreshOdometryIsCurrent
    BY DEF IntegratorInv
  <2>3. TfInv => Tf!TfOdometryIsExact
    BY TfPoses DEF TfInv, RightOnMap, Tf!TfOdometryIsExact
  <2>. QED  BY <2>1, <2>2, <2>3, OffsetIsEnough DEF OdometriesAreExact
<1>. QED  BY <1>1, <1>2, <1>3, PTL DEF Spec

(* Between two corrections the particles, or the pose of EKFGPFOdometry,   *)
(* stay as wrong as they were: no message moves them twice.                *)
THEOREM NoMotionIsRepeated == Spec => MotionAppliedOnce
<1>1. Init => ParticlesInv
  BY ParticlesInit DEF Init
<1>2. ParticlesInv /\ [Next]_vars => ParticlesInv'
  BY StepOfOthers, ParticlesNext DEF Keeps
<1>3. ParticlesInv /\ [Next]_vars =>
        [initialized' = initialized /\ corrected' = corrected
           => Particles!Errors' = Particles!Errors]_(Particles!pfVars)
  BY StepOfOthers, ParticlesNext DEF Keeps
<1>. QED  BY <1>1, <1>2, <1>3, PTL DEF Spec, MotionAppliedOnce, Particles!MotionAppliedOnce

(* Commands reach roseus once at most and in their order, and its output   *)
(* is published in its order, over interrupted writes and respawns.        *)
THEOREM BridgeKeepsOrder == Spec => []OrderIsKept
<1>1. Init => CommandsInv /\ OutputsInv
  BY CommandsInit, OutputsInit DEF Init
<1>2. CommandsInv /\ OutputsInv /\ [Next]_vars => CommandsInv' /\ OutputsInv'
  BY StepOfOthers, CommandsNext, OutputsNext
<1>3. CommandsInv /\ OutputsInv => OrderIsKept
  BY BridgeIsEnough DEF OrderIsKept
<1>. QED  BY <1>1, <1>2, <1>3, PTL DEF Spec

(* A mail that is sent has a receiver, everything its message shows and    *)
(* the files it attaches, in their order; only images may be left out.     *)
THEOREM OnlyImagesAreLeftOut == Spec => []MailIsWhole
<1>1. Init => EmailInv
  BY EmailInit DEF Init
<1>2. EmailInv /\ [Next]_vars => EmailInv'
  BY StepOfOthers, EmailNext
<1>3. EmailInv => MailIsWhole
  BY EmailIsEnough DEF MailIsWhole
<1>. QED  BY <1>1, <1>2, <1>3, PTL DEF Spec
=============================================================================
