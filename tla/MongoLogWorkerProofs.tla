------------------------ MODULE MongoLogWorkerProofs ------------------------
(***************************************************************************)
(* Three facts about a worker process of mongodb_log.py, for any number of *)
(* publishers and messages and any size of the queue: the queue keeps its  *)
(* size, dequeue never sleeps through a shutdown, and the messages of a    *)
(* publisher are stored in order.                                          *)
(***************************************************************************)
EXTENDS MongoLogWorker, Integers, TLAPS

(* What the threads hold, and what they know about quit: after the parent  *)
(* began to shut down quit is set, and a worker that has set it by itself  *)
(* does not read the queue any more.                                       *)
Held ==
  /\ mpc = "store" => taken \in Msg
  /\ \A p \in Publisher : epc[p] # "idle" => data[p] \in Msg

QuitKnown ==
  /\ ppc # "up" => quit
  /\ quit /\ ppc = "up" => mpc # "get"

IInv == TypeOK /\ Held /\ QuitKnown /\ SleeperIsWoken

LEMMA Constants ==
  /\ Element = Msg \cup {Shutdown}
  /\ Nothing \notin Msg /\ Shutdown \notin Msg /\ Capacity \in Nat \ {0}
  BY ConstantsAssumption
  DEF ConstantsAssumption, Element

(* The queue's operations keep its types and change the number of used     *)
(* slots by one.                                                           *)
QueueOK == pipe \in Seq(Element) /\ feeder \in [{"worker", "parent"} -> Seq(Element)]

LEMMA Lengths ==
  ASSUME QueueOK
  PROVE  Len(pipe) \in Nat /\ Len(feeder["worker"]) \in Nat /\ Len(feeder["parent"]) \in Nat
  BY DEF QueueOK

LEMMA UsedType == ASSUME QueueOK PROVE Used \in Nat
  BY DEF QueueOK, Used

LEMMA SumOfLengths ==
  ASSUME QueueOK,
         NEW i \in Int, NEW j \in Int, NEW k \in Int,
         Len(pipe') = Len(pipe) + i,
         Len(feeder'["worker"]) = Len(feeder["worker"]) + j,
         Len(feeder'["parent"]) = Len(feeder["parent"]) + k
  PROVE  Used' = Used + i + j + k
  <1> DEFINE a == Len(pipe)
             b == Len(feeder["worker"])
             c == Len(feeder["parent"])
  <1>1. a \in Nat /\ b \in Nat /\ c \in Nat
    BY Lengths
  <1>2. Used = a + b + c
    BY DEF Used
  <1>3. Used' = (a + i) + (b + j) + (c + k)
    BY DEF Used
  <1> HIDE DEF a, b, c
  <1> QED BY <1>1, <1>2, <1>3

LEMMA PutFacts ==
  ASSUME QueueOK, Used <= Capacity, NEW p \in {"worker", "parent"},
         NEW x \in Element, Put(p, x)
  PROVE  QueueOK' /\ Used' <= Capacity /\ Used' > 0
  <1>1. QueueOK' /\ Used' = Used + 1
    <2>1. feeder'[p] = Append(feeder[p], x) /\ feeder' \in [{"worker", "parent"} -> Seq(Element)]
      BY DEF QueueOK, Put
    <2>2. Len(feeder'[p]) = Len(feeder[p]) + 1
      BY <2>1 DEF QueueOK
    <2>3. \A q \in {"worker", "parent"} : q # p => feeder'[q] = feeder[q]
      BY DEF QueueOK, Put
    <2>4. pipe' = pipe
      BY DEF Put
    <2>5. Used' = Used + 1
      <3>1. CASE p = "worker"
        <4>1. Len(feeder'["worker"]) = Len(feeder["worker"]) + 1
          BY <2>2, <3>1
        <4>2. Len(feeder'["parent"]) = Len(feeder["parent"]) + 0
          BY <2>3, <3>1, Lengths
        <4>3. Len(pipe') = Len(pipe) + 0
          BY <2>4, Lengths
        <4> QED BY <4>1, <4>2, <4>3, UsedType, SumOfLengths
      <3>2. CASE p = "parent"
        <4>1. Len(feeder'["parent"]) = Len(feeder["parent"]) + 1
          BY <2>2, <3>2
        <4>2. Len(feeder'["worker"]) = Len(feeder["worker"]) + 0
          BY <2>3, <3>2, Lengths
        <4>3. Len(pipe') = Len(pipe) + 0
          BY <2>4, Lengths
        <4> QED BY <4>1, <4>2, <4>3, UsedType, SumOfLengths
      <3> QED BY <3>1, <3>2
    <2> QED BY <2>1, <2>4, <2>5 DEF QueueOK
  <1>2. Used < Capacity
    BY UsedType, Constants DEF Put, Full
  <1> QED BY <1>1, <1>2, UsedType, Constants

LEMMA TakeFacts ==
  ASSUME QueueOK, Used <= Capacity, NEW x, Take(x)
  PROVE  QueueOK' /\ Used' <= Capacity
  <1>1. pipe' \in Seq(Element) /\ Len(pipe') = Len(pipe) - 1 /\ feeder' = feeder
    BY DEF QueueOK, Take
  <1>2. Used' = Used - 1
    BY <1>1 DEF QueueOK, Used
  <1> QED BY <1>1, <1>2, UsedType, Constants DEF QueueOK

LEMMA InitEstablishes == Init => IInv
  <1> SUFFICES ASSUME Init PROVE IInv
    OBVIOUS
  <1>1. Used = 0
    BY DEF Init, Used
  <1>2. TypeOK
    <2>1. feeder \in [{"worker", "parent"} -> Seq(Element)] /\ pipe \in Seq(Element)
      BY DEF Init
    <2>2. arrived \in 0 .. MaxMsgs /\ Used <= Capacity
      BY <1>1, Constants, ConstantsAssumption DEF ConstantsAssumption, Init
    <2>3. data \in [Publisher -> Msg \cup {Nothing}] /\ stored \in Seq(Msg)
      BY DEF Init
    <2> QED BY <2>1, <2>2, <2>3 DEF Init, TypeOK
  <1> QED BY <1>2 DEF Init, IInv, Held, QuitKnown, SleeperIsWoken

LEMMA FeedPreserves ==
  ASSUME IInv, NEW q \in {"worker", "parent"}, Feed(q) PROVE IInv'
  <1>1. QueueOK /\ Used \in Nat
    BY UsedType DEF IInv, TypeOK, QueueOK
  <1>2. QueueOK' /\ Used' = Used
    <2>1. /\ Head(feeder[q]) \in Element
          /\ Tail(feeder[q]) \in Seq(Element)
          /\ Len(Tail(feeder[q])) = Len(feeder[q]) - 1
      BY <1>1 DEF QueueOK, Feed
    <2>2. pipe' \in Seq(Element) /\ Len(pipe') = Len(pipe) + 1
      BY <1>1, <2>1 DEF QueueOK, Feed
    <2>3. /\ feeder' \in [{"worker", "parent"} -> Seq(Element)]
          /\ feeder'[q] = Tail(feeder[q])
          /\ \A r \in {"worker", "parent"} : r # q => feeder'[r] = feeder[r]
      BY <1>1, <2>1 DEF QueueOK, Feed
    <2>4. Used' = Used
      <3>1. CASE q = "worker"
        <4>1. Len(feeder'["worker"]) = Len(feeder["worker"]) + (-1)
          BY <2>1, <2>3, <3>1, Lengths
        <4>2. Len(feeder'["parent"]) = Len(feeder["parent"]) + 0
          BY <2>3, <3>1, Lengths
        <4>3. Len(pipe') = Len(pipe) + 1
          BY <2>2
        <4>4. -1 \in Int /\ 0 \in Int /\ 1 \in Int
          OBVIOUS
        <4>5. Used' = Used + 1 + (-1) + 0
          BY <1>1, <4>1, <4>2, <4>3, <4>4, SumOfLengths
        <4> QED BY <1>1, <4>5
      <3>2. CASE q = "parent"
        <4>1. Len(feeder'["parent"]) = Len(feeder["parent"]) + (-1)
          BY <2>1, <2>3, <3>2, Lengths
        <4>2. Len(feeder'["worker"]) = Len(feeder["worker"]) + 0
          BY <2>3, <3>2, Lengths
        <4>3. Len(pipe') = Len(pipe) + 1
          BY <2>2
        <4>4. -1 \in Int /\ 0 \in Int /\ 1 \in Int
          OBVIOUS
        <4>5. Used' = Used + 1 + 0 + (-1)
          BY <1>1, <4>1, <4>2, <4>3, <4>4, SumOfLengths
        <4> QED BY <1>1, <4>5
      <3> QED BY <3>1, <3>2
    <2> QED BY <2>2, <2>3, <2>4 DEF QueueOK
  <1>3. UNCHANGED <<quit, mpc, subscribed, taken, stored, fault, epc, data,
                    arrived, ppc, dropped>>
    BY DEF Feed, mainVars, threadVars
  <1>4. TypeOK'
    BY <1>2, <1>3 DEF IInv, TypeOK, QueueOK
  <1> QED BY <1>2, <1>3, <1>4 DEF IInv, Held, QuitKnown, SleeperIsWoken

LEMMA EnqueuePreserves ==
  ASSUME IInv, NEW p \in Publisher, Enqueue(p) \/ EnqueueDrop(p) \/ EnqueuePut(p)
  PROVE  IInv'
  <1>1. QueueOK /\ Used \in Nat /\ Used <= Capacity
    BY UsedType DEF IInv, TypeOK, QueueOK
  <1>2. UNCHANGED <<quit, mpc, subscribed, taken, stored, fault, ppc>>
    BY DEF Enqueue, EnqueueDrop, EnqueuePut, mainVars
  <1>3. CASE Enqueue(p)
    <2>1. UNCHANGED <<pipe, feeder, dropped>> /\ arrived' = arrived + 1
          /\ arrived < MaxMsgs
      BY <1>3 DEF Enqueue, queueVars
    <2>2. Used' = Used
      BY <2>1 DEF Used
    <2>3. <<p, arrived'>> \in Msg /\ arrived' \in 0 .. MaxMsgs
      BY <2>1, ConstantsAssumption DEF ConstantsAssumption, IInv, TypeOK, Msg
    <2>4. CASE quit
      <3>1. UNCHANGED <<epc, data>>
        BY <1>3, <2>4 DEF Enqueue
      <3>2. TypeOK'
        BY <1>2, <2>1, <2>2, <2>3, <3>1 DEF IInv, TypeOK
      <3> QED BY <1>2, <2>2, <3>1, <3>2
          DEF IInv, Held, QuitKnown, SleeperIsWoken
    <2>5. CASE ~quit
      <3>1. PICK at \in {"drop", "put"} : epc' = [epc EXCEPT ![p] = at]
        BY <1>3, <2>5 DEF Enqueue
      <3>2. data' = [data EXCEPT ![p] = <<p, arrived'>>]
        BY <1>3, <2>1, <2>5 DEF Enqueue
      <3>3. TypeOK'
        BY <1>2, <2>1, <2>2, <2>3, <3>1, <3>2 DEF IInv, TypeOK
      <3>4. Held'
        BY <1>2, <2>3, <3>1, <3>2 DEF IInv, TypeOK, Held
      <3> QED BY <1>2, <2>2, <2>5, <3>3, <3>4
          DEF IInv, QuitKnown, SleeperIsWoken
    <2> QED BY <2>4, <2>5
  <1>4. CASE EnqueueDrop(p)
    <2>1. QueueOK' /\ Used' <= Capacity
      <3>1. CASE \E x \in Element : Take(x)
        BY <1>1, <3>1, TakeFacts
      <3>2. CASE UNCHANGED queueVars
        BY <1>1, <3>2 DEF queueVars, QueueOK, Used
      <3> QED BY <1>4, <3>1, <3>2 DEF EnqueueDrop
    <2>2. dropped' \subseteq Element
      BY <1>4 DEF EnqueueDrop, IInv, TypeOK
    <2>3. epc' = [epc EXCEPT ![p] = "put"] /\ epc[p] = "drop"
          /\ UNCHANGED <<data, arrived>>
      BY <1>4 DEF EnqueueDrop, EnqueueAt
    <2>4. TypeOK'
      BY <1>2, <2>1, <2>2, <2>3 DEF IInv, TypeOK, QueueOK
    <2>5. Held'
      BY <1>2, <2>3 DEF IInv, TypeOK, Held
    <2>6. epc'[p] = "put"
      BY <2>3 DEF IInv, TypeOK
    <2> QED BY <1>2, <2>4, <2>5, <2>6 DEF IInv, QuitKnown, SleeperIsWoken
  <1>5. CASE EnqueuePut(p)
    <2>1. data[p] \in Element
      BY <1>5, Constants DEF IInv, Held, EnqueuePut, EnqueueAt
    <2>2. QueueOK' /\ Used' <= Capacity /\ Used' > 0
      BY <1>1, <1>5, <2>1, PutFacts DEF EnqueuePut
    <2>3. /\ epc' = [epc EXCEPT ![p] = "idle"]
          /\ data' = [data EXCEPT ![p] = Nothing]
          /\ UNCHANGED <<arrived, dropped>>
      BY <1>5 DEF EnqueuePut
    <2>4. TypeOK'
      BY <1>2, <2>2, <2>3 DEF IInv, TypeOK, QueueOK
    <2>5. Held'
      BY <1>2, <2>3 DEF IInv, TypeOK, Held
    <2> QED BY <1>2, <2>2, <2>4, <2>5 DEF IInv, QuitKnown, SleeperIsWoken
  <1> QED BY <1>3, <1>4, <1>5

LEMMA MainPreserves ==
  ASSUME IInv, Subscribe \/ MainThread \/ DequeueInterrupted PROVE IInv'
  <1>1. QueueOK /\ Used \in Nat /\ Used <= Capacity
    BY UsedType DEF IInv, TypeOK, QueueOK
  <1>2. UNCHANGED <<epc, data, arrived, ppc, dropped>>
    BY DEF MainThread, DequeueInterrupted, Connect, InitTest, Subscribe,
           DequeueLoop, DequeueGet, DequeueStore, Cleanup, DrainTest, DrainGet, threadVars
  <1>3. QueueOK' /\ Used' <= Capacity
    <2>1. CASE \E x \in Element : Take(x)
      BY <1>1, <2>1, TakeFacts
    <2>2. CASE UNCHANGED queueVars
      BY <1>1, <2>2 DEF queueVars, QueueOK, Used
    <2> QED BY <2>1, <2>2
        DEF MainThread, DequeueInterrupted, Connect, InitTest, Subscribe,
            DequeueLoop, DequeueGet, DequeueStore, Cleanup, DrainTest, DrainGet
  <1> DEFINE Own == /\ quit' \in BOOLEAN
                    /\ mpc' \in {"start", "init", "lookup", "loop", "get",
                                 "store", "cleanup", "drain", "drainGet",
                                 "exited"}
                    /\ subscribed' \in BOOLEAN
                    /\ taken' \in Msg \cup {Nothing}
                    /\ stored' \in Seq(Msg)
                    /\ fault' \in {"none", "database", "lookup",
                                   "no_subscriber", "empty"}
                    /\ mpc' = "store" => taken' \in Msg
                    /\ mpc' = "get" => ~quit'
                    /\ quit => quit'
  <1>4. ASSUME Connect \/ InitTest \/ Subscribe \/ DequeueInterrupted PROVE Own
    <2>1. subscribed' \in BOOLEAN /\ quit' \in BOOLEAN
      BY <1>4 DEF IInv, TypeOK, Connect, InitTest, Subscribe, DequeueInterrupted
    <2> QED BY <1>4, <2>1
        DEF IInv, TypeOK, Connect, InitTest, Subscribe, DequeueInterrupted
  <1>5. ASSUME DequeueLoop PROVE Own
    BY <1>5 DEF IInv, TypeOK, DequeueLoop
  <1>6. ASSUME DequeueGet PROVE Own
    <2>1. PICK x \in Element :
            IF x = Shutdown
            THEN quit' = TRUE /\ mpc' = "loop" /\ UNCHANGED taken
            ELSE taken' = x /\ mpc' = "store" /\ UNCHANGED quit
      BY <1>6 DEF DequeueGet
    <2>2. UNCHANGED <<subscribed, stored, fault>>
      BY <1>6 DEF DequeueGet
    <2>3. quit' \in BOOLEAN /\ (quit => quit')
      BY <2>1 DEF IInv, TypeOK
    <2>4. taken' \in Msg \cup {Nothing} /\ (mpc' = "store" => taken' \in Msg)
          /\ mpc' \in {"loop", "store"}
      BY <2>1, Constants DEF IInv, TypeOK
    <2> QED BY <2>2, <2>3, <2>4 DEF IInv, TypeOK
  <1>7. ASSUME DequeueStore PROVE Own
    <2>1. taken \in Msg
      BY <1>7 DEF IInv, Held, DequeueStore
    <2>2. stored \in Seq(Msg)
      BY DEF IInv, TypeOK
    <2>3. stored' \in Seq(Msg)
      <3>1. CASE stored' = stored
        BY <2>2, <3>1
      <3>2. CASE stored' = Append(stored, taken)
        BY <2>1, <2>2, <3>2
      <3> QED BY <1>7, <3>1, <3>2 DEF DequeueStore
    <2> QED BY <1>7, <2>3 DEF IInv, TypeOK, DequeueStore
  <1>8. ASSUME Cleanup \/ DrainTest \/ DrainGet PROVE Own
    <2>1. subscribed' \in BOOLEAN
      BY <1>8 DEF IInv, TypeOK, Cleanup, DrainTest, DrainGet
    <2> QED BY <1>8, <2>1 DEF IInv, TypeOK, Cleanup, DrainTest, DrainGet
  <1>9. Own
    BY <1>4, <1>5, <1>6, <1>7, <1>8 DEF MainThread
  <1> HIDE DEF Own
  <1>10. TypeOK'
    BY <1>2, <1>3, <1>9 DEF Own, IInv, TypeOK, QueueOK
  <1>11. Held' /\ QuitKnown'
    BY <1>2, <1>9 DEF Own, IInv, Held, QuitKnown
  <1>12. SleeperIsWoken'
    BY <1>2, <1>9 DEF Own, IInv, QuitKnown, SleeperIsWoken
  <1> QED BY <1>10, <1>11, <1>12 DEF IInv

LEMMA ParentPreserves ==
  ASSUME IInv, Parent PROVE IInv'
  <1>1. QueueOK /\ Used \in Nat /\ Used <= Capacity
    BY UsedType DEF IInv, TypeOK, QueueOK
  <1>2. UNCHANGED <<mpc, subscribed, taken, stored, fault, epc, data, arrived,
                    dropped>>
    BY DEF Parent, ShutdownBegin, ShutdownPut, ShutdownEmpty, ShutdownJoin,
           mainVars, threadVars
  <1>3. CASE ShutdownPut
    <2>1. QueueOK' /\ Used' <= Capacity /\ Used' > 0
      BY <1>1, <1>3, PutFacts, Constants DEF ShutdownPut
    <2>2. ppc' = "wait" /\ quit' = quit /\ quit
      BY <1>3 DEF ShutdownPut, IInv, QuitKnown
    <2>3. TypeOK'
      BY <1>2, <2>1, <2>2 DEF IInv, TypeOK, QueueOK
    <2> QED BY <1>2, <2>1, <2>2, <2>3
        DEF IInv, Held, QuitKnown, SleeperIsWoken
  <1>4. CASE ShutdownBegin \/ ShutdownEmpty \/ ShutdownJoin
    <2>1. UNCHANGED <<pipe, feeder>> /\ Used' = Used
      BY <1>4 DEF ShutdownBegin, ShutdownEmpty, ShutdownJoin, queueVars, Used
    <2>2. quit' \in BOOLEAN /\ quit'
      BY <1>4 DEF ShutdownBegin, ShutdownEmpty, ShutdownJoin, IInv, TypeOK,
                  QuitKnown
    <2>3. ppc' \in {"put", "wait", "join", "done"}
      BY <1>4 DEF ShutdownBegin, ShutdownEmpty, ShutdownJoin
    <2>4. TypeOK'
      BY <1>2, <2>1, <2>2, <2>3 DEF IInv, TypeOK
    <2>5. Held' /\ QuitKnown'
      BY <1>2, <2>2, <2>3 DEF IInv, Held, QuitKnown
    <2>6. SleeperIsWoken'
      BY <1>2, <1>4, <2>1
      DEF ShutdownBegin, ShutdownEmpty, ShutdownJoin, IInv, QuitKnown,
          SleeperIsWoken
    <2> QED BY <2>4, <2>5, <2>6 DEF IInv
  <1> QED BY <1>3, <1>4 DEF Parent

LEMMA StutterPreserves == ASSUME IInv, UNCHANGED vars PROVE IInv'
  <1>1. UNCHANGED <<quit, pipe, feeder, mpc, subscribed, taken, stored, fault,
                    epc, data, arrived, ppc, dropped>>
    BY DEF vars, queueVars, mainVars, threadVars
  <1>2. Used' = Used
    BY <1>1 DEF Used
  <1> QED BY <1>1, <1>2 DEF IInv, TypeOK, Held, QuitKnown, SleeperIsWoken

THEOREM Invariance == Spec => []IInv
  <1>1. Init => IInv
    BY InitEstablishes
  <1>2. IInv /\ [Next]_vars => IInv'
    BY FeedPreserves, EnqueuePreserves, MainPreserves, ParentPreserves,
       StutterPreserves DEF Next
  <1> QED BY <1>1, <1>2, PTL DEF Spec

(* The variables keep their types and the queue never holds more elements  *)
(* than it has slots, with any number of callback threads.                 *)
THEOREM TypeCorrect == Spec => []TypeOK
  BY Invariance, PTL DEF IInv

(* dequeue, which reads the queue without a timeout, is never left asleep  *)
(* after the parent has put "shutdown", although a callback thread may     *)
(* take that very element out of a full queue.                             *)
THEOREM ShutdownWakes == Spec => []SleeperIsWoken
  BY Invariance, PTL DEF IInv
-----------------------------------------------------------------------------
(***************************************************************************)
(* The order of storing.  The messages of a publisher stand in one line:   *)
(* those stored, the one dequeue works on, the pipe, the worker's feeder,  *)
(* and the one that the publisher's thread is about to put.                *)
(***************************************************************************)
Before(A, B) ==
  \A a \in A \cap Msg, b \in B \cap Msg : a[1] = b[1] => a[2] < b[2]

Elems(s) == {s[i] : i \in 1 .. Len(s)}

Ordered(s) ==
  \A i, j \in 1 .. Len(s) :
    i < j /\ s[i] \in Msg /\ s[j] \in Msg /\ s[i][1] = s[j][1] => s[i][2] < s[j][2]

AtWork  == IF mpc = "store" THEN {taken} ELSE {}
InHands == {data[p] : p \in {q \in Publisher : epc[q] # "idle"}}

InLine(S, T, P, F, H, n) ==
  /\ Before(S, T) /\ Before(S, P) /\ Before(S, F) /\ Before(S, H)
  /\ Before(T, P) /\ Before(T, F) /\ Before(T, H)
  /\ Before(P, F) /\ Before(P, H)
  /\ Before(F, H)
  /\ \A m \in (S \cup T \cup P \cup F \cup H) \cap Msg : m[2] <= n

OrderInv ==
  /\ Ordered(stored) /\ Ordered(pipe) /\ Ordered(feeder["worker"])
  /\ Elems(feeder["parent"]) \subseteq {Shutdown}
  /\ \A p \in Publisher : epc[p] # "idle" => data[p][1] = p
  /\ InLine(Elems(stored), AtWork, Elems(pipe), Elems(feeder["worker"]), InHands,
            arrived)

(* Elements leave a sequence at its head and enter it at its end. *)
LEMMA HeadLeaves ==
  ASSUME NEW s \in Seq(Element), s # <<>>, Ordered(s)
  PROVE  /\ Ordered(Tail(s)) /\ Before({Head(s)}, Elems(Tail(s)))
         /\ Elems(Tail(s)) \subseteq Elems(s) /\ Head(s) \in Elems(s)
         /\ Tail(s) \in Seq(Element) /\ Head(s) \in Element
  <1>1. /\ Len(s) \in Nat \ {0} /\ Head(s) = s[1] /\ Tail(s) \in Seq(Element)
        /\ Len(Tail(s)) = Len(s) - 1
        /\ \A i \in 1 .. Len(s) - 1 : Tail(s)[i] = s[i + 1]
    OBVIOUS
  <1>2. \A i \in 1 .. Len(s) - 1 : i + 1 \in 1 .. Len(s) /\ 1 < i + 1
    BY <1>1
  <1>3. Ordered(Tail(s))
    <2> SUFFICES ASSUME NEW i \in 1 .. Len(s) - 1, NEW j \in 1 .. Len(s) - 1, i < j,
                        s[i + 1] \in Msg, s[j + 1] \in Msg, s[i + 1][1] = s[j + 1][1]
                 PROVE  s[i + 1][2] < s[j + 1][2]
      BY <1>1 DEF Ordered
    <2>1. i + 1 < j + 1
      BY <1>1
    <2> QED BY <1>2, <2>1 DEF Ordered
  <1>4. Before({Head(s)}, Elems(Tail(s)))
    <2> SUFFICES ASSUME NEW i \in 1 .. Len(s) - 1,
                        s[1] \in Msg, s[i + 1] \in Msg, s[1][1] = s[i + 1][1]
                 PROVE  s[1][2] < s[i + 1][2]
      BY <1>1 DEF Before, Elems
    <2>1. 1 \in 1 .. Len(s)
      BY <1>1
    <2> QED BY <1>2, <2>1 DEF Ordered
  <1>5. Elems(Tail(s)) \subseteq Elems(s) /\ Head(s) \in Elems(s)
    BY <1>1, <1>2 DEF Elems
  <1> QED BY <1>1, <1>3, <1>4, <1>5

LEMMA LastEnters ==
  ASSUME NEW s \in Seq(Element), NEW x \in Element, Ordered(s), Before(Elems(s), {x})
  PROVE  Ordered(Append(s, x)) /\ Elems(Append(s, x)) = Elems(s) \cup {x}
  <1> DEFINE t == Append(s, x)
  <1>1. /\ Len(s) \in Nat /\ Len(t) = Len(s) + 1 /\ t[Len(s) + 1] = x
        /\ \A i \in 1 .. Len(s) : t[i] = s[i]
    OBVIOUS
  <1> HIDE DEF t
  <1>2. \A i \in 1 .. Len(t) : i \in 1 .. Len(s) \/ i = Len(s) + 1
    BY <1>1
  <1>3. Elems(t) = Elems(s) \cup {x}
    <2>1. Len(s) + 1 \in 1 .. Len(t) /\ 1 .. Len(s) \subseteq 1 .. Len(t)
      BY <1>1
    <2> QED BY <1>1, <1>2, <2>1 DEF Elems
  <1>4. Ordered(t)
    <2> SUFFICES ASSUME NEW i \in 1 .. Len(t), NEW j \in 1 .. Len(t), i < j,
                        t[i] \in Msg, t[j] \in Msg, t[i][1] = t[j][1]
                 PROVE  t[i][2] < t[j][2]
      BY DEF Ordered
    <2>1. i \in 1 .. Len(s)
      BY <1>1
    <2>2. CASE j \in 1 .. Len(s)
      BY <1>1, <2>1, <2>2 DEF Ordered
    <2>3. CASE j = Len(s) + 1
      <3>1. t[j] = x /\ t[i] = s[i] /\ s[i] \in Elems(s)
        BY <1>1, <2>1, <2>3 DEF Elems
      <3> QED BY <3>1 DEF Before
    <2> QED BY <1>2, <2>2, <2>3
  <1> QED BY <1>3, <1>4 DEF t

(* Fewer elements are in line as well. *)
LEMMA FewerInLine ==
  ASSUME NEW S, NEW T, NEW P, NEW F, NEW H, NEW n \in Nat, InLine(S, T, P, F, H, n),
         NEW S1 \in SUBSET S, NEW T1 \in SUBSET T, NEW P1 \in SUBSET P,
         NEW F1 \in SUBSET F, NEW H1 \in SUBSET H
  PROVE  InLine(S1, T1, P1, F1, H1, n)
  BY DEF InLine, Before

(* The places and what decides about them. *)
LEMMA SamePlaces ==
  ASSUME OrderInv,
         UNCHANGED <<stored, pipe, feeder, taken, epc, data, arrived>>,
         mpc' = "store" => mpc = "store", IInv
  PROVE  OrderInv'
  <1>1. AtWork' \subseteq AtWork /\ InHands' = InHands
    BY DEF AtWork, InHands
  <1>2. arrived \in Nat
    BY DEF IInv, TypeOK
  <1>3. InLine(Elems(stored), AtWork', Elems(pipe), Elems(feeder["worker"]), InHands,
               arrived)
    BY <1>1, <1>2, FewerInLine DEF OrderInv
  <1> QED BY <1>1, <1>3 DEF OrderInv

LEMMA TakeOrdered ==
  ASSUME IInv, OrderInv, NEW x, Take(x)
  PROVE  /\ Ordered(pipe') /\ Before({x}, Elems(pipe')) /\ feeder' = feeder
         /\ Elems(pipe') \subseteq Elems(pipe) /\ x \in Elems(pipe)
  BY HeadLeaves DEF Take, IInv, TypeOK, OrderInv

(* An element that is taken and not kept leaves the rest in order. *)
LEMMA TakenIsGone ==
  ASSUME IInv, OrderInv, NEW x, Take(x), UNCHANGED <<stored, arrived, data>>,
         mpc' # "store", InHands' = InHands,
         \A p \in Publisher : epc'[p] # "idle" => epc[p] # "idle"
  PROVE  OrderInv'
  <1>1. /\ Ordered(pipe') /\ Elems(pipe') \subseteq Elems(pipe) /\ feeder' = feeder
    BY TakeOrdered
  <1>2. AtWork' = {} /\ arrived \in Nat
    BY DEF AtWork, IInv, TypeOK
  <1>3. InLine(Elems(stored), AtWork', Elems(pipe'), Elems(feeder["worker"]),
               InHands, arrived)
    BY <1>1, <1>2, FewerInLine DEF OrderInv
  <1> QED BY <1>1, <1>3 DEF OrderInv

(* The parent puts no messages. *)
LEMMA ParentPutsNoMessage ==
  ASSUME OrderInv
  PROVE  /\ Ordered(feeder["parent"]) /\ Before(Elems(feeder["parent"]), {Shutdown})
         /\ Shutdown \in Element
  <1>1. \A i \in 1 .. Len(feeder["parent"]) : feeder["parent"][i] \notin Msg
    <2> SUFFICES ASSUME NEW i \in 1 .. Len(feeder["parent"])
                 PROVE  feeder["parent"][i] \notin Msg
      OBVIOUS
    <2>1. feeder["parent"][i] \in Elems(feeder["parent"])
      BY DEF Elems
    <2> QED BY <2>1, Constants DEF OrderInv
  <1>2. Ordered(feeder["parent"])
    BY <1>1 DEF Ordered
  <1> QED BY <1>2, Constants DEF Before

LEMMA FeedOrdered ==
  ASSUME IInv, OrderInv, NEW q \in {"worker", "parent"}, Feed(q)
  PROVE  OrderInv'
  <1> DEFINE x == Head(feeder[q])
  <1>1. /\ feeder[q] \in Seq(Element) /\ feeder[q] # <<>> /\ pipe \in Seq(Element)
        /\ pipe' = Append(pipe, x) /\ feeder'[q] = Tail(feeder[q])
        /\ \A r \in {"worker", "parent"} : r # q => feeder'[r] = feeder[r]
    BY DEF Feed, IInv, TypeOK
  <1>2. UNCHANGED <<mpc, taken, stored, epc, data, arrived>>
    BY DEF Feed, mainVars, threadVars
  <1>3. AtWork' = AtWork /\ InHands' = InHands
    BY <1>2 DEF AtWork, InHands
  <1>4. CASE q = "worker"
    <2>1. /\ Ordered(feeder'["worker"]) /\ Before({x}, Elems(feeder'["worker"]))
          /\ Elems(feeder'["worker"]) \subseteq Elems(feeder["worker"])
          /\ x \in Elems(feeder["worker"]) /\ x \in Element
      BY <1>1, <1>4, HeadLeaves DEF OrderInv
    <2> HIDE DEF x
    <2>2. Before(Elems(pipe), {x})
      BY <2>1 DEF OrderInv, InLine, Before
    <2>3. Ordered(pipe') /\ Elems(pipe') = Elems(pipe) \cup {x}
      BY <1>1, <2>1, <2>2, LastEnters DEF OrderInv
    <2>4. InLine(Elems(stored), AtWork, Elems(pipe'), Elems(feeder'["worker"]), InHands,
                 arrived)
      BY <2>1, <2>3 DEF OrderInv, InLine, Before
    <2> QED BY <1>1, <1>2, <1>3, <1>4, <2>1, <2>3, <2>4 DEF OrderInv
  <1>5. CASE q = "parent"
    <2>1. Elems(feeder["parent"]) \subseteq {Shutdown}
      BY DEF OrderInv
    <2>2. Ordered(feeder["parent"])
      BY ParentPutsNoMessage
    <2>3. /\ Elems(feeder'["parent"]) \subseteq {Shutdown}
          /\ x = Shutdown /\ x \in Element
      BY <1>1, <1>5, <2>1, <2>2, HeadLeaves
    <2> HIDE DEF x
    <2>4. Before(Elems(pipe), {x})
      BY <2>3, Constants DEF Before
    <2>5. Ordered(pipe') /\ Elems(pipe') = Elems(pipe) \cup {x}
      BY <1>1, <2>3, <2>4, LastEnters DEF OrderInv
    <2>6. InLine(Elems(stored), AtWork, Elems(pipe'), Elems(feeder["worker"]), InHands,
                 arrived)
      BY <2>3, <2>5, Constants DEF OrderInv, InLine, Before
    <2> QED BY <1>1, <1>2, <1>3, <1>5, <2>3, <2>5, <2>6 DEF OrderInv
  <1> QED BY <1>4, <1>5

LEMMA EnqueueOrdered ==
  ASSUME IInv, OrderInv, NEW p \in Publisher, Enqueue(p)
  PROVE  OrderInv'
  <1>1. /\ UNCHANGED <<pipe, feeder, mpc, taken, stored>>
        /\ arrived' = arrived + 1 /\ arrived \in Nat /\ epc[p] = "idle"
    BY DEF Enqueue, EnqueueAt, queueVars, mainVars, IInv, TypeOK
  <1>2. AtWork' = AtWork
    BY <1>1 DEF AtWork
  <1> DEFINE new == <<p, arrived + 1>>
  <1>3. /\ \A q \in Publisher : epc'[q] # "idle" => data'[q][1] = q
        /\ InHands' \subseteq InHands \cup {new}
    <2>1. CASE quit
      <3>1. UNCHANGED <<epc, data>>
        BY <2>1 DEF Enqueue
      <3> QED BY <3>1 DEF OrderInv, InHands
    <2>2. CASE ~quit
      <3>1. /\ data' = [data EXCEPT ![p] = new]
            /\ \A q \in Publisher : q # p => epc'[q] = epc[q]
        BY <2>2 DEF Enqueue, IInv, TypeOK
      <3>2. \A q \in Publisher : IF q = p THEN data'[q] = new ELSE data'[q] = data[q]
        BY <3>1 DEF IInv, TypeOK
      <3> QED BY <3>1, <3>2 DEF OrderInv, InHands
    <2> QED BY <2>1, <2>2
  <1>4. InLine(Elems(stored), AtWork, Elems(pipe), Elems(feeder["worker"]),
               InHands \cup {new}, arrived + 1)
    <2>1. \A m \in Msg : m[2] \in Nat
      BY DEF Msg
    <2> QED BY <1>1, <2>1 DEF OrderInv, InLine, Before
  <1>5. InLine(Elems(stored), AtWork, Elems(pipe), Elems(feeder["worker"]),
               InHands', arrived + 1)
    BY <1>1, <1>3, <1>4, FewerInLine
  <1> QED BY <1>1, <1>2, <1>3, <1>5 DEF OrderInv

LEMMA DropOrdered ==
  ASSUME IInv, OrderInv, NEW p \in Publisher, EnqueueDrop(p)
  PROVE  OrderInv'
  <1>1. /\ UNCHANGED <<mpc, taken, stored, data, arrived>>
        /\ epc' = [epc EXCEPT ![p] = "put"] /\ epc[p] = "drop"
    BY DEF EnqueueDrop, EnqueueAt, mainVars
  <1>2. \A q \in Publisher : epc'[q] # "idle" <=> epc[q] # "idle"
    BY <1>1 DEF IInv, TypeOK
  <1>3. InHands' = InHands /\ AtWork' = AtWork
    BY <1>1, <1>2 DEF InHands, AtWork
  <1>4. Ordered(pipe') /\ Elems(pipe') \subseteq Elems(pipe) /\ feeder' = feeder
    <2>1. CASE \E x \in Element : Take(x)
      BY <2>1, TakeOrdered
    <2>2. CASE UNCHANGED queueVars
      BY <2>2 DEF queueVars, OrderInv
    <2> QED BY <2>1, <2>2 DEF EnqueueDrop
  <1>5. InLine(Elems(stored), AtWork, Elems(pipe'), Elems(feeder["worker"]), InHands,
               arrived)
    <2>1. arrived \in Nat
      BY DEF IInv, TypeOK
    <2> QED BY <1>4, <2>1, FewerInLine DEF OrderInv
  <1> QED BY <1>1, <1>2, <1>3, <1>4, <1>5 DEF OrderInv

LEMMA PutOrdered ==
  ASSUME IInv, OrderInv, NEW p \in Publisher, EnqueuePut(p)
  PROVE  OrderInv'
  <1> DEFINE x == data[p]
  <1>1. /\ UNCHANGED <<pipe, mpc, taken, stored, arrived>>
        /\ epc' = [epc EXCEPT ![p] = "idle"] /\ epc[p] = "put"
        /\ data' = [data EXCEPT ![p] = Nothing]
        /\ feeder' = [feeder EXCEPT !["worker"] = Append(@, x)]
    BY DEF EnqueuePut, EnqueueAt, Put, mainVars
  <1>2. x \in Msg /\ x \in Element /\ x[1] = p /\ x \in InHands
    BY <1>1, Constants DEF IInv, Held, OrderInv, InHands
  <1>3. AtWork' = AtWork
    BY <1>1 DEF AtWork
  <1>4. \A q \in Publisher : epc'[q] # "idle" =>
          q # p /\ epc[q] # "idle" /\ data'[q] = data[q] /\ data[q][1] = q
    BY <1>1 DEF IInv, TypeOK, OrderInv
  <1>5. InHands' \subseteq InHands /\ \A h \in InHands' : h[1] # p
    BY <1>4 DEF InHands
  <1> HIDE DEF x
  <1>6. Before(Elems(feeder["worker"]), {x})
    BY <1>2 DEF OrderInv, InLine, Before
  <1>7. /\ feeder'["worker"] = Append(feeder["worker"], x)
        /\ feeder'["parent"] = feeder["parent"] /\ feeder["worker"] \in Seq(Element)
    BY <1>1 DEF IInv, TypeOK
  <1>8. /\ Ordered(feeder'["worker"])
        /\ Elems(feeder'["worker"]) = Elems(feeder["worker"]) \cup {x}
    BY <1>2, <1>6, <1>7, LastEnters DEF OrderInv
  <1>9. InLine(Elems(stored), AtWork, Elems(pipe), Elems(feeder'["worker"]), InHands',
               arrived)
    BY <1>2, <1>5, <1>8 DEF OrderInv, InLine, Before
  <1> QED BY <1>1, <1>3, <1>4, <1>7, <1>8, <1>9 DEF OrderInv

LEMMA GetOrdered ==
  ASSUME IInv, OrderInv, DequeueGet
  PROVE  OrderInv'
  <1>1. PICK x \in Element :
          /\ Take(x)
          /\ IF x = Shutdown
             THEN mpc' = "loop"
             ELSE taken' = x /\ mpc' = "store"
    BY DEF DequeueGet
  <1>2. UNCHANGED <<stored, epc, data, arrived>>
    BY DEF DequeueGet, threadVars
  <1>3. InHands' = InHands
    BY <1>2 DEF InHands
  <1>4. AtWork' \subseteq {x}
    BY <1>1 DEF AtWork
  <1>5. /\ Ordered(pipe') /\ Before({x}, Elems(pipe')) /\ feeder' = feeder
        /\ Elems(pipe') \subseteq Elems(pipe) /\ x \in Elems(pipe)
    BY <1>1, TakeOrdered
  <1>6. InLine(Elems(stored), AtWork', Elems(pipe'), Elems(feeder["worker"]), InHands,
               arrived)
    BY <1>4, <1>5 DEF OrderInv, InLine, Before
  <1> QED BY <1>2, <1>3, <1>5, <1>6 DEF OrderInv

LEMMA StoreOrdered ==
  ASSUME IInv, OrderInv, DequeueStore
  PROVE  OrderInv'
  <1>1. /\ UNCHANGED <<pipe, feeder, epc, data, arrived>>
        /\ mpc' # "store" /\ mpc = "store"
        /\ stored' = Append(stored, taken) \/ stored' = stored
    BY DEF DequeueStore, queueVars, threadVars
  <1>2. AtWork = {taken} /\ AtWork' = {} /\ InHands' = InHands
    BY <1>1 DEF AtWork, InHands
  <1>3. taken \in Element /\ stored \in Seq(Element)
    <2>1. taken \in Msg /\ stored \in Seq(Msg) /\ Msg \subseteq Element
      BY <1>1, Constants DEF IInv, Held, TypeOK
    <2> QED BY <2>1
  <1>4. Ordered(stored') /\ Elems(stored') \subseteq Elems(stored) \cup {taken}
    <2>1. Before(Elems(stored), {taken})
      BY <1>2 DEF OrderInv, InLine
    <2>2. CASE stored' = Append(stored, taken)
      BY <1>3, <2>1, <2>2, LastEnters DEF OrderInv
    <2>3. CASE stored' = stored
      BY <2>3 DEF OrderInv
    <2> QED BY <1>1, <2>2, <2>3
  <1>5. InLine(Elems(stored'), AtWork', Elems(pipe), Elems(feeder["worker"]), InHands,
               arrived)
    BY <1>2, <1>4 DEF OrderInv, InLine, Before
  <1> QED BY <1>1, <1>2, <1>4, <1>5 DEF OrderInv

LEMMA MainOrdered ==
  ASSUME IInv, OrderInv, Subscribe \/ MainThread \/ DequeueInterrupted
  PROVE  OrderInv'
  <1>1. CASE Connect \/ InitTest \/ Subscribe \/ DequeueLoop \/ Cleanup \/ DrainTest
             \/ DequeueInterrupted
    <2>1. /\ UNCHANGED <<stored, pipe, feeder, taken, epc, data, arrived>>
          /\ mpc' # "store"
      BY <1>1 DEF Connect, InitTest, Subscribe, DequeueLoop, Cleanup, DrainTest,
                  DequeueInterrupted, queueVars, threadVars
    <2> QED BY <2>1, SamePlaces
  <1>2. CASE DrainGet
    <2>1. /\ UNCHANGED <<stored, taken, epc, data, arrived>> /\ mpc' # "store"
          /\ InHands' = InHands
      BY <1>2 DEF DrainGet, threadVars, InHands
    <2>2. CASE \E x \in Element : Take(x)
      BY <2>1, <2>2, TakenIsGone
    <2>3. CASE UNCHANGED queueVars
      BY <2>1, <2>3, SamePlaces DEF queueVars
    <2> QED BY <1>2, <2>2, <2>3 DEF DrainGet
  <1> QED BY <1>1, <1>2, GetOrdered, StoreOrdered DEF MainThread

LEMMA ParentOrdered ==
  ASSUME IInv, OrderInv, Parent
  PROVE  OrderInv'
  <1>1. UNCHANGED <<stored, pipe, mpc, taken, epc, data, arrived>>
    BY DEF Parent, ShutdownBegin, ShutdownPut, ShutdownEmpty, ShutdownJoin, Put,
           queueVars, mainVars, threadVars
  <1>2. CASE ShutdownPut
    <2>1. /\ feeder'["parent"] = Append(feeder["parent"], Shutdown)
          /\ feeder'["worker"] = feeder["worker"]
          /\ feeder["parent"] \in Seq(Element)
      BY <1>2 DEF ShutdownPut, Put, IInv, TypeOK
    <2>2. Ordered(feeder["parent"]) /\ Before(Elems(feeder["parent"]), {Shutdown})
          /\ Shutdown \in Element
      BY ParentPutsNoMessage
    <2>3. Elems(feeder'["parent"]) \subseteq {Shutdown}
      BY <2>1, <2>2, LastEnters DEF OrderInv
    <2>4. AtWork' = AtWork /\ InHands' = InHands
      BY <1>1 DEF AtWork, InHands
    <2> QED BY <1>1, <2>1, <2>3, <2>4 DEF OrderInv
  <1>3. CASE ShutdownBegin \/ ShutdownEmpty \/ ShutdownJoin
    <2>1. feeder' = feeder
      BY <1>3 DEF ShutdownBegin, ShutdownEmpty, ShutdownJoin, queueVars
    <2> QED BY <1>1, <2>1, SamePlaces
  <1> QED BY <1>2, <1>3 DEF Parent

LEMMA InitOrdered == Init => OrderInv
  <1> SUFFICES ASSUME Init PROVE OrderInv
    OBVIOUS
  <1>1. Elems(<<>>) = {} /\ Ordered(<<>>)
    BY DEF Elems, Ordered
  <1>2. AtWork = {} /\ InHands = {}
    BY DEF Init, AtWork, InHands
  <1>3. /\ stored = <<>> /\ pipe = <<>> /\ feeder["worker"] = <<>>
        /\ feeder["parent"] = <<>> /\ \A p \in Publisher : epc[p] = "idle"
    BY DEF Init
  <1>4. InLine({}, {}, {}, {}, {}, arrived)
    BY DEF InLine, Before
  <1> QED BY <1>1, <1>2, <1>3, <1>4 DEF OrderInv

(* The messages of a publisher are stored in the order of their arrival,   *)
(* although they pass through two queues that its own callback thread and  *)
(* those of other publishers shorten at the other end.                     *)
THEOREM PublishersOrderIsKept == Spec => []StoredInOrder
  <1>1. Init => OrderInv
    BY InitOrdered
  <1>2. IInv /\ OrderInv /\ [Next]_vars => OrderInv'
    <2> SUFFICES ASSUME IInv, OrderInv, [Next]_vars PROVE OrderInv'
      OBVIOUS
    <2>1. CASE UNCHANGED vars
      BY <2>1, SamePlaces DEF vars, queueVars, mainVars, threadVars
    <2> QED BY <2>1, FeedOrdered, EnqueueOrdered, DropOrdered, PutOrdered,
               MainOrdered, ParentOrdered DEF Next
  <1>3. IInv /\ OrderInv => StoredInOrder
    <2> SUFFICES ASSUME IInv, OrderInv PROVE StoredInOrder
      OBVIOUS
    <2>1. stored \in Seq(Msg) /\ DOMAIN stored = 1 .. Len(stored)
      BY DEF IInv, TypeOK
    <2>2. \A i \in 1 .. Len(stored) : stored[i] \in Msg
      BY <2>1
    <2> QED BY <2>1, <2>2 DEF OrderInv, Ordered, StoredInOrder
  <1> QED BY <1>1, <1>2, <1>3, Invariance, PTL DEF Spec
=============================================================================
