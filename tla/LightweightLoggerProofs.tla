---------------------- MODULE LightweightLoggerProofs ----------------------
(***************************************************************************)
(* Proofs about LightweightLogger, for every buffer capacity, every number *)
(* of messages and both values of wait_for_insert.                         *)
(***************************************************************************)
EXTENDS LightweightLogger, TLAPS

(***************************************************************************)
(* Sequences.                                                              *)
(***************************************************************************)

(* Appending adds one element to the range. *)
LEMMA RangeAppend ==
  ASSUME NEW S, NEW s \in Seq(S), NEW x
  PROVE  Range(Append(s, x)) = Range(s) \cup {x}
BY DEF Range

(* A nonempty sequence is its head and its tail. *)
LEMMA RangeHeadTail ==
  ASSUME NEW S, NEW s \in Seq(S), s # <<>>
  PROVE  /\ Range(s) = {Head(s)} \cup Range(Tail(s))
         /\ Head(s) \in S
<1>1. Head(s) = s[1] /\ 1 \in 1 .. Len(s) /\ Len(Tail(s)) = Len(s) - 1
      /\ Head(s) \in S
  OBVIOUS
<1>2. \A i \in 1 .. Len(s) - 1 : Tail(s)[i] = s[i + 1]
  OBVIOUS
<1>3. \A i \in 1 .. Len(s) : i = 1 \/ (i - 1) \in 1 .. Len(s) - 1
  OBVIOUS
<1>4. ASSUME NEW x \in Range(s) PROVE x \in {Head(s)} \cup Range(Tail(s))
  <2>1. PICK i \in 1 .. Len(s) : x = s[i]
    BY DEF Range
  <2>2. CASE i = 1
    BY <2>1, <2>2, <1>1
  <2>3. CASE (i - 1) \in 1 .. Len(s) - 1
    <3>1. Tail(s)[i - 1] = x
      BY <2>1, <2>3, <1>2
    <3>. QED  BY <3>1, <2>3, <1>1 DEF Range
  <2>. QED  BY <2>2, <2>3, <1>3
<1>5. ASSUME NEW x \in Range(Tail(s)) PROVE x \in Range(s)
  <2>1. PICK i \in 1 .. Len(s) - 1 : x = Tail(s)[i]
    BY <1>1 DEF Range
  <2>2. x = s[i + 1] /\ (i + 1) \in 1 .. Len(s)
    BY <2>1, <1>2
  <2>. QED  BY <2>2 DEF Range
<1>6. Head(s) \in Range(s)
  BY <1>1 DEF Range
<1>. QED  BY <1>1, <1>4, <1>5, <1>6

(* The buffer is sorted: its head is smaller than all that follows. *)
Increasing(s) == \A i, j \in 1 .. Len(s) : i < j => s[i] < s[j]

LEMMA IncreasingTail ==
  ASSUME NEW s \in Seq(Nat), s # <<>>, Increasing(s)
  PROVE  /\ Increasing(Tail(s))
         /\ \A x \in Range(Tail(s)) : Head(s) < x
<1>1. \A i \in 1 .. Len(s) - 1 : Tail(s)[i] = s[i + 1]
  OBVIOUS
<1>2. Len(Tail(s)) = Len(s) - 1 /\ Head(s) = s[1] /\ Len(s) \in Nat \ {0}
  OBVIOUS
<1>3. Increasing(Tail(s))
  BY <1>1, <1>2 DEF Increasing
<1>4. \A i \in 1 .. Len(s) - 1 : s[1] < s[i + 1]
  BY <1>2 DEF Increasing
<1>. QED  BY <1>1, <1>2, <1>3, <1>4 DEF Range

LEMMA IncreasingAppend ==
  ASSUME NEW s \in Seq(Nat), NEW x \in Nat, Increasing(s),
         \A y \in Range(s) : y < x
  PROVE  Increasing(Append(s, x))
BY DEF Increasing, Range
-----------------------------------------------------------------------------
(***************************************************************************)
(* The inductive invariant.  TypeOK is not inductive by itself: that the   *)
(* logger thread inserts a message needs that it holds one.                *)
(***************************************************************************)
HandsInv ==
  /\ lpc = "insert" <=> inHand # NoMsg
  /\ cpc # "idle" => received # NoMsg
  /\ received # NoMsg => received = arrived
  /\ (Running /\ cpc = "idle") => received = NoMsg
  /\ onTheFly /\ cpc # "idle" => buffer = <<>>
  /\ phase # "started" => lpc = "none"

OrderInv ==
  /\ Increasing(buffer)
  /\ \A x \in Range(buffer) :
       /\ inHand < x /\ x <= arrived
       /\ received # NoMsg => x < received
       /\ x \notin Range(stored) /\ x \notin overwritten /\ x \notin failed
       /\ \A y \in Range(stored) : y < x

Somewhere(m) == \/ m \in Range(stored) \/ m \in overwritten \/ m \in failed
                \/ m \in Range(buffer) \/ m = inHand \/ m = received

WhereInv ==
  /\ \A m \in Msg : m <= arrived <=> Somewhere(m)
  /\ \A m \in Msg :
       /\ m \in Range(stored) => m \notin overwritten /\ m \notin failed
       /\ m \in overwritten => m \notin failed
       /\ m = inHand \/ m = received =>
            m \notin Range(stored) /\ m \notin overwritten /\ m \notin failed
  /\ inHand # NoMsg => inHand # received
  /\ \A i, j \in DOMAIN stored : i # j => stored[i] # stored[j]

IInv == TypeOK /\ HandsInv /\ OrderInv /\ WhereInv
-----------------------------------------------------------------------------
(* Only messages are buffered and stored, and messages are positive. *)
LEMMA MessagesOnly ==
  ASSUME TypeOK
  PROVE  /\ Range(buffer) \subseteq Msg /\ Range(stored) \subseteq Msg
         /\ Msg \subseteq Nat /\ \A x \in Msg : 0 < x
<1>1. Range(buffer) \subseteq Msg /\ Range(stored) \subseteq Msg
  BY DEF TypeOK, Range
<1>. QED  BY <1>1 DEF Msg

(* How the two operations of the circular buffer change what it holds. *)
LEMMA PopFrontFacts ==
  ASSUME TypeOK, OrderInv, PopFront
  PROVE  /\ buffer' \in Seq(Msg) /\ Len(buffer') <= Capacity
         /\ inHand' \in Msg /\ inHand' \in Range(buffer)
         /\ Range(buffer) = {inHand'} \cup Range(buffer')
         /\ Increasing(buffer')
         /\ \A x \in Range(buffer') : inHand' < x
         /\ lpc' = "insert"
<1>1. buffer \in Seq(Msg) /\ buffer \in Seq(Nat) /\ buffer # <<>>
  BY ConstantsAssumption DEF TypeOK, PopFront, Msg
<1>2. buffer' \in Seq(Msg) /\ Len(buffer') <= Capacity
  BY <1>1, ConstantsAssumption DEF TypeOK, PopFront, ConstantsAssumption
<1>3. /\ Range(buffer) = {Head(buffer)} \cup Range(Tail(buffer))
      /\ Head(buffer) \in Msg
  BY <1>1, RangeHeadTail
<1>4. /\ Increasing(Tail(buffer))
      /\ \A x \in Range(Tail(buffer)) : Head(buffer) < x
  BY <1>1, IncreasingTail DEF OrderInv
<1>. QED  BY <1>2, <1>3, <1>4 DEF PopFront

LEMMA PushBackFacts ==
  ASSUME TypeOK, OrderInv, NEW m \in Msg, PushBack(m),
         \A x \in Range(buffer) : x < m
  PROVE  /\ buffer' \in Seq(Msg) /\ Len(buffer') <= Capacity
         /\ Increasing(buffer')
         /\ overwritten' \subseteq Msg
         /\ overwritten \subseteq overwritten'
         /\ overwritten' \ overwritten \subseteq Range(buffer)
         /\ Range(buffer') =
              (Range(buffer) \ (overwritten' \ overwritten)) \cup {m}
<1> USE DEF Msg
<1>1. /\ buffer \in Seq(Msg) /\ buffer \in Seq(Nat) /\ m \in Nat
      /\ Len(buffer) <= Capacity /\ Capacity \in Nat \ {0}
      /\ overwritten \subseteq Msg /\ Increasing(buffer)
  BY ConstantsAssumption DEF TypeOK, OrderInv, ConstantsAssumption
<1>2. CASE Len(buffer) < Capacity
  <2>1. buffer' = Append(buffer, m) /\ overwritten' = overwritten
    BY <1>2 DEF PushBack
  <2>2. Increasing(Append(buffer, m))
    BY <1>1, IncreasingAppend
  <2>3. Range(Append(buffer, m)) = Range(buffer) \cup {m}
    BY <1>1, RangeAppend
  <2>4. Append(buffer, m) \in Seq(Msg) /\ Len(Append(buffer, m)) <= Capacity
    BY <1>1, <1>2
  <2>. QED  BY <1>1, <2>1, <2>2, <2>3, <2>4
<1>3. CASE ~(Len(buffer) < Capacity)
  <2> DEFINE t == Tail(buffer)
  <2>1. buffer' = Append(t, m) /\ overwritten' = overwritten \cup {Head(buffer)}
    BY <1>3 DEF PushBack
  <2>2. buffer # <<>>
    BY <1>1, <1>3
  <2>3. t \in Seq(Msg) /\ t \in Seq(Nat) /\ Len(t) = Len(buffer) - 1
    BY <1>1, <2>2
  <2>4. Range(buffer) = {Head(buffer)} \cup Range(t) /\ Head(buffer) \in Msg
    BY <1>1, <2>2, RangeHeadTail
  <2>5. Increasing(t) /\ \A x \in Range(t) : Head(buffer) < x
    BY <1>1, <2>2, IncreasingTail
  <2>6. Head(buffer) \notin overwritten
    BY <2>4 DEF OrderInv
  <2>7. Increasing(Append(t, m))
    BY <1>1, <2>3, <2>4, <2>5, IncreasingAppend
  <2>8. Range(Append(t, m)) = Range(t) \cup {m}
    BY <2>3, RangeAppend
  <2>9. Append(t, m) \in Seq(Msg) /\ Len(Append(t, m)) <= Capacity
    <3> HIDE DEF t
    <3>. QED  BY <1>1, <2>3
  <2>10. Head(buffer) \notin Range(t)
    <3>1. Head(buffer) \in Nat
      BY <2>4
    <3>. QED BY <3>1, <2>5
  <2>11. overwritten' \ overwritten = {Head(buffer)}
    BY <2>1, <2>6
  <2> HIDE DEF t
  <2>. QED  BY <1>1, <2>1, <2>4, <2>7, <2>8, <2>9, <2>10, <2>11
<1>. QED  BY <1>2, <1>3

(* Appending a document that the database does not hold yet. *)
LEMMA StoreFacts ==
  ASSUME TypeOK, WhereInv, NEW m \in Msg, m \notin Range(stored),
         stored' = Append(stored, m)
  PROVE  /\ stored' \in Seq(Msg)
         /\ Range(stored') = Range(stored) \cup {m}
         /\ \A i, j \in DOMAIN stored' : i # j => stored'[i] # stored'[j]
<1>1. stored \in Seq(Msg) /\ stored' \in Seq(Msg)
  BY DEF TypeOK
<1>2. Range(stored') = Range(stored) \cup {m}
  BY <1>1, RangeAppend
<1>3. \A i \in 1 .. Len(stored) : stored[i] # m
  BY DEF Range
<1>4. \A i, j \in 1 .. Len(stored) : i # j => stored[i] # stored[j]
  BY <1>1 DEF WhereInv
<1>5. \A i, j \in DOMAIN stored' : i # j => stored'[i] # stored'[j]
  BY <1>1, <1>3, <1>4
<1>. QED  BY <1>1, <1>2, <1>5
-----------------------------------------------------------------------------
(***************************************************************************)
(* The invariant is inductive: first the steps that move no message, then  *)
(* one lemma for every step that does.                                     *)
(***************************************************************************)
messages == <<buffer, stored, overwritten, failed, inHand, received, arrived>>

LEMMA NoMessageMoves ==
  ASSUME UNCHANGED messages
  PROVE  /\ OrderInv => OrderInv'
         /\ WhereInv => WhereInv'
BY DEF messages, OrderInv, WhereInv, Somewhere, Increasing, Range, NoMsg, Msg

QuietStep ==
  \/ OnInitConfigure \/ OnInitStartThread \/ RosShutdown
  \/ DestroyBegin \/ DestroyEnd
  \/ LoggerConnect \/ LoggerAnnounce \/ LoggerLoop
  \/ LoggerSpuriousWake \/ LoggerInterrupted \/ LoggerUseAfterFree
  \/ CallbackSubscribers \/ UNCHANGED vars

LEMMA QuietSteps ==
  ASSUME IInv, QuietStep
  PROVE  IInv'
<1> USE DEF vars, initVars, loggerVars, callbackVars, dbVars, messages, TypeOK,
            HandsInv, Running, LoggerRuns
<1>0. TypeOK /\ HandsInv
  BY DEF IInv
<1> DEFINE Kept == UNCHANGED messages /\ TypeOK' /\ HandsInv'
<1>1. ASSUME OnInitConfigure PROVE Kept
  BY <1>0, <1>1 DEF OnInitConfigure
<1>2. ASSUME OnInitStartThread PROVE Kept
  BY <1>0, <1>2 DEF OnInitStartThread
<1>3. ASSUME RosShutdown PROVE Kept
  <2>1. rosOk' \in BOOLEAN
    BY <1>3 DEF RosShutdown
  <2>. QED  BY <1>0, <1>3, <2>1 DEF RosShutdown
<1>4. ASSUME DestroyBegin PROVE Kept
  BY <1>0, <1>4 DEF DestroyBegin
<1>5. ASSUME DestroyEnd PROVE Kept
  BY <1>0, <1>5 DEF DestroyEnd
<1>6. ASSUME LoggerConnect PROVE Kept
  BY <1>0, <1>6 DEF LoggerConnect
<1>7. ASSUME LoggerAnnounce PROVE Kept
  BY <1>0, <1>7 DEF LoggerAnnounce
<1>8. ASSUME LoggerLoop PROVE Kept
  BY <1>0, <1>8 DEF LoggerLoop
<1>9. ASSUME LoggerSpuriousWake PROVE Kept
  BY <1>0, <1>9 DEF LoggerSpuriousWake
<1>10. ASSUME LoggerInterrupted PROVE Kept
  BY <1>0, <1>10 DEF LoggerInterrupted
<1>11. ASSUME LoggerUseAfterFree PROVE Kept
  BY <1>0, <1>11 DEF LoggerUseAfterFree
<1>12. ASSUME CallbackSubscribers PROVE Kept
  BY <1>0, <1>12 DEF CallbackSubscribers
<1>13. ASSUME UNCHANGED vars PROVE Kept
  BY <1>0, <1>13
<1> HIDE DEF Kept
<1>14. Kept
  BY <1>1, <1>2, <1>3, <1>4, <1>5, <1>6, <1>7, <1>8, <1>9, <1>10, <1>11, <1>12, <1>13 DEF QuietStep
<1>. QED  BY <1>14, NoMessageMoves DEF IInv, Kept

(* A message arrives in the callback's hand. *)
LEMMA ArrivalStep ==
  ASSUME IInv, InputCallback
  PROVE  IInv'
<1> USE ConstantsAssumption DEF ConstantsAssumption, IInv, initVars,
        loggerVars, dbVars, Running, Msg, NoMsg
<1>1. /\ arrived' = arrived + 1 /\ received' = arrived'
      /\ received = NoMsg /\ arrived \in Nat /\ arrived' \in Msg
      /\ UNCHANGED <<buffer, stored, overwritten, failed, inHand>>
  BY DEF InputCallback, TypeOK, HandsInv
<1>2. UNCHANGED <<Range(stored), Range(buffer)>>
  BY <1>1
<1>3. TypeOK' /\ HandsInv'
  <2>1. onTheFly' \in BOOLEAN
    BY DEF InputCallback, MayInsertAtOnce, TypeOK
  <2>2. onTheFly' /\ cpc' # "idle" => buffer' = <<>>
    BY <1>1 DEF InputCallback, MayInsertAtOnce
  <2>3. TypeOK'
    BY <1>1, <2>1 DEF InputCallback, TypeOK
  <2>4. /\ cpc' # "idle" => received' # NoMsg
        /\ (fault' = "none" /\ cpc' = "idle") => received' = NoMsg
    BY <1>1 DEF InputCallback
  <2>. QED  BY <1>1, <2>2, <2>3, <2>4 DEF InputCallback, HandsInv
<1>4. /\ \A x \in Range(buffer) \cup Range(stored) : x \in Msg
      /\ inHand \in Nat
  BY DEF TypeOK, Range
<1>5. OrderInv'
  BY <1>1, <1>2, <1>4 DEF OrderInv, Increasing, TypeOK
<1>6. \A m \in Msg : Somewhere(m)' <=> (Somewhere(m) \/ m = arrived + 1)
  BY <1>1, <1>2 DEF Somewhere
<1>7. WhereInv'
  <2>1. \A m \in Msg : m <= arrived' <=> Somewhere(m)'
    BY <1>1, <1>6 DEF WhereInv
  <2>2. ~ Somewhere(arrived + 1)
    BY <1>1 DEF WhereInv
  <2>3. inHand # NoMsg => inHand <= arrived
    BY DEF WhereInv, Somewhere, TypeOK
  <2>. QED  BY <1>1, <1>2, <2>1, <2>2, <2>3 DEF WhereInv, Somewhere
<1>. QED  BY <1>3, <1>5, <1>7

(* The logger thread takes the oldest message out of the buffer. *)
LEMMA PopStep ==
  ASSUME IInv, PopFront, inHand = NoMsg, lpc # "none",
         UNCHANGED <<phase, dtor, rosOk, waitForInsert, store, initialized,
                     interruptRequested, beingInterrupted, callbackVars,
                     dbVars, overwritten, fault>>
  PROVE  IInv'
<1> USE DEF IInv, callbackVars, dbVars, Running, NoMsg
<1> DEFINE B == Range(buffer)
           B2 == Range(buffer')
<1>1. /\ buffer' \in Seq(Msg) /\ Len(buffer') <= Capacity
      /\ inHand' \in Msg /\ inHand' \in B
      /\ B = {inHand'} \cup B2
      /\ Increasing(buffer')
      /\ \A x \in B2 : inHand' < x
      /\ lpc' = "insert"
  BY PopFrontFacts
<1>2. Range(stored) = Range(stored')
  OBVIOUS
<1>3. TypeOK'
  BY <1>1 DEF TypeOK
<1>4. HandsInv'
  BY <1>1 DEF HandsInv, Msg, PopFront
<1>5. OrderInv'
  BY <1>1, <1>2 DEF OrderInv
<1>6. \A m \in Msg : Somewhere(m)' <=> Somewhere(m)
  BY <1>1, <1>2 DEF Somewhere, Msg
<1>7. inHand' # received
  BY <1>1 DEF OrderInv, TypeOK, Msg
<1>8. WhereInv'
  BY <1>1, <1>2, <1>6, <1>7 DEF WhereInv, OrderInv
<1>. QED  BY <1>3, <1>4, <1>5, <1>8

(* The logger thread has inserted the message it holds. *)
LEMMA LazyInsertStep ==
  ASSUME IInv, LoggerInsertOk
  PROVE  IInv'
<1> USE DEF IInv, initVars, loggerVars, callbackVars, LoggerRuns, NoMsg
<1>1. /\ inHand \in Msg /\ inHand # 0 /\ inHand' = 0 /\ stored' = Append(stored, inHand)
      /\ lpc = "insert" /\ lpc' = "loop"
      /\ UNCHANGED <<buffer, overwritten, failed, received, arrived, cpc,
                     onTheFly, phase, fault>>
  BY DEF LoggerInsertOk, TypeOK, HandsInv
<1>2. inHand \notin Range(stored) /\ inHand # received
  BY <1>1 DEF WhereInv
<1>3. /\ stored' \in Seq(Msg)
      /\ Range(stored') = Range(stored) \cup {inHand}
      /\ \A i, j \in DOMAIN stored' : i # j => stored'[i] # stored'[j]
  BY <1>1, <1>2, StoreFacts
<1>4. Range(buffer') = Range(buffer)
  BY <1>1
<1>5. TypeOK'
  BY <1>1, <1>3 DEF LoggerInsertOk, TypeOK
<1>6. HandsInv'
  BY <1>1 DEF HandsInv, Running
<1>7. OrderInv'
  <2>1. \A x \in Range(buffer) : x \in Nat /\ 0 < x
    BY MessagesOnly
  <2>. QED  BY <1>1, <1>3, <1>4, <2>1 DEF OrderInv
<1>8. \A m \in Msg : Somewhere(m)' <=> Somewhere(m)
  BY <1>1, <1>3, <1>4 DEF Somewhere, Msg
<1>9. WhereInv'
  BY <1>1, <1>2, <1>3, <1>8 DEF WhereInv, Msg
<1>. QED  BY <1>5, <1>6, <1>7, <1>9

(* The insertion of the message the logger thread holds threw. *)
LEMMA LazyFailureStep ==
  ASSUME IInv, LoggerInsertThrows
  PROVE  IInv'
<1> USE DEF IInv, initVars, loggerVars, callbackVars, LoggerRuns, NoMsg
<1>1. /\ inHand \in Msg /\ inHand # 0 /\ inHand' = 0 /\ failed' = failed \cup {inHand}
      /\ lpc = "insert" /\ lpc' \in {"loop", "done"}
      /\ UNCHANGED <<buffer, overwritten, stored, received, arrived, cpc,
                     onTheFly, phase, fault>>
  BY DEF LoggerInsertThrows, TypeOK, HandsInv
<1>2. inHand \notin Range(stored) /\ inHand # received
  BY <1>1 DEF WhereInv
<1>3. Range(buffer') = Range(buffer) /\ Range(stored') = Range(stored)
  BY <1>1
<1>4. TypeOK'
  <2>1. interruptRequested' \in BOOLEAN
    BY DEF LoggerInsertThrows, TypeOK
  <2>. QED  BY <1>1, <2>1 DEF LoggerInsertThrows, TypeOK
<1>5. HandsInv'
  BY <1>1 DEF HandsInv, Running
<1>6. OrderInv'
  <2>1. \A x \in Range(buffer) : x \in Nat /\ 0 < x
    BY MessagesOnly
  <2>. QED  BY <1>1, <1>3, <2>1 DEF OrderInv
<1>7. \A m \in Msg : Somewhere(m)' <=> Somewhere(m)
  BY <1>1, <1>3 DEF Somewhere, Msg
<1>8. WhereInv'
  BY <1>1, <1>2, <1>3, <1>7 DEF WhereInv, Msg
<1>. QED  BY <1>4, <1>5, <1>6, <1>8

(* inputCallback inserts on the fly: the buffer is empty. *)
LEMMA InsertAtOnceStep ==
  ASSUME IInv, CallbackInsert
  PROVE  IInv'
<1> USE DEF IInv, initVars, loggerVars, NoMsg
<1>1. /\ received \in Msg /\ received' = 0 /\ buffer = <<>>
      /\ cpc' = "idle" /\ inHand # received
      /\ UNCHANGED <<buffer, overwritten, inHand, arrived, lpc, onTheFly,
                     phase, fault>>
  BY DEF CallbackInsert, TypeOK, HandsInv, WhereInv, Msg
<1>2. received \notin Range(stored)
  BY <1>1 DEF WhereInv
<1>3. Range(buffer') = Range(buffer) /\ Range(buffer) = {}
  BY <1>1 DEF Range
<1>4. CASE stored' = Append(stored, received) /\ UNCHANGED failed
  <2>1. /\ stored' \in Seq(Msg)
        /\ Range(stored') = Range(stored) \cup {received}
        /\ \A i, j \in DOMAIN stored' : i # j => stored'[i] # stored'[j]
    BY <1>1, <1>2, <1>4, StoreFacts
  <2>2. TypeOK'
    BY <1>1, <1>4, <2>1 DEF CallbackInsert, TypeOK
  <2>3. HandsInv' /\ OrderInv'
    BY <1>1, <1>3 DEF HandsInv, OrderInv, Running
  <2>4. \A m \in Msg : Somewhere(m)' <=> Somewhere(m)
    BY <1>1, <1>3, <1>4, <2>1 DEF Somewhere, Msg
  <2>5. WhereInv'
    BY <1>1, <1>2, <1>4, <2>1, <2>4 DEF WhereInv, Msg
  <2>. QED  BY <2>2, <2>3, <2>5
<1>5. CASE failed' = failed \cup {received} /\ UNCHANGED stored
  <2>1. Range(stored') = Range(stored)
    BY <1>5
  <2>2. TypeOK'
    BY <1>1, <1>5 DEF CallbackInsert, TypeOK
  <2>3. HandsInv' /\ OrderInv'
    BY <1>1, <1>3 DEF HandsInv, OrderInv, Running
  <2>4. \A m \in Msg : Somewhere(m)' <=> Somewhere(m)
    BY <1>1, <1>3, <1>5, <2>1 DEF Somewhere, Msg
  <2>5. WhereInv'
    BY <1>1, <1>2, <1>5, <2>1, <2>4 DEF WhereInv, Msg
  <2>. QED  BY <2>2, <2>3, <2>5
<1>. QED  BY <1>4, <1>5 DEF CallbackInsert

(* inputCallback puts the message into the buffer. *)
LEMMA PutStep ==
  ASSUME IInv, CallbackPut
  PROVE  IInv'
<1> USE DEF IInv, initVars, dbVars, NoMsg
<1>1. /\ received \in Msg /\ received' = 0 /\ PushBack(received)
      /\ cpc' = "idle" /\ inHand # received /\ received = arrived
      /\ ~onTheFly
      /\ lpc' = lpc \/ (lpc = "wait" /\ lpc' = "woken")
      /\ UNCHANGED <<inHand, arrived, onTheFly, phase, fault, stored, failed>>
  BY DEF CallbackPut, Put, TypeOK, HandsInv, WhereInv, Msg
<1>2. /\ received \notin Range(stored) /\ received \notin overwritten
      /\ received \notin failed /\ Range(stored') = Range(stored)
  BY <1>1 DEF WhereInv
<1>3. \A x \in Range(buffer) : x < received
  BY <1>1 DEF OrderInv, Msg
<1>4. /\ buffer' \in Seq(Msg) /\ Len(buffer') <= Capacity
      /\ Increasing(buffer')
      /\ overwritten' \subseteq Msg
      /\ overwritten \subseteq overwritten'
      /\ overwritten' \ overwritten \subseteq Range(buffer)
      /\ Range(buffer') =
           (Range(buffer) \ (overwritten' \ overwritten)) \cup {received}
  BY <1>1, <1>3, PushBackFacts
<1>5. TypeOK'
  BY <1>1, <1>4 DEF CallbackPut, TypeOK
<1>6. HandsInv'
  BY <1>1 DEF HandsInv, Running
<1>7. /\ \A x \in Range(stored) : x <= arrived /\ x # received
      /\ inHand <= arrived /\ arrived \in Nat /\ Range(stored) \subseteq Nat
      /\ inHand \in Nat
  <2>1. Range(stored) \subseteq Msg /\ arrived \in Nat /\ inHand \in Nat
    BY MessagesOnly DEF TypeOK
  <2>2. inHand = 0 \/ inHand \in Msg
    BY DEF TypeOK
  <2>. QED  BY <1>2, <2>1, <2>2 DEF WhereInv, Somewhere, Msg
<1>8. OrderInv'
  <2>1. \A x \in Range(buffer') : x \in Range(buffer) \/ x = received
    BY <1>4
  <2>2. ASSUME NEW x \in Range(buffer')
        PROVE  /\ inHand' < x /\ x <= arrived'
               /\ x \notin Range(stored') /\ x \notin overwritten'
               /\ x \notin failed' /\ \A y \in Range(stored') : y < x
    <3>1. CASE x = received
      BY <1>1, <1>2, <1>3, <1>4, <1>7, <3>1 DEF Msg
    <3>2. CASE x \in Range(buffer) /\ x # received
      BY <1>1, <1>2, <1>4, <3>2 DEF OrderInv
    <3>. QED  BY <2>1, <3>1, <3>2
  <2>. QED  BY <1>1, <1>4, <2>2 DEF OrderInv
<1>9. \A m \in Msg : Somewhere(m)' <=> Somewhere(m)
  BY <1>1, <1>2, <1>4 DEF Somewhere, Msg
<1>10. \A m \in overwritten' : m \in overwritten \/ m \in Range(buffer)
  BY <1>4
<1>11. WhereInv'
  BY <1>1, <1>2, <1>9, <1>10 DEF WhereInv, OrderInv, Msg
<1>. QED  BY <1>5, <1>6, <1>8, <1>11
-----------------------------------------------------------------------------
LEMMA InitEstablishes == Init => IInv
<1> SUFFICES ASSUME Init PROVE IInv
  OBVIOUS
<1>1. Range(buffer) = {} /\ Range(stored) = {}
  BY DEF Init, Range
<1>2. TypeOK
  <2>1. /\ rosOk \in BOOLEAN /\ initialized \in BOOLEAN
        /\ interruptRequested \in BOOLEAN /\ beingInterrupted \in BOOLEAN
        /\ onTheFly \in BOOLEAN
    BY DEF Init
  <2>2. /\ buffer \in Seq(Msg) /\ stored \in Seq(Msg)
        /\ Len(buffer) <= Capacity /\ arrived \in 0 .. MaxMsgs
    BY ConstantsAssumption DEF ConstantsAssumption, Init
  <2>. QED  BY <2>1, <2>2 DEF Init, TypeOK
<1>3. HandsInv
  BY DEF Init, HandsInv
<1>4. OrderInv
  BY <1>1 DEF Init, OrderInv, Increasing
<1>5. WhereInv
  BY <1>1 DEF Init, WhereInv, Somewhere, NoMsg, Msg
<1>. QED  BY <1>2, <1>3, <1>4, <1>5 DEF IInv

LEMMA StepPreserves == IInv /\ [Next]_vars => IInv'
<1> SUFFICES ASSUME IInv, [Next]_vars
             PROVE  IInv'
  OBVIOUS
<1>1. CASE QuietStep
  BY <1>1, QuietSteps
<1>2. CASE InputCallback
  BY <1>2, ArrivalStep
<1>3. CASE LoggerGet
  <2>1. CASE PopFront
    <3>1. inHand = NoMsg /\ lpc # "none"
      BY <1>3 DEF LoggerGet, LoggerRuns, IInv, HandsInv
    <3>. QED
      BY <1>3, <2>1, <3>1, PopStep DEF LoggerGet, initVars, callbackVars, dbVars
  <2>2. CASE ~PopFront
    <3>1. UNCHANGED messages
      BY <1>3, <2>2 DEF LoggerGet, messages, callbackVars, dbVars
    <3>2. TypeOK' /\ HandsInv'
      BY <1>3, <2>2 DEF LoggerGet, LoggerRuns, Running, IInv, TypeOK, HandsInv,
                        initVars, callbackVars, dbVars
    <3>. QED  BY <3>1, <3>2, NoMessageMoves DEF IInv
  <2>. QED  BY <2>1, <2>2
<1>4. CASE LoggerWoken
  <2>1. inHand = NoMsg /\ lpc # "none"
    BY <1>4 DEF LoggerWoken, LoggerRuns, IInv, HandsInv
  <2>. QED
    BY <1>4, <2>1, PopStep DEF LoggerWoken, initVars, callbackVars, dbVars
<1>5. CASE LoggerInsertOk
  BY <1>5, LazyInsertStep
<1>6. CASE LoggerInsertThrows
  BY <1>6, LazyFailureStep
<1>7. CASE CallbackInsert
  BY <1>7, InsertAtOnceStep
<1>8. CASE CallbackPut
  BY <1>8, PutStep
<1>. QED
  BY <1>1, <1>2, <1>3, <1>4, <1>5, <1>6, <1>7, <1>8
     DEF Next, LoggerThread, Callback, QuietStep

THEOREM Invariance == Spec => []IInv
BY InitEstablishes, StepPreserves, PTL DEF Spec

(* The variables always have their types and the buffer never holds more   *)
(* than its capacity.                                                      *)
THEOREM TypeCorrect == Spec => []TypeOK
BY Invariance, PTL DEF IInv

(* Every message that arrived is in exactly one place: none is lost        *)
(* without a trace, none is stored twice.                                  *)
THEOREM NoMessageUntraced == Spec => []AccountedOnce
<1>1. IInv => AccountedOnce
  <2> SUFFICES ASSUME IInv PROVE AccountedOnce
    OBVIOUS
  <2>1. \A i, j \in DOMAIN buffer : i # j => buffer[i] # buffer[j]
    <3>1. buffer \in Seq(Nat)
      BY ConstantsAssumption DEF IInv, TypeOK, Msg
    <3>. QED  BY <3>1 DEF IInv, OrderInv, Increasing
  <2>2. \A i, j \in DOMAIN stored : i # j => stored[i] # stored[j]
    BY DEF IInv, WhereInv
  <2>3. /\ Places[1] = Range(stored) /\ Places[2] = overwritten
        /\ Places[3] = failed /\ Places[4] = Range(buffer)
        /\ Places[5] = {inHand} \ {0} /\ Places[6] = {received} \ {0}
    BY DEF Places, NoMsg
  <2>4. \A i \in 1 .. 6 : i = 1 \/ i = 2 \/ i = 3 \/ i = 4 \/ i = 5 \/ i = 6
    OBVIOUS
  <2>5. /\ Range(stored) \subseteq Msg /\ overwritten \subseteq Msg
        /\ failed \subseteq Msg /\ Range(buffer) \subseteq Msg
        /\ inHand \in Msg \cup {0} /\ received \in Msg \cup {0}
        /\ arrived \in 0 .. MaxMsgs
    BY MessagesOnly DEF IInv, TypeOK, NoMsg
  <2>6. UNION {Places[i] : i \in 1 .. 6} = 1 .. arrived
    <3>1. \A m : (m \in UNION {Places[i] : i \in 1 .. 6})
                   <=> (m \in Msg /\ Somewhere(m))
      <4>1. \A m : (m \in UNION {Places[i] : i \in 1 .. 6})
                     <=> \/ m \in Places[1] \/ m \in Places[2]
                         \/ m \in Places[3] \/ m \in Places[4]
                         \/ m \in Places[5] \/ m \in Places[6]
        BY <2>4
      <4>2. 0 \notin Msg
        BY DEF Msg
      <4>. QED  BY <4>1, <4>2, <2>3, <2>5 DEF Somewhere
    <3>2. \A m \in Msg : Somewhere(m) <=> m \in 1 .. arrived
      BY <2>5 DEF IInv, WhereInv, Msg
    <3>3. \A m \in 1 .. arrived : m \in Msg
      BY <2>5, ConstantsAssumption DEF Msg, ConstantsAssumption
    <3>. QED  BY <3>1, <3>2, <3>3
  <2>7. ASSUME NEW i \in 1 .. 6, NEW j \in 1 .. 6, i < j
        PROVE  Places[i] \cap Places[j] = {}
    <3>1. ASSUME NEW m \in Msg
          PROVE  ~(m \in Places[i] /\ m \in Places[j])
      <4>1. m \in Range(buffer) =>
              /\ m \notin Range(stored) /\ m \notin overwritten
              /\ m \notin failed /\ m # inHand /\ m # received
        BY <2>5 DEF IInv, OrderInv, NoMsg, Msg
      <4>2. /\ m \in Range(stored) => m \notin overwritten /\ m \notin failed
            /\ m \in overwritten => m \notin failed
            /\ m = inHand \/ m = received =>
                 m \notin Range(stored) /\ m \notin overwritten /\ m \notin failed
            /\ ~(m = inHand /\ m = received)
        BY DEF IInv, WhereInv, NoMsg, Msg
      <4>. QED  BY <2>3, <2>4, <2>7, <4>1, <4>2
    <3>2. Places[i] \subseteq Msg
      BY <2>3, <2>4, <2>5
    <3>. QED  BY <3>1, <3>2
  <2>. QED  BY <2>1, <2>2, <2>6, <2>7 DEF AccountedOnce
<1>. QED  BY <1>1, Invariance, PTL

(***************************************************************************)
(* Wake-ups.                                                               *)
(***************************************************************************)

(* A thread that waits without having been notified has nothing to take,   *)
(* one that has been notified finds what it was notified of.               *)
WaitIsJustified ==
  /\ lpc = "wait" => buffer = <<>>
  /\ lpc = "woken" => buffer # <<>>

(* PushBack leaves no empty buffer behind. *)
LEMMA PushBackFills ==
  ASSUME TypeOK, NEW m \in Msg, PushBack(m)
  PROVE  buffer' # <<>>
<1>1. buffer \in Seq(Msg) /\ (Len(buffer) < Capacity \/ buffer # <<>>)
  BY ConstantsAssumption DEF TypeOK, ConstantsAssumption
<1>2. \A s \in Seq(Msg) : Append(s, m) # <<>>
  <2>1. \A s \in Seq(Msg) : Len(Append(s, m)) = Len(s) + 1 /\ Len(s) \in Nat
    OBVIOUS
  <2>. QED  BY <2>1
<1>3. buffer # <<>> => Tail(buffer) \in Seq(Msg)
  BY <1>1
<1>. QED  BY <1>1, <1>2, <1>3 DEF PushBack

LEMMA WaitStep == IInv /\ WaitIsJustified /\ [Next]_vars => WaitIsJustified'
<1> SUFFICES ASSUME IInv, WaitIsJustified, [Next]_vars
             PROVE  WaitIsJustified'
  OBVIOUS
<1>. USE DEF WaitIsJustified
<1>1. CASE CallbackPut
  <2>1. received \in Msg
    BY <1>1 DEF CallbackPut, IInv, HandsInv, TypeOK
  <2>2. buffer' # <<>>
    BY <1>1, <2>1, PushBackFills DEF CallbackPut, Put, IInv
  <2>. QED  BY <1>1, <2>2 DEF CallbackPut, Put
<1>2. CASE LoggerThread \/ LoggerSpuriousWake
  BY <1>2 DEF LoggerThread, LoggerSpuriousWake, LoggerConnect, LoggerAnnounce, LoggerLoop, LoggerGet,
     LoggerWoken, LoggerInterrupted, LoggerInsertOk, LoggerInsertThrows, PopFront
<1>3. CASE \/ OnInitConfigure \/ OnInitStartThread \/ RosShutdown \/ DestroyBegin \/ DestroyEnd
            \/ LoggerUseAfterFree \/ InputCallback \/ CallbackSubscribers \/ CallbackInsert
            \/ UNCHANGED vars
  BY <1>3 DEF OnInitConfigure, OnInitStartThread, RosShutdown, DestroyBegin, DestroyEnd,
     LoggerUseAfterFree, InputCallback, CallbackSubscribers, CallbackInsert, vars, loggerVars
<1>. QED  BY <1>1, <1>2, <1>3 DEF Next, Callback

(* The safety half of BufferDrains: put notifies only when the buffer was  *)
(* empty, and yet the logger thread never sleeps beside a message, for any *)
(* number of messages, of spurious wake-ups and of interruptions.          *)
THEOREM NoWakeUpIsMissed == Spec => []WaitIsJustified
<1>1. Init => WaitIsJustified
  BY DEF Init, WaitIsJustified
<1>. QED  BY <1>1, Invariance, WaitStep, PTL DEF Spec
-----------------------------------------------------------------------------
(* What the buffer holds is younger than the database and the message in   *)
(* the logger thread's hand: no insertion on the fly overtakes it.         *)
THEOREM BufferedNeverOvertaken == Spec => []BufferedAreYoungest
<1>1. IInv => BufferedAreYoungest
  <2> SUFFICES ASSUME IInv, NEW i \in DOMAIN buffer
               PROVE  /\ \A j \in DOMAIN stored : stored[j] < buffer[i]
                      /\ inHand < buffer[i]
                      /\ received # NoMsg => buffer[i] < received
                      /\ \A j \in DOMAIN buffer : i < j => buffer[i] < buffer[j]
    BY DEF BufferedAreYoungest
  <2>1. buffer \in Seq(Msg) /\ stored \in Seq(Msg)
    BY DEF IInv, TypeOK
  <2>2. /\ buffer[i] \in Range(buffer)
        /\ \A j \in DOMAIN stored : stored[j] \in Range(stored)
    BY <2>1 DEF Range
  <2>3. \A j \in DOMAIN buffer : i < j => buffer[i] < buffer[j]
    BY <2>1 DEF IInv, OrderInv, Increasing
  <2>. QED  BY <2>2, <2>3 DEF IInv, OrderInv
<1>. QED  BY <1>1, Invariance, PTL
-----------------------------------------------------------------------------
(***************************************************************************)
(* The relaxed log.  Its pending messages are the one in the logger        *)
(* thread's hand, those of the buffer and the one in the callback's hand,  *)
(* in this order; each step adds, removes or merely shifts one of them.    *)
(***************************************************************************)
Pending == Opt(inHand) \o buffer \o Opt(received)

(* Sequences in a row. *)
LEMMA Concatenation ==
  ASSUME NEW S, NEW s \in Seq(S), NEW t \in Seq(S)
  PROVE  /\ s \o t \in Seq(S) /\ Len(s \o t) = Len(s) + Len(t)
         /\ \A i \in 1 .. Len(s) + Len(t) :
              (s \o t)[i] = IF i <= Len(s) THEN s[i] ELSE t[i - Len(s)]
         /\ s \o <<>> = s /\ <<>> \o s = s
OBVIOUS

LEMMA Associative ==
  ASSUME NEW S, NEW s \in Seq(S), NEW t \in Seq(S), NEW u \in Seq(S)
  PROVE  s \o t \o u = s \o (t \o u)
OBVIOUS

(* Two sequences of length one. *)
LEMMA SameSingle ==
  ASSUME NEW S, NEW s \in Seq(S), NEW t \in Seq(S), Len(s) = 1, Len(t) = 1,
         s[1] = t[1]
  PROVE  s = t
OBVIOUS

(* What follows a sequence of length one. *)
LEMMA AfterOne ==
  ASSUME NEW S, NEW h \in Seq(S), Len(h) = 1, NEW s \in Seq(S)
  PROVE  /\ h \o s \in Seq(S) /\ Len(h \o s) = Len(s) + 1
         /\ (h \o s)[1] = h[1]
         /\ \A i \in 1 .. Len(s) : (h \o s)[i + 1] = s[i]
<1> DEFINE p == h \o s
<1>1. /\ p \in Seq(S) /\ Len(p) = Len(h) + Len(s)
      /\ \A i \in 1 .. Len(h) + Len(s) :
           p[i] = IF i <= Len(h) THEN h[i] ELSE s[i - Len(h)]
  BY Concatenation
<1>2. Len(s) \in Nat
  OBVIOUS
<1> HIDE DEF p
<1>. QED  BY <1>1, <1>2 DEF p

(* The first message goes. *)
LEMMA RemoveFirst ==
  ASSUME NEW S, NEW h \in Seq(S), Len(h) = 1, NEW s \in Seq(S)
  PROVE  Log!RemoveAt(h \o s, 1) = s
<1> DEFINE p == h \o s
<1>1. /\ p \in Seq(S) /\ Len(p) = Len(s) + 1
      /\ \A i \in 1 .. Len(s) : p[i + 1] = s[i]
  BY AfterOne
<1>2. SubSeq(p, 1, 0) = <<>> /\ SubSeq(p, 2, Len(p)) = s
  <2> HIDE DEF p
  <2>. QED  BY <1>1
<1>3. <<>> \o s = s
  OBVIOUS
<1>. QED  BY <1>1, <1>2, <1>3 DEF Log!RemoveAt

(* The second message goes. *)
LEMMA RemoveSecond ==
  ASSUME NEW S, NEW g \in Seq(S), Len(g) = 1, NEW h \in Seq(S), Len(h) = 1,
         NEW s \in Seq(S)
  PROVE  /\ Log!RemoveAt(g \o (h \o s), 2) = g \o s
         /\ (g \o (h \o s))[2] = h[1] /\ Len(g \o (h \o s)) = Len(s) + 2
<1> DEFINE q == h \o s
           p == g \o q
<1>1. /\ q \in Seq(S) /\ Len(q) = Len(s) + 1 /\ q[1] = h[1]
      /\ \A i \in 1 .. Len(s) : q[i + 1] = s[i]
  BY AfterOne
<1> HIDE DEF q
<1>2. /\ p \in Seq(S) /\ Len(p) = Len(q) + 1 /\ p[1] = g[1]
      /\ \A i \in 1 .. Len(q) : p[i + 1] = q[i]
  BY <1>1, AfterOne
<1> HIDE DEF p
<1>3. /\ Len(p) = Len(s) + 2 /\ p[2] = h[1]
      /\ \A i \in 1 .. Len(s) : p[i + 2] = s[i]
  <2>1. Len(s) \in Nat
    OBVIOUS
  <2>2. 1 \in 1 .. Len(q) /\ Len(p) = Len(s) + 2
    BY <1>1, <1>2, <2>1
  <2>3. p[1 + 1] = q[1]
    BY <1>2, <2>2
  <2>4. ASSUME NEW i \in 1 .. Len(s)
        PROVE  p[i + 2] = s[i]
    <3>1. i + 1 \in 1 .. Len(q) /\ (i + 1) + 1 = i + 2
      BY <1>1, <2>1
    <3>2. p[(i + 1) + 1] = q[i + 1] /\ q[i + 1] = s[i]
      BY <1>1, <1>2, <3>1
    <3>. QED  BY <3>1, <3>2
  <2>. QED  BY <1>1, <2>2, <2>3, <2>4
<1>4. SubSeq(p, 1, 1) = g
  <2>1. /\ SubSeq(p, 1, 1) \in Seq(S) /\ Len(SubSeq(p, 1, 1)) = 1
        /\ SubSeq(p, 1, 1)[1] = g[1]
    BY <1>2, <1>3
  <2>. QED  BY <2>1, SameSingle
<1>5. SubSeq(p, 3, Len(p)) = s
  BY <1>2, <1>3
<1>. QED  BY <1>3, <1>4, <1>5 DEF Log!RemoveAt, p, q

(* Taking the head of the buffer in hand leaves the pending messages. *)
LEMMA PopShifts ==
  ASSUME NEW S, NEW b \in Seq(S), NEW r \in Seq(S), b # <<>>
  PROVE  <<Head(b)>> \o Tail(b) \o r = <<>> \o b \o r
<1>1. <<Head(b)>> \o Tail(b) = b /\ <<>> \o b = b
  OBVIOUS
<1>. QED  BY <1>1

(* Appending the received message to the buffer leaves them too. *)
LEMMA PushShifts ==
  ASSUME NEW S, NEW h \in Seq(S), NEW b \in Seq(S), NEW x \in S
  PROVE  h \o Append(b, x) \o <<>> = h \o b \o <<x>>
OBVIOUS

(* The three parts of the pending messages. *)
LEMMA Parts ==
  ASSUME IInv
  PROVE  /\ Opt(inHand) \in Seq(Msg) /\ buffer \in Seq(Msg)
         /\ Opt(received) \in Seq(Msg) /\ stored \in Seq(Msg)
BY DEF IInv, TypeOK, Opt

(* A message is a sequence of length one. *)
LEMMA OptIsOne ==
  ASSUME NEW m \in Msg, m # NoMsg
  PROVE  Opt(m) \in Seq(Msg) /\ Len(Opt(m)) = 1 /\ Opt(m)[1] = m
BY DEF Opt

(* A message arrives. *)
LEMMA ArrivalMaps ==
  ASSUME IInv, InputCallback
  PROVE  Log!Arrive
<1>1. /\ arrived' = arrived + 1 /\ received' = arrived + 1 /\ received = NoMsg
      /\ arrived < MaxMsgs /\ UNCHANGED <<inHand, buffer, stored>>
  BY DEF IInv, HandsInv, InputCallback, loggerVars, dbVars
<1>2. Opt(received) = <<>> /\ Opt(received') = <<arrived + 1>>
  BY <1>1 DEF Opt, IInv, TypeOK, NoMsg
<1>3. Opt(inHand) \o buffer \o <<arrived + 1>>
        = Append(Opt(inHand) \o buffer \o <<>>, arrived + 1)
  BY Parts
<1>4. Pending' = Append(Pending, arrived + 1)
  BY <1>1, <1>2, <1>3 DEF Pending
<1>. QED  BY <1>1, <1>4 DEF Log!Arrive, Pending

(* The logger thread takes a message: nothing happens to the log. *)
LEMMA PopMaps ==
  ASSUME IInv, PopFront, inHand = NoMsg, UNCHANGED <<received, arrived, stored>>
  PROVE  UNCHANGED Log!logVars
<1>1. Head(buffer) \in Msg /\ buffer # <<>> /\ Head(buffer) # NoMsg
  <2>1. Head(buffer) \in Msg /\ buffer # <<>>
    BY Parts, RangeHeadTail DEF PopFront
  <2>. QED  BY <2>1 DEF Msg, NoMsg
<1>2. Opt(inHand) = <<>> /\ Opt(inHand') = <<Head(buffer)>> /\ buffer' = Tail(buffer)
  BY <1>1 DEF PopFront, Opt
<1>3. Opt(received') = Opt(received)
  OBVIOUS
<1>4. Pending' = Pending
  BY <1>1, <1>2, <1>3, Parts, PopShifts DEF Pending
<1>. QED  BY <1>4 DEF Log!logVars, Pending

(* The logger thread disposes of the oldest message: it is the first in    *)
(* turn.                                                                   *)
LEMMA LazyInsertMaps ==
  ASSUME IInv, LoggerInsertOk \/ LoggerInsertThrows
  PROVE  Log!Store \/ Log!InsertionFails
<1>1. /\ inHand \in Msg /\ inHand # NoMsg /\ inHand' = NoMsg
      /\ UNCHANGED <<buffer, received, arrived>>
      /\ stored' = Append(stored, inHand) \/ UNCHANGED stored
  BY DEF LoggerInsertOk, LoggerInsertThrows, LoggerRuns, callbackVars, IInv, TypeOK,
         HandsInv
<1> DEFINE h == Opt(inHand)
           s == buffer \o Opt(received)
<1>2. Pending = h \o s /\ Pending' = <<>> \o s
  <2>1. Opt(inHand') = <<>> /\ Opt(received') = Opt(received)
    BY <1>1 DEF Opt
  <2>2. Pending' = <<>> \o buffer \o Opt(received)
    BY <1>1, <2>1 DEF Pending
  <2>3. <<>> \o buffer \o Opt(received) = <<>> \o s
    BY Parts
  <2>. QED  BY <2>2, <2>3, Parts, Associative DEF Pending
<1>3. /\ Pending' = Log!RemoveAt(Pending, 1) /\ Pending[1] = inHand
      /\ 1 \in DOMAIN Pending
  <2>1. h \in Seq(Msg) /\ Len(h) = 1 /\ h[1] = inHand
    BY <1>1, OptIsOne
  <2>2. s \in Seq(Msg)
    BY Parts
  <2> HIDE DEF h, s
  <2>3. <<>> \o s = s
    BY <2>2
  <2>4. /\ h \o s \in Seq(Msg) /\ Len(h \o s) = Len(s) + 1
        /\ (h \o s)[1] = inHand /\ Log!RemoveAt(h \o s, 1) = s
    BY <2>1, <2>2, AfterOne, RemoveFirst
  <2>5. 1 \in DOMAIN Pending
    BY <1>2, <2>2, <2>4
  <2>. QED  BY <1>2, <2>3, <2>4, <2>5
<1>. QED  BY <1>1, <1>3 DEF Log!Store, Log!InsertionFails, Log!InTurn, Pending

(* inputCallback disposes of the newest message while the buffer is empty: *)
(* it is the first in turn, or the second of two.                          *)
LEMMA InsertAtOnceMaps ==
  ASSUME IInv, CallbackInsert
  PROVE  Log!Store \/ Log!InsertionFails
<1>1. /\ received \in Msg /\ received # NoMsg /\ received' = NoMsg /\ buffer = <<>>
      /\ UNCHANGED <<buffer, inHand, arrived>>
      /\ stored' = Append(stored, received) \/ UNCHANGED stored
  BY DEF CallbackInsert, loggerVars, IInv, TypeOK, HandsInv
<1> DEFINE g == Opt(inHand)
           h == Opt(received)
           e == <<>>
<1>2. /\ h \in Seq(Msg) /\ Len(h) = 1 /\ h[1] = received
      /\ g \in Seq(Msg) /\ e \in Seq(Msg) /\ Len(e) = 0
  BY <1>1, OptIsOne, Parts
<1>3. Pending = g \o (h \o e) /\ Pending' = g \o e
  <2>1. Opt(received') = <<>> /\ Opt(inHand') = Opt(inHand)
    BY <1>1 DEF Opt
  <2>2. Pending = g \o <<>> \o h /\ Pending' = g \o <<>> \o <<>>
    BY <1>1, <2>1 DEF Pending
  <2>. QED  BY <1>2, <2>2
<1> HIDE DEF h, e
<1>4. CASE inHand = NoMsg
  <2>1. g = <<>>
    BY <1>4 DEF Opt
  <2>2. Pending = h \o e /\ Pending' = e
    BY <1>2, <1>3, <2>1
  <2>3. /\ h \o e \in Seq(Msg) /\ Len(h \o e) = 1 /\ (h \o e)[1] = received
        /\ Log!RemoveAt(h \o e, 1) = e
    <3>1. /\ h \o e \in Seq(Msg) /\ Len(h \o e) = Len(e) + 1
          /\ (h \o e)[1] = h[1]
      BY <1>2, AfterOne
    <3>2. Log!RemoveAt(h \o e, 1) = e
      BY <1>2, RemoveFirst
    <3>. QED  BY <1>2, <3>1, <3>2
  <2>4. /\ Pending' = Log!RemoveAt(Pending, 1) /\ Pending[1] = received
        /\ 1 \in DOMAIN Pending
    BY <2>2, <2>3
  <2>. QED  BY <1>1, <2>4 DEF Log!Store, Log!InsertionFails, Log!InTurn, Pending
<1>5. CASE inHand # NoMsg
  <2>1. Len(g) = 1
    BY <1>5, OptIsOne DEF IInv, TypeOK
  <2> HIDE DEF g
  <2>2. h \o e \in Seq(Msg) /\ Len(h \o e) = 1
    BY <1>2, AfterOne
  <2>3. /\ g \o (h \o e) \in Seq(Msg) /\ Len(g \o (h \o e)) = 2
        /\ (g \o (h \o e))[2] = received
        /\ Log!RemoveAt(g \o (h \o e), 2) = g \o e
    <3>1. g \o (h \o e) \in Seq(Msg)
      BY <1>2, <2>2, Concatenation
    <3>2. Log!RemoveAt(g \o (h \o e), 2) = g \o e
      BY <1>2, <2>1, RemoveSecond
    <3>3. (g \o (h \o e))[2] = h[1]
      BY <1>2, <2>1, RemoveSecond
    <3>4. Len(g \o (h \o e)) = Len(e) + 2
      BY <1>2, <2>1, RemoveSecond
    <3>. QED  BY <1>2, <3>1, <3>2, <3>3, <3>4
  <2>4. /\ Pending' = Log!RemoveAt(Pending, 2) /\ Pending[2] = received
        /\ 2 \in DOMAIN Pending /\ Len(Pending) = 2
    <3> DEFINE p == g \o (h \o e)
    <3>1. p \in Seq(Msg) /\ Len(p) = 2 /\ p = Pending
      BY <1>3, <2>3
    <3> HIDE DEF p
    <3>2. 2 \in DOMAIN Pending /\ Len(Pending) = 2
      BY <3>1
    <3>. QED  BY <1>3, <2>3, <3>2
  <2>. QED
    BY <1>1, <2>4 DEF Log!Store, Log!InsertionFails, Log!InTurn, Pending
<1>. QED  BY <1>4, <1>5

(* put shifts the newest message into the buffer, from which the oldest    *)
(* overflows: with the one in hand before it, it is among the two oldest.  *)
LEMMA PutMaps ==
  ASSUME IInv, CallbackPut
  PROVE  Log!Overflow \/ UNCHANGED Log!logVars
<1>1. /\ received \in Msg /\ received # NoMsg /\ received' = NoMsg
      /\ PushBack(received) /\ UNCHANGED <<inHand, arrived, stored>>
      /\ Len(buffer) <= Capacity /\ Capacity \in Nat \ {0}
  BY ConstantsAssumption
     DEF ConstantsAssumption, CallbackPut, Put, dbVars, IInv, TypeOK, HandsInv
<1>2. Opt(received) = <<received>> /\ Opt(received') = <<>> /\ Opt(inHand') = Opt(inHand)
  BY <1>1 DEF Opt
<1>3. CASE Len(buffer) < Capacity
  <2>1. buffer' = Append(buffer, received)
    BY <1>1, <1>3 DEF PushBack
  <2>2. Pending' = Pending
    BY <1>1, <1>2, <2>1, Parts, PushShifts DEF Pending
  <2>. QED  BY <1>1, <2>2 DEF Log!logVars, Pending
<1>4. CASE ~(Len(buffer) < Capacity)
  <2> DEFINE g == Opt(inHand)
             h == <<Head(buffer)>>
             t == Tail(buffer)
             r == <<received>>
             s == t \o r
  <2>1. buffer \in Seq(Msg) /\ buffer # <<>> /\ Len(buffer) = Capacity
    BY <1>1, <1>4, Parts
  <2>2. /\ h \in Seq(Msg) /\ Len(h) = 1 /\ t \in Seq(Msg) /\ Len(t) = Capacity - 1
        /\ r \in Seq(Msg) /\ Len(r) = 1 /\ g \in Seq(Msg) /\ buffer = h \o t
    BY <1>1, <2>1, Parts
  <2>3. Pending' = g \o t \o r
    <3>1. buffer' = Append(t, received)
      BY <1>1, <1>4 DEF PushBack
    <3> HIDE DEF t
    <3>. QED  BY <1>1, <1>2, <2>2, <3>1, PushShifts DEF Pending
  <2>4. Pending = g \o (h \o t) \o r
    BY <1>2, <2>2 DEF Pending
  <2> HIDE DEF h, t, r
  <2>5. s \in Seq(Msg) /\ Len(s) = Capacity
    <3>1. s \in Seq(Msg) /\ Len(s) = Len(t) + Len(r)
      BY <2>2, Concatenation
    <3>. QED  BY <1>1, <2>2, <3>1
  <2>6. h \o s \in Seq(Msg) /\ Len(h \o s) = Capacity + 1
    BY <2>2, <2>5, AfterOne
  <2>7. Pending = g \o (h \o s) /\ Pending' = g \o s
    <3>1. g \o (h \o t) \o r = g \o ((h \o t) \o r)
      <4>1. h \o t \in Seq(Msg)
        BY <2>2, Concatenation
      <4>. QED  BY <2>2, <4>1, Associative
    <3>2. (h \o t) \o r = h \o s
      BY <2>2, Associative
    <3>3. g \o t \o r = g \o s
      BY <2>2, Associative
    <3>. QED  BY <2>3, <2>4, <3>1, <3>2, <3>3
  <2> HIDE DEF s
  <2>8. CASE inHand = NoMsg
    <3>1. g = <<>>
      BY <2>8 DEF Opt
    <3>2. Pending = h \o s /\ Pending' = s
      BY <2>5, <2>6, <2>7, <3>1, Concatenation
    <3>3. Pending' = Log!RemoveAt(Pending, 1) /\ Len(Pending) = Capacity + 1
      BY <2>2, <2>5, <2>6, <3>2, RemoveFirst
    <3>. QED  BY <1>1, <3>3 DEF Log!Overflow, Pending
  <2>9. CASE inHand # NoMsg
    <3>1. Len(g) = 1
      BY <2>9, OptIsOne DEF IInv, TypeOK
    <3> HIDE DEF g
    <3>2. Pending' = Log!RemoveAt(Pending, 2) /\ Len(Pending) = Capacity + 2
      <4>1. Log!RemoveAt(g \o (h \o s), 2) = g \o s
        BY <2>2, <2>5, <3>1, RemoveSecond
      <4>2. Len(g \o (h \o s)) = Len(h \o s) + 1
        BY <2>2, <2>6, <3>1, AfterOne
      <4>. QED  BY <1>1, <2>6, <2>7, <4>1, <4>2
    <3>. QED  BY <1>1, <3>2 DEF Log!Overflow, Pending
  <2>. QED  BY <2>8, <2>9
<1>. QED  BY <1>3, <1>4

(* The steps that move no message. *)
LEMMA QuietMaps ==
  ASSUME QuietStep \/ (LoggerGet /\ ~PopFront)
  PROVE  UNCHANGED Log!logVars
<1>1. UNCHANGED <<inHand, buffer, received, arrived, stored>>
  <2>1. CASE QuietStep
    BY <2>1
       DEF QuietStep, OnInitConfigure, OnInitStartThread, RosShutdown, DestroyBegin,
           DestroyEnd, LoggerConnect, LoggerAnnounce, LoggerLoop, LoggerSpuriousWake,
           LoggerInterrupted, LoggerUseAfterFree, CallbackSubscribers, vars, initVars,
           loggerVars, callbackVars, dbVars
  <2>2. CASE LoggerGet /\ ~PopFront
    BY <2>2 DEF LoggerGet, callbackVars, dbVars
  <2>. QED  BY <2>1, <2>2
<1>. QED  BY <1>1 DEF Log!logVars, Opt

(* The nodelet implements the relaxed log, for every capacity: a message   *)
(* is stored in its turn or while exactly one older one is on its way, and *)
(* only a failed insertion or an overflow drops one.                       *)
THEOREM IsRelaxedLog == Spec => ImplementsRelaxedLog
<1>1. Init => Log!LogInit
  <2>. SUFFICES ASSUME Init PROVE Log!LogInit
    OBVIOUS
  <2>1. Opt(inHand) = <<>> /\ Opt(received) = <<>> /\ buffer = <<>>
    BY DEF Init, Opt
  <2>. QED  BY <2>1 DEF Init, Log!LogInit
<1>2. IInv /\ [Next]_vars => [Log!LogNext]_(Log!logVars)
  <2>. SUFFICES ASSUME IInv, [Next]_vars
                PROVE  Log!LogNext \/ UNCHANGED Log!logVars
    OBVIOUS
  <2>1. CASE QuietStep \/ (LoggerGet /\ ~PopFront)
    BY <2>1, QuietMaps
  <2>2. CASE LoggerWoken \/ (LoggerGet /\ PopFront)
    <3>1. inHand = NoMsg /\ PopFront /\ UNCHANGED <<received, arrived, stored>>
      BY <2>2 DEF LoggerWoken, LoggerGet, LoggerRuns, callbackVars, dbVars, IInv, HandsInv
    <3>. QED  BY <3>1, PopMaps
  <2>3. CASE InputCallback
    BY <2>3, ArrivalMaps DEF Log!LogNext
  <2>4. CASE LoggerInsertOk \/ LoggerInsertThrows
    BY <2>4, LazyInsertMaps DEF Log!LogNext
  <2>5. CASE CallbackInsert
    BY <2>5, InsertAtOnceMaps DEF Log!LogNext
  <2>6. CASE CallbackPut
    BY <2>6, PutMaps DEF Log!LogNext
  <2>. QED
    BY <2>1, <2>2, <2>3, <2>4, <2>5, <2>6
       DEF Next, LoggerThread, Callback, QuietStep
<1>. QED
  BY <1>1, <1>2, Invariance, PTL DEF Spec, ImplementsRelaxedLog, Log!LogSpec
=============================================================================
