------------------------- MODULE SmachToMailProofs -------------------------
(***************************************************************************)
(* The two dictionaries of smach_to_mail belong together, and a list is    *)
(* one run of its state machine, whatever the interleaving of the          *)
(* callbacks with the timer.                                               *)
(***************************************************************************)
EXTENDS SmachToMail, FiniteSetTheorems, TLAPS

(***************************************************************************)
(* The keys are finitely many, so the timer can count them.                *)
(***************************************************************************)
LEMMA KeysAreFinite == Cardinality(Keys) \in Nat
<1>1. IsFiniteSet(Keys)
  BY FS_Subset, ConstantsAssumption DEF ConstantsAssumption, Keys
<1>. QED  BY <1>1, FS_CardinalityType

(***************************************************************************)
(* What the callback of c may do to the place of another thread: nothing.  *)
(***************************************************************************)
LEMMA GotoFacts ==
  ASSUME TypeOK, NEW t \in Thread, NEW where, Goto(t, where)
  PROVE  /\ DOMAIN pc' = Thread
         /\ pc'[t] = where
         /\ \A u \in Thread : u # t => pc'[u] = pc[u]
BY DEF Goto, TypeOK, PlacesOK

LEMMA ThreadFacts ==
  /\ Timer \in Thread /\ Timer \notin Caller
  /\ \A c \in Caller : c \in Thread /\ c # Timer /\ KeyOf(c) = c
BY ConstantsAssumption DEF ConstantsAssumption, Thread, KeyOf

LEMMA InitType == Init => TypeOK
<1> SUFFICES ASSUME Init PROVE TypeOK
  OBVIOUS
<1>1. pc = [t \in Thread |-> "idle"] /\ Timer \in Thread /\ Caller \subseteq Thread
  BY DEF Init, Thread
<1>2. config \subseteq Option
  BY ConstantsAssumption DEF Init, ConstantsAssumption
<1>3. phase \in {"subscribed", "ready"} /\ keysAreView \in BOOLEAN
  BY DEF Init
<1>4. client \in BOOLEAN /\ chatDone \in BOOLEAN /\ chatThread \in BOOLEAN
  BY DEF Init
<1>5. PlacesOK
  BY <1>1 DEF PlacesOK, Sending
<1>6. /\ stateList \in [Caller -> {Absent, None} \cup Seq(Nat)]
      /\ stateSubject \subseteq Caller
      /\ key \in Caller \cup {None} /\ todo \subseteq Caller /\ size \in Nat
      /\ alive \subseteq Caller
      /\ history \in [Caller -> Seq(Kind)] /\ handled \in [Caller -> Nat]
      /\ \A c \in Caller : handled[c] <= Len(history[c])
  BY DEF Init
<1>. QED  BY <1>2, <1>3, <1>4, <1>5, <1>6, Zenon DEF TypeOK

(***************************************************************************)
(* The inductive invariant: the properties, the types they talk about, and *)
(* that nothing is done before the dictionaries exist (a status that       *)
(* arrives then is counted, but never listed).                             *)
(***************************************************************************)
NothingYet == phase = "subscribed" => /\ \A t \in Thread : pc[t] = "idle"
                                      /\ \A c \in Caller : stateList[c] = Absent

IInv == TypeOK /\ NothingYet /\ SubjectCoversList /\ ListIsOneRun

Writing   == {"subject", "closeSubject"}   (* between two writes            *)
Unrecorded == {"subject", "record"}        (* the status is not yet listed  *)

(* A step that leaves the list of a caller alone. *)
LEMMA OthersKeepTheirRun ==
  ASSUME IInv, NEW c \in Caller, Recorded(c)',
         stateList'[c] = stateList[c], handled'[c] = handled[c],
         \A i \in 1..handled[c] : history'[c][i] = history[c][i],
         pc[c] \in Unrecorded <=> pc'[c] \in Unrecorded
  PROVE  OneRun(c)'
<1>1. Recorded(c) /\ handled[c] \in Nat
  BY DEF Recorded, IInv, TypeOK
<1>. DEFINE last  == IF pc[c] \in Unrecorded THEN handled[c] - 1 ELSE handled[c]
            first == last - Len(stateList[c]) + 1
<1>2. /\ \A i \in 1..Len(stateList[c]) : stateList[c][i] = first + i - 1
      /\ first \in 1..handled[c]
      /\ \A i \in first..handled[c] : (history[c][i] = "start") <=> (i = first)
  BY <1>1 DEF IInv, ListIsOneRun, OneRun, Unrecorded
<1>3. \A i \in first..handled[c] : i \in 1..handled[c]
  <2>. HIDE DEF first
  <2>. QED  BY <1>1, <1>2
<1>4. /\ \A i \in 1..Len(stateList[c]) : stateList[c][i] = first + i - 1
      /\ first \in 1..handled[c]
      /\ \A i \in first..handled[c] : (history'[c][i] = "start") <=> (i = first)
  BY <1>2, <1>3
<1>. QED  BY <1>4 DEF OneRun, Unrecorded

(* Most steps touch neither dictionary and do not move a thread into or    *)
(* out of the places the invariants mention.                               *)
LEMMA QuietStep ==
  ASSUME IInv, UNCHANGED <<dicts, handled>>,
         \A c \in Caller : \A i \in 1..handled[c] : history'[c][i] = history[c][i],
         \A c \in Caller : /\ pc[c] \in Writing => pc'[c] \in Writing
                           /\ pc[c] \in Unrecorded <=> pc'[c] \in Unrecorded,
         pc[Timer] = "deleteList" => pc'[Timer] = "deleteList" /\ key' = key
  PROVE  SubjectCoversList' /\ ListIsOneRun'
<1>1. SubjectCoversList'
  BY DEF IInv, SubjectCoversList, Keys, HasList, dicts, Writing
<1>2. ListIsOneRun'
  BY OthersKeepTheirRun DEF ListIsOneRun, dicts
<1>. QED  BY <1>1, <1>2

(***************************************************************************)
(* Steps of a sender, which is a callback or the timer.                    *)
(***************************************************************************)
LEMMA SendingIsLate ==
  ASSUME IInv, \E t \in Thread : pc[t] # "idle"
  PROVE  phase # "subscribed"
BY DEF IInv, NothingYet

LEMMA SendPreserves ==
  ASSUME IInv, NEW t \in Thread, SendStep(t)
  PROVE  IInv'
<1>1. PICK w \in {"idle", "dead", "twitter", "chat", "everyWait", "chatWait",
                  "everyResult", "chatResult", "end", "close", "delete"} :
        /\ Goto(t, w)
        /\ t = Timer => w \notin {"everyWait", "everyResult", "end", "close", "idle"}
        /\ t # Timer => w \notin {"dead", "delete"}
  BY DEF IInv, TypeOK, PlacesOK, Sending, SendStep, SendMail, SendTwitter, SendTopic,
         SendGoogleChat, SendGoal, WaitForResult, GetResult, Raise, AfterChat
<1>2. pc[t] \notin Writing \cup Unrecorded \cup {"deleteList"}
  BY DEF SendStep, SendMail, SendTwitter, SendTopic, SendGoogleChat,
         WaitForResult, GetResult, Writing, Unrecorded
<1>3. UNCHANGED <<initVars, config, client, dicts, timerVars, nodeVars>>
  BY DEF SendStep, SendMail, SendTwitter, SendTopic, SendGoogleChat, SendGoal,
         WaitForResult, GetResult, chatVars
<1>4. chatDone' \in BOOLEAN
  <2>1. chatDone \in BOOLEAN
    BY DEF IInv, TypeOK
  <2>. QED  BY <2>1 DEF SendStep, SendMail, SendTwitter, SendTopic, SendGoogleChat,
                SendGoal, WaitForResult, GetResult, chatVars
<1>5. chatThread' \in BOOLEAN
  <2>1. chatThread \in BOOLEAN
    BY DEF IInv, TypeOK
  <2>. QED  BY <2>1 DEF SendStep, SendMail, SendTwitter, SendTopic, SendGoogleChat,
                WaitForResult, GetResult, chatVars
<1>6. /\ DOMAIN pc' = Thread /\ pc'[t] = w
      /\ \A u \in Thread : u # t => pc'[u] = pc[u]
  BY <1>1, GotoFacts DEF IInv
<1>7. PlacesOK'
  BY <1>1, <1>6, ThreadFacts DEF IInv, TypeOK, PlacesOK, Sending
<1>8. SubjectCoversList' /\ ListIsOneRun'
  <2>1. \A c \in Caller : /\ pc[c] \in Writing => pc'[c] \in Writing
                          /\ pc[c] \in Unrecorded <=> pc'[c] \in Unrecorded
    BY <1>1, <1>2, <1>6, ThreadFacts DEF Writing, Unrecorded
  <2>2. pc[Timer] = "deleteList" => pc'[Timer] = "deleteList" /\ key' = key
    BY <1>2, <1>3, <1>6, ThreadFacts DEF timerVars
  <2>. QED  BY <1>3, <2>1, <2>2, QuietStep DEF nodeVars
<1>9. TypeOK'
  BY <1>3, <1>4, <1>5, <1>7, Zenon
     DEF IInv, TypeOK, initVars, dicts, timerVars, nodeVars
<1>10. NothingYet'
  <2>1. pc[t] # "idle"
    BY DEF SendStep, SendMail, SendTwitter, SendTopic, SendGoogleChat,
           WaitForResult, GetResult
  <2>. QED  BY <1>3, <2>1, SendingIsLate DEF NothingYet, initVars
<1>. QED  BY <1>8, <1>9, <1>10 DEF IInv

(***************************************************************************)
(* The steps of a callback before and after the report.                    *)
(***************************************************************************)
LEMMA ReceivePreserves ==
  ASSUME IInv, NEW c \in Caller, Receive(c)
  PROVE  IInv'
<1>1. /\ handled' = [handled EXCEPT ![c] = @ + 1] /\ handled[c] < Len(history[c])
      /\ pc[c] = "idle"
      /\ UNCHANGED <<initVars, config, chatVars, stateSubject, timerVars, alive,
                    history>>
  BY DEF Receive
<1>2. /\ handled' \in [Caller -> Nat]
      /\ \A d \in Caller : handled'[d] <= Len(history[d])
      /\ handled'[c] = handled[c] + 1 /\ handled[c] \in Nat
      /\ \A d \in Caller : d # c => handled'[d] = handled[d]
  BY <1>1 DEF IInv, TypeOK
<1>3. CASE phase = "subscribed"
  <2>1. UNCHANGED <<stateList, pc>>
    BY <1>3 DEF Receive
  <2>2. \A d \in Caller : stateList[d] = Absent
    BY <1>3 DEF IInv, NothingYet
  <2>3. SubjectCoversList' /\ ListIsOneRun'
    BY <2>1, <2>2 DEF SubjectCoversList, ListIsOneRun, Keys, HasList, Recorded
  <2>4. TypeOK'
    BY <1>1, <1>2, <2>1, Zenon
       DEF IInv, TypeOK, PlacesOK, initVars, chatVars, timerVars
  <2>5. NothingYet'
    BY <1>1, <2>1 DEF IInv, NothingYet, initVars
  <2>. QED  BY <2>3, <2>4, <2>5 DEF IInv
<1>4. CASE phase # "subscribed" /\ history[c][handled[c] + 1] = "start"
  <2>1. stateList' = [stateList EXCEPT ![c] = <<>>] /\ Goto(c, "subject")
    BY <1>4 DEF Receive, ListAtStart
  <2>2. /\ stateList' \in [Caller -> {Absent, None} \cup Seq(Nat)]
        /\ stateList'[c] = <<>>
        /\ \A d \in Caller : d # c => stateList'[d] = stateList[d]
    BY <2>1 DEF IInv, TypeOK
  <2>3. /\ DOMAIN pc' = Thread /\ pc'[c] = "subject"
        /\ \A u \in Thread : u # c => pc'[u] = pc[u]
    BY <2>1, GotoFacts, ThreadFacts DEF IInv
  <2>4. PlacesOK'
    BY <2>3, ThreadFacts DEF IInv, TypeOK, PlacesOK
  <2>5. SubjectCoversList'
    BY <1>1, <2>2, <2>3, ThreadFacts
       DEF IInv, SubjectCoversList, Keys, HasList, timerVars
  <2>6. OneRun(c)'
    BY <1>1, <1>2, <1>4, <2>2, <2>3 DEF OneRun
  <2>7. ASSUME NEW d \in Caller, d # c, Recorded(d)' PROVE OneRun(d)'
    BY <1>1, <1>2, <2>2, <2>3, <2>7, ThreadFacts, OthersKeepTheirRun
  <2>8. ListIsOneRun'
    BY <2>6, <2>7 DEF ListIsOneRun
  <2>9. TypeOK'
    BY <1>1, <1>2, <2>2, <2>4, Zenon DEF IInv, TypeOK, initVars, chatVars, timerVars
  <2>10. NothingYet'
    BY <1>1, <1>4 DEF NothingYet, initVars
  <2>. QED  BY <2>5, <2>8, <2>9, <2>10 DEF IInv
<1>5. CASE phase # "subscribed" /\ history[c][handled[c] + 1] # "start"
  <2>1. stateList' = stateList /\ Goto(c, "record")
    BY <1>5 DEF Receive
  <2>2. /\ DOMAIN pc' = Thread /\ pc'[c] = "record"
        /\ \A u \in Thread : u # c => pc'[u] = pc[u]
    BY <2>1, GotoFacts, ThreadFacts DEF IInv
  <2>3. PlacesOK'
    BY <2>2, ThreadFacts DEF IInv, TypeOK, PlacesOK
  <2>4. SubjectCoversList'
    BY <1>1, <2>1, <2>2, ThreadFacts
       DEF IInv, SubjectCoversList, Keys, HasList, timerVars
  <2>5. ASSUME Recorded(c) PROVE OneRun(c)'
    <3>1. OneRun(c)
      BY <2>5 DEF IInv, ListIsOneRun
    <3>2. pc[c] \notin {"subject", "record"} /\ pc'[c] \in {"subject", "record"}
      BY <1>1, <2>2
    <3>. DEFINE first == handled[c] - Len(stateList[c]) + 1
    <3>3. /\ \A i \in 1..Len(stateList[c]) : stateList[c][i] = first + i - 1
          /\ first \in 1..handled[c]
          /\ \A i \in first..handled[c] : (history[c][i] = "start") <=> (i = first)
      BY <3>1, <3>2 DEF OneRun
    <3>4. /\ first \in 1..handled'[c]
          /\ \A i \in first..handled'[c] : (history[c][i] = "start") <=> (i = first)
      <4>. HIDE DEF first
      <4>. QED  BY <1>2, <1>5, <3>3
    <3>5. first = (handled'[c] - 1) - Len(stateList[c]) + 1
      BY <1>2, <2>5 DEF IInv, TypeOK, Recorded
    <3>6. history' = history /\ stateList' = stateList
      BY <1>1, <2>1
    <3>. QED  BY <3>2, <3>3, <3>4, <3>5, <3>6 DEF OneRun
  <2>6. ASSUME NEW d \in Caller, d # c, Recorded(d)' PROVE OneRun(d)'
    BY <1>1, <1>2, <2>1, <2>2, <2>6, ThreadFacts, OthersKeepTheirRun
  <2>7. ListIsOneRun'
    BY <2>1, <2>5, <2>6 DEF ListIsOneRun, Recorded
  <2>8. TypeOK'
    BY <1>1, <1>2, <2>1, <2>3, Zenon DEF IInv, TypeOK, initVars, chatVars, timerVars
  <2>9. NothingYet'
    BY <1>1, <1>5 DEF NothingYet, initVars
  <2>. QED  BY <2>4, <2>7, <2>8, <2>9 DEF IInv
<1>. QED  BY <1>3, <1>4, <1>5

LEMMA SubjectPreserves ==
  ASSUME IInv, NEW c \in Caller, SetSubject(c) \/ CloseSubject(c)
  PROVE  IInv'
<1>1. PICK w \in {"record", "idle"} :
        Goto(c, w) /\ (w = "record" <=> pc[c] = "subject") /\ pc[c] \in Writing
  BY DEF SetSubject, CloseSubject, Writing
<1>2. /\ stateSubject' = stateSubject \cup {c}
      /\ UNCHANGED <<initVars, config, chatVars, stateList, timerVars, nodeVars>>
  BY DEF SetSubject, CloseSubject, SubjectsAfterClose
<1>3. /\ DOMAIN pc' = Thread /\ pc'[c] = w
      /\ \A u \in Thread : u # c => pc'[u] = pc[u]
  BY <1>1, GotoFacts, ThreadFacts DEF IInv
<1>4. PlacesOK'
  BY <1>1, <1>3, ThreadFacts DEF IInv, TypeOK, PlacesOK, Sending
<1>5. SubjectCoversList'
  BY <1>2, <1>3, ThreadFacts DEF IInv, SubjectCoversList, Keys, HasList, timerVars
<1>6. \A d \in Caller : pc[d] \in Unrecorded <=> pc'[d] \in Unrecorded
  BY <1>1, <1>3, ThreadFacts DEF Unrecorded, Writing
<1>7. ListIsOneRun'
  BY <1>2, <1>6, OthersKeepTheirRun DEF ListIsOneRun, nodeVars
<1>8. TypeOK'
  <2>1. stateSubject' \subseteq Caller
    BY <1>2 DEF IInv, TypeOK
  <2>. QED  BY <1>2, <1>4, <2>1, Zenon
               DEF IInv, TypeOK, initVars, chatVars, timerVars, nodeVars
<1>9. NothingYet'
  BY <1>1, <1>2, SendingIsLate, ThreadFacts DEF NothingYet, initVars, Writing
<1>. QED  BY <1>5, <1>7, <1>8, <1>9 DEF IInv

LEMMA RecordPreserves ==
  ASSUME IInv, NEW c \in Caller, Record(c)
  PROVE  IInv'
<1>1. PICK w \in {"end", "idle", "everyChat"} : Goto(c, w)
  BY ThreadFacts DEF Record, AfterRecord, Raise
<1>2. /\ pc[c] = "record"
      /\ stateList' = [stateList EXCEPT ![c] =
                        IF Recorded(c) THEN Append(stateList[c], handled[c])
                                       ELSE stateList[c]]
      /\ UNCHANGED <<initVars, config, chatVars, stateSubject, timerVars, nodeVars>>
  BY DEF Record
<1>3. /\ DOMAIN pc' = Thread /\ pc'[c] = w
      /\ \A u \in Thread : u # c => pc'[u] = pc[u]
  BY <1>1, GotoFacts, ThreadFacts DEF IInv
<1>4. PlacesOK'
  BY <1>1, <1>3, ThreadFacts DEF IInv, TypeOK, PlacesOK, Sending
<1>5. Recorded(c) => stateList[c] \in Seq(Nat) /\ handled[c] \in Nat
  BY DEF IInv, TypeOK, Recorded
<1>6. /\ stateList' \in [Caller -> {Absent, None} \cup Seq(Nat)]
      /\ stateList'[c] = IF Recorded(c) THEN Append(stateList[c], handled[c])
                                        ELSE stateList[c]
      /\ \A d \in Caller : d # c => stateList'[d] = stateList[d]
  BY <1>2, <1>5 DEF IInv, TypeOK
<1>7. \A d \in Caller : HasList(d)' => HasList(d)
  BY <1>6 DEF HasList, Recorded
<1>8. SubjectCoversList'
  BY <1>2, <1>3, <1>7, ThreadFacts DEF IInv, SubjectCoversList, Keys, timerVars
<1>9. ASSUME Recorded(c) PROVE OneRun(c)'
  <2>. DEFINE first == (handled[c] - 1) - Len(stateList[c]) + 1
              list2 == Append(stateList[c], handled[c])
  <2>1. /\ \A i \in 1..Len(stateList[c]) : stateList[c][i] = first + i - 1
        /\ first \in 1..handled[c]
        /\ \A i \in first..handled[c] : (history[c][i] = "start") <=> (i = first)
    BY <1>2, <1>9 DEF IInv, ListIsOneRun, OneRun
  <2>2. Len(list2) = Len(stateList[c]) + 1 /\ Len(stateList[c]) \in Nat
    BY <1>5, <1>9
  <2>3. \A i \in 1..Len(list2) : list2[i] = first + i - 1
    BY <1>5, <1>9, <2>1, <2>2
  <2>4. first = handled[c] - Len(list2) + 1
    BY <1>5, <1>9, <2>2
  <2>5. stateList'[c] = list2 /\ UNCHANGED <<handled, history>>
    BY <1>2, <1>6, <1>9 DEF nodeVars
  <2>6. pc'[c] \notin {"subject", "record"}
    BY <1>3
  <2>. HIDE DEF first, list2
  <2>. QED  BY <2>1, <2>3, <2>4, <2>5, <2>6 DEF OneRun
<1>10. Recorded(c)' => Recorded(c)
  BY <1>6 DEF Recorded
<1>11. ASSUME NEW d \in Caller, d # c, Recorded(d)' PROVE OneRun(d)'
  BY <1>2, <1>3, <1>6, <1>11, ThreadFacts, OthersKeepTheirRun DEF nodeVars
<1>12. ListIsOneRun'
  BY <1>9, <1>10, <1>11 DEF ListIsOneRun
<1>13. TypeOK'
  BY <1>2, <1>4, <1>6, Zenon DEF IInv, TypeOK, initVars, chatVars, timerVars, nodeVars
<1>14. NothingYet'
  BY <1>2, SendingIsLate, ThreadFacts DEF NothingYet, initVars
<1>. QED  BY <1>8, <1>12, <1>13, <1>14 DEF IInv

(* The two steps that end a list: None after the report of the callback,   *)
(* no key after that of the timer.                                         *)
LEMMA CloseListPreserves ==
  ASSUME IInv, NEW c \in Caller, CloseList(c)
  PROVE  IInv'
<1>1. /\ pc[c] = "close" /\ Goto(c, "closeSubject")
      /\ stateList' = [stateList EXCEPT ![c] = None]
      /\ UNCHANGED <<initVars, config, chatVars, stateSubject, timerVars, nodeVars>>
  BY DEF CloseList
<1>2. /\ DOMAIN pc' = Thread /\ pc'[c] = "closeSubject"
      /\ \A u \in Thread : u # c => pc'[u] = pc[u]
  BY <1>1, GotoFacts, ThreadFacts DEF IInv
<1>3. /\ stateList' \in [Caller -> {Absent, None} \cup Seq(Nat)]
      /\ stateList'[c] = None
      /\ \A d \in Caller : d # c => stateList'[d] = stateList[d]
  BY <1>1 DEF IInv, TypeOK
<1>4. PlacesOK'
  BY <1>2, ThreadFacts DEF IInv, TypeOK, PlacesOK
<1>5. SubjectCoversList'
  BY <1>1, <1>2, <1>3, ThreadFacts DEF IInv, SubjectCoversList, Keys, HasList, timerVars
<1>6. ASSUME NEW d \in Caller, Recorded(d)' PROVE OneRun(d)'
  <2>1. d # c
    BY <1>3, <1>6 DEF Recorded
  <2>. QED  BY <1>1, <1>2, <1>3, <1>6, <2>1, ThreadFacts, OthersKeepTheirRun DEF nodeVars
<1>7. TypeOK'
  BY <1>1, <1>3, <1>4, Zenon DEF IInv, TypeOK, initVars, chatVars, timerVars, nodeVars
<1>8. NothingYet'
  BY <1>1, SendingIsLate, ThreadFacts DEF NothingYet, initVars
<1>. QED  BY <1>5, <1>6, <1>7, <1>8 DEF IInv, ListIsOneRun

LEMMA DeleteListPreserves ==
  ASSUME IInv, DeleteList
  PROVE  IInv'
<1>1. /\ pc[Timer] = "deleteList" /\ Goto(Timer, "next") /\ key' = None
      /\ stateList' = [stateList EXCEPT ![key] = Absent]
      /\ UNCHANGED <<initVars, config, chatVars, stateSubject, todo, size, nodeVars>>
  BY DEF DeleteList
<1>2. /\ DOMAIN pc' = Thread /\ pc'[Timer] = "next"
      /\ \A u \in Thread : u # Timer => pc'[u] = pc[u]
  BY <1>1, GotoFacts, ThreadFacts DEF IInv
<1>3. /\ stateList' \in [Caller -> {Absent, None} \cup Seq(Nat)]
      /\ \A d \in Caller : stateList'[d] = IF d = key THEN Absent ELSE stateList[d]
  BY <1>1 DEF IInv, TypeOK
<1>4. PlacesOK'
  BY <1>2, ThreadFacts DEF IInv, TypeOK, PlacesOK
<1>5. SubjectCoversList'
  BY <1>1, <1>2, <1>3, ThreadFacts DEF IInv, SubjectCoversList, Keys, HasList
<1>6. ASSUME NEW d \in Caller, Recorded(d)' PROVE OneRun(d)'
  <2>1. stateList'[d] = stateList[d]
    BY <1>3, <1>6 DEF Recorded
  <2>. QED  BY <1>1, <1>2, <1>6, <2>1, ThreadFacts, OthersKeepTheirRun DEF nodeVars
<1>7. TypeOK'
  <2>1. key' \in Caller \cup {None}
    BY <1>1
  <2>. QED  BY <1>1, <1>3, <1>4, <2>1, Zenon
               DEF IInv, TypeOK, initVars, chatVars, nodeVars
<1>8. NothingYet'
  BY <1>1, SendingIsLate, ThreadFacts DEF NothingYet, initVars
<1>. QED  BY <1>5, <1>6, <1>7, <1>8 DEF IInv, ListIsOneRun

LEMMA EndsPreserves ==
  ASSUME IInv, NEW c \in Caller, Ends(c)
  PROVE  IInv'
<1>1. PICK w \in {"mail", "idle"} : Goto(c, w)
  BY DEF Ends
<1>2. /\ pc[c] = "end"
      /\ UNCHANGED <<initVars, config, chatVars, dicts, timerVars, nodeVars>>
  BY DEF Ends
<1>3. /\ DOMAIN pc' = Thread /\ pc'[c] = w
      /\ \A u \in Thread : u # c => pc'[u] = pc[u]
  BY <1>1, GotoFacts, ThreadFacts DEF IInv
<1>4. PlacesOK'
  BY <1>1, <1>3, ThreadFacts DEF IInv, TypeOK, PlacesOK, Sending
<1>5. SubjectCoversList' /\ ListIsOneRun'
  <2>1. \A d \in Caller : /\ pc[d] \in Writing => pc'[d] \in Writing
                          /\ pc[d] \in Unrecorded <=> pc'[d] \in Unrecorded
    BY <1>1, <1>2, <1>3, ThreadFacts DEF Writing, Unrecorded
  <2>. QED  BY <1>2, <1>3, <2>1, QuietStep, ThreadFacts DEF nodeVars, timerVars
<1>6. TypeOK'
  BY <1>2, <1>4, Zenon DEF IInv, TypeOK, initVars, chatVars, dicts, timerVars, nodeVars
<1>7. NothingYet'
  BY <1>2, SendingIsLate, ThreadFacts DEF NothingYet, initVars
<1>. QED  BY <1>5, <1>6, <1>7 DEF IInv

(***************************************************************************)
(* The loop of the timer, except for the removal of a list.                *)
(***************************************************************************)
LEMMA TimerLoopPreserves ==
  ASSUME IInv,
         TimerTick \/ TimerNextRaises \/ TimerDone \/ \E k \in Caller : Ping(k)
  PROVE  IInv'
<1>1. PICK w \in {"next", "dead", "idle", "mail"} :
        Goto(Timer, w) \/ (pc' = pc /\ pc[Timer] = w)
  <2>1. ASSUME NEW k \in Caller, Ping(k)
        PROVE  Goto(Timer, "mail") \/ (pc' = pc /\ pc[Timer] = "next")
    BY <2>1 DEF Ping
  <2>. QED  BY <2>1 DEF TimerTick, TimerNextRaises, TimerDone, Raise
<1>2. /\ pc[Timer] \in {"idle", "next"}
      /\ UNCHANGED <<initVars, config, chatVars, dicts, nodeVars>>
  BY DEF TimerTick, TimerNextRaises, TimerDone, Ping
<1>3. key' \in Caller \cup {None} /\ todo' \subseteq Caller /\ size' \in Nat
  <2>1. Keys \subseteq Caller
    BY DEF Keys
  <2>. QED  BY <2>1, KeysAreFinite
         DEF IInv, TypeOK, TimerTick, TimerNextRaises, TimerDone, Ping, timerVars
<1>4. /\ DOMAIN pc' = Thread /\ pc'[Timer] = w
      /\ \A u \in Thread : u # Timer => pc'[u] = pc[u]
  BY <1>1, GotoFacts, ThreadFacts DEF IInv, TypeOK, PlacesOK
<1>5. PlacesOK'
  BY <1>1, <1>4, ThreadFacts DEF IInv, TypeOK, PlacesOK, Sending
<1>6. SubjectCoversList' /\ ListIsOneRun'
  BY <1>2, <1>4, QuietStep, ThreadFacts DEF nodeVars
<1>7. TypeOK'
  BY <1>2, <1>3, <1>5, Zenon DEF IInv, TypeOK, initVars, chatVars, dicts, nodeVars
<1>8. NothingYet'
  <2>1. phase # "subscribed"
    BY <1>2, SendingIsLate, ThreadFacts DEF TimerTick, TimerNextRaises, TimerDone, Ping
  <2>. QED  BY <1>2, <2>1 DEF NothingYet, initVars
<1>. QED  BY <1>6, <1>7, <1>8 DEF IInv

LEMMA DeleteSubjectPreserves ==
  ASSUME IInv, DeleteSubject
  PROVE  IInv'
<1>1. PICK w \in {"deleteList", "dead"} :
        /\ Goto(Timer, w)
        /\ stateSubject' = IF w = "deleteList" THEN stateSubject \ {key}
                                               ELSE stateSubject
  BY DEF DeleteSubject, Raise
<1>2. /\ pc[Timer] = "delete"
      /\ UNCHANGED <<initVars, config, chatVars, stateList, timerVars, nodeVars>>
  BY DEF DeleteSubject
<1>3. /\ DOMAIN pc' = Thread /\ pc'[Timer] = w
      /\ \A u \in Thread : u # Timer => pc'[u] = pc[u]
  BY <1>1, GotoFacts, ThreadFacts DEF IInv
<1>4. PlacesOK'
  BY <1>1, <1>3, ThreadFacts DEF IInv, TypeOK, PlacesOK
<1>5. SubjectCoversList'
  BY <1>1, <1>2, <1>3, ThreadFacts DEF IInv, SubjectCoversList, Keys, HasList, timerVars
<1>6. ListIsOneRun'
  BY <1>2, <1>3, ThreadFacts, OthersKeepTheirRun DEF ListIsOneRun, nodeVars
<1>7. TypeOK'
  <2>1. stateSubject' \subseteq Caller
    BY <1>1 DEF IInv, TypeOK
  <2>. QED  BY <1>2, <1>4, <2>1, Zenon
               DEF IInv, TypeOK, initVars, chatVars, timerVars, nodeVars
<1>8. NothingYet'
  BY <1>2, SendingIsLate, ThreadFacts DEF NothingYet, initVars
<1>. QED  BY <1>5, <1>6, <1>7, <1>8 DEF IInv

(***************************************************************************)
(* The steps of others, which move no thread.                              *)
(***************************************************************************)
LEMMA OthersPreserve ==
  ASSUME IInv,
         \/ InitDicts \/ ReconfigureCb \/ ResultArrives
         \/ \E c \in Caller : Die(c) \/ Restart(c)
  PROVE  IInv'
<1>1. /\ UNCHANGED <<dicts, pc, timerVars, history, handled, keysAreView>>
      /\ phase' = phase \/ phase' = "ready"
  BY DEF InitDicts, ReconfigureCb, ResultArrives, Die, Restart, initVars, nodeVars
<1>2. SubjectCoversList' /\ ListIsOneRun'
  BY <1>1, QuietStep DEF timerVars
<1>3. config' \subseteq Option /\ alive' \subseteq Caller
  <2>1. config \subseteq Option /\ alive \subseteq Caller
    BY DEF IInv, TypeOK
  <2>2. ASSUME InitDicts PROVE config' \subseteq Option /\ alive' = alive
    BY <2>1, <2>2 DEF InitDicts, nodeVars
  <2>3. ASSUME ReconfigureCb PROVE config' \subseteq Option /\ alive' = alive
    BY <2>3, ConstantsAssumption DEF ConstantsAssumption, ReconfigureCb, nodeVars
  <2>4. ASSUME ResultArrives PROVE UNCHANGED <<config, alive>>
    BY <2>4 DEF ResultArrives, nodeVars
  <2>5. ASSUME NEW c \in Caller, Die(c) \/ Restart(c)
        PROVE  config' = config /\ alive' \subseteq Caller
    BY <2>1, <2>5 DEF Die, Restart
  <2>. QED  BY <2>1, <2>2, <2>3, <2>4, <2>5
<1>4. client' \in BOOLEAN /\ chatDone' \in BOOLEAN /\ chatThread' \in BOOLEAN
  <2>1. client \in BOOLEAN /\ chatDone \in BOOLEAN /\ chatThread \in BOOLEAN
    BY DEF IInv, TypeOK
  <2>2. ASSUME InitDicts PROVE client' \in BOOLEAN /\ UNCHANGED <<chatDone, chatThread>>
    BY <2>2 DEF InitDicts
  <2>3. ASSUME ResultArrives PROVE chatDone' = TRUE /\ UNCHANGED <<client, chatThread>>
    BY <2>3 DEF ResultArrives
  <2>4. ASSUME ReconfigureCb \/ \E c \in Caller : Die(c) \/ Restart(c)
        PROVE  UNCHANGED <<client, chatDone, chatThread>>
    BY <2>4 DEF ReconfigureCb, Die, Restart, chatVars
  <2>. QED  BY <2>1, <2>2, <2>3, <2>4
<1>5. TypeOK'
  <2>1. phase' \in {"subscribed", "ready"}
    BY <1>1 DEF IInv, TypeOK
  <2>. QED  BY <1>1, <1>3, <1>4, <2>1, Zenon
               DEF IInv, TypeOK, PlacesOK, dicts, timerVars
<1>6. NothingYet'
  BY <1>1 DEF IInv, NothingYet, dicts
<1>. QED  BY <1>2, <1>5, <1>6 DEF IInv

LEMMA PublishPreserves ==
  ASSUME IInv, NEW c \in Caller, NEW kind \in Kind, Publish(c, kind)
  PROVE  IInv'
<1>1. /\ history' = [history EXCEPT ![c] = Append(history[c], kind)]
      /\ UNCHANGED <<initVars, config, chatVars, dicts, pc, timerVars, alive, handled>>
  BY DEF Publish
<1>2. /\ history' \in [Caller -> Seq(Kind)]
      /\ \A d \in Caller : /\ handled[d] <= Len(history'[d])
                            /\ \A i \in 1..handled[d] : history'[d][i] = history[d][i]
  BY <1>1 DEF IInv, TypeOK
<1>3. SubjectCoversList' /\ ListIsOneRun'
  BY <1>1, <1>2, QuietStep DEF timerVars
<1>4. TypeOK'
  BY <1>1, <1>2, Zenon DEF IInv, TypeOK, PlacesOK, initVars, chatVars, dicts, timerVars
<1>5. NothingYet'
  BY <1>1 DEF IInv, NothingYet, initVars, dicts
<1>. QED  BY <1>3, <1>4, <1>5 DEF IInv

LEMMA InitIInv == Init => IInv
<1> SUFFICES ASSUME Init PROVE IInv
  OBVIOUS
<1>1. \A c \in Caller : stateList[c] = Absent
  BY DEF Init
<1>2. SubjectCoversList /\ ListIsOneRun
  BY <1>1 DEF SubjectCoversList, ListIsOneRun, Keys, HasList, Recorded
<1>3. NothingYet
  BY <1>1 DEF Init, NothingYet
<1>. QED  BY <1>2, <1>3, InitType DEF IInv

LEMMA NextIInv == IInv /\ [Next]_vars => IInv'
<1> SUFFICES ASSUME IInv, [Next]_vars PROVE IInv'
  OBVIOUS
<1>1. CASE InitDicts \/ ReconfigureCb \/ ResultArrives
  BY <1>1, OthersPreserve
<1>2. CASE StopTimerCb
  <2>1. CASE SendStep(Timer)
    BY <2>1, SendPreserves, ThreadFacts
  <2>2. CASE TimerTick \/ TimerNextRaises \/ TimerDone \/ \E k \in Caller : Ping(k)
    BY <2>2, TimerLoopPreserves
  <2>3. CASE DeleteSubject \/ DeleteList
    BY <2>3, DeleteSubjectPreserves, DeleteListPreserves
  <2>. QED  BY <1>2, <2>1, <2>2, <2>3 DEF StopTimerCb
<1>3. ASSUME NEW c \in Caller, StatusCb(c) PROVE IInv'
  <2>1. CASE SendStep(c)
    BY <2>1, SendPreserves, ThreadFacts
  <2>2. CASE SetSubject(c) \/ CloseSubject(c)
    BY <2>2, SubjectPreserves
  <2>. QED  BY <1>3, <2>1, <2>2, ReceivePreserves, RecordPreserves, EndsPreserves,
               CloseListPreserves DEF StatusCb
<1>4. ASSUME NEW c \in Caller, Die(c) \/ Restart(c) PROVE IInv'
  BY <1>4, OthersPreserve
<1>5. ASSUME NEW c \in Caller, NEW kind \in Kind, Publish(c, kind) PROVE IInv'
  BY <1>5, PublishPreserves
<1>6. CASE UNCHANGED vars
  <2>1. SubjectCoversList' /\ ListIsOneRun'
    BY <1>6, QuietStep DEF vars, dicts, nodeVars, timerVars
  <2>2. TypeOK'
    BY <1>6, Zenon DEF IInv, TypeOK, PlacesOK, vars, initVars, chatVars, dicts,
                       timerVars, nodeVars
  <2>3. NothingYet'
    BY <1>6 DEF IInv, NothingYet, vars, initVars, dicts
  <2>. QED  BY <2>1, <2>2, <2>3 DEF IInv
<1>. QED  BY <1>1, <1>2, <1>3, <1>4, <1>5, <1>6 DEF Next

(***************************************************************************)
(* The variables keep their types, for any number of callers and statuses. *)
(***************************************************************************)
THEOREM TypeCorrect == Spec => []TypeOK
<1>1. IInv => TypeOK
  BY DEF IInv
<1>. QED  BY InitIInv, NextIInv, <1>1, PTL DEF Spec

(***************************************************************************)
(* A caller with a list has a subject, except between the two writes of    *)
(* _status_cb and between the two removals of _stop_timer_cb.              *)
(***************************************************************************)
THEOREM DictionariesAgree == Spec => []SubjectCoversList
<1>1. IInv => SubjectCoversList
  BY DEF IInv
<1>. QED  BY InitIInv, NextIInv, <1>1, PTL DEF Spec

(***************************************************************************)
(* Whatever the timer removes meanwhile, a list is one run: the statuses   *)
(* since the last START, in order and without a gap.                       *)
(***************************************************************************)
THEOREM ReportsAreWhole == Spec => []ListIsOneRun
<1>1. IInv => ListIsOneRun
  BY DEF IInv
<1>. QED  BY InitIInv, NextIInv, <1>1, PTL DEF Spec
=============================================================================
