------------------------ MODULE RobotServicesProofs ------------------------
(***************************************************************************)
(* Proofs about RobotServices, for any set of behaviours, triggers,        *)
(* publishers and nodes, any number of runs and any calls that fail.  Each *)
(* node has an inductive invariant of its own; that a step of the whole is *)
(* one of the node or leaves it alone carries them over to the composition *)
(* at the end.  Where only a liveness property is checked of a node, the   *)
(* theorem is the invariant that property rests on.                        *)
(***************************************************************************)
EXTENDS RobotServices, TLAPS

(***************************************************************************)
(* ParameterRecovery.  The types and the mutex are inductive by themselves.*)
(***************************************************************************)

(* The mutex of a behaviour is held by the one that is in its section.     *)
LEMMA InitType == Init => TypeOK
BY ConstantsAssumption DEF Init, TypeOK, Config, Nobody

LEMMA NextType == TypeOK /\ [Next]_vars => TypeOK'
<1> SUFFICES ASSUME TypeOK, [Next]_vars
             PROVE  TypeOK'
  OBVIOUS
<1> USE ConstantsAssumption DEF TypeOK, Config, Nobody
<1>1. CASE UNCHANGED vars
  BY <1>1 DEF vars
<1>2. CASE OperatorTunes
  BY <1>2 DEF OperatorTunes
<1>3. ASSUME NEW b \in Behaviour, Run(b)
      PROVE  TypeOK'
  BY <1>3 DEF Run
<1>4. ASSUME NEW b \in Behaviour, RunGet(b)
      PROVE  TypeOK'
  BY <1>4 DEF RunGet, StoreOriginal
<1>5. ASSUME NEW b \in Behaviour, RunGetFails(b)
      PROVE  TypeOK'
  BY <1>5 DEF RunGetFails, RunReturns
<1>6. ASSUME NEW b \in Behaviour, RunSet(b)
      PROVE  TypeOK'
  BY <1>6 DEF RunSet, RunReturns, DeadlineSet
<1>7. ASSUME NEW b \in Behaviour, RunSetFails(b)
      PROVE  TypeOK'
  BY <1>7 DEF RunSetFails, RunReturns
<1>8. ASSUME NEW b \in Behaviour, DeadlinePasses(b)
      PROVE  TypeOK'
  BY <1>8 DEF DeadlinePasses
<1>9. ASSUME NEW b \in Behaviour, SpinTest(b)
      PROVE  TypeOK'
  BY <1>9 DEF SpinTest, MayRestore
<1>10. ASSUME NEW b \in Behaviour, SpinSet(b)
       PROVE  TypeOK'
  BY <1>10 DEF SpinSet
<1>. QED
  BY <1>1, <1>2, <1>3, <1>4, <1>5, <1>6, <1>7, <1>8, <1>9, <1>10 DEF Next

(***************************************************************************)
(* A value that is written is one whose behaviour has stored its original: *)
(* as long as b has not, b's value is nowhere.                             *)
(***************************************************************************)
UnstoredIsUnknown ==
  \A b \in Behaviour :
    ~stored[b] => /\ server # b
                  /\ \A c \in Behaviour : current[c] # b /\ original[c] # b

OriginalInv == TypeOK /\ UnstoredIsUnknown /\ OwnUpdateNeverOriginal

LEMMA InitOriginal == Init => OriginalInv
<1> SUFFICES ASSUME Init PROVE OriginalInv
  OBVIOUS
<1>1. "initial" \notin Behaviour
  BY ConstantsAssumption
<1>2. UnstoredIsUnknown /\ OwnUpdateNeverOriginal
  BY <1>1 DEF Init, UnstoredIsUnknown, OwnUpdateNeverOriginal
<1>. QED
  BY <1>2, InitType DEF OriginalInv

LEMMA NextOriginal == OriginalInv /\ [Next]_vars => OriginalInv'
<1> SUFFICES ASSUME OriginalInv, [Next]_vars
             PROVE  OriginalInv'
  OBVIOUS
<1>0. TypeOK' /\ TypeOK
  BY NextType DEF OriginalInv
<1>t. "tuned" \notin Behaviour
  BY ConstantsAssumption
<1> DEFINE Own == UnstoredIsUnknown' /\ OwnUpdateNeverOriginal'
<1>s. SUFFICES Own
  BY <1>0 DEF OriginalInv
<1> USE DEF UnstoredIsUnknown, OwnUpdateNeverOriginal, OriginalInv
<1>1. CASE UNCHANGED vars
  BY <1>1 DEF vars
<1>2. CASE OperatorTunes
  BY <1>2, <1>t DEF OperatorTunes
<1>3. ASSUME NEW b \in Behaviour, Run(b)
      PROVE  Own
  BY <1>3 DEF Run
<1>4. ASSUME NEW b \in Behaviour, RunGet(b)
      PROVE  Own
  BY <1>4, <1>0 DEF RunGet, StoreOriginal, TypeOK
<1>5. ASSUME NEW b \in Behaviour, RunGetFails(b)
      PROVE  Own
  BY <1>5 DEF RunGetFails
<1>6. ASSUME NEW b \in Behaviour, RunSet(b)
      PROVE  Own
  BY <1>6 DEF RunSet
<1>7. ASSUME NEW b \in Behaviour, RunSetFails(b)
      PROVE  Own
  BY <1>7 DEF RunSetFails
<1>8. ASSUME NEW b \in Behaviour, DeadlinePasses(b)
      PROVE  Own
  BY <1>8 DEF DeadlinePasses
<1>9. ASSUME NEW b \in Behaviour, SpinTest(b)
      PROVE  Own
  BY <1>9 DEF SpinTest
<1>10. ASSUME NEW b \in Behaviour, SpinSet(b)
       PROVE  Own
  BY <1>10 DEF SpinSet
<1>. QED
  BY <1>1, <1>2, <1>3, <1>4, <1>5, <1>6, <1>7, <1>8, <1>9, <1>10 DEF Next

(***************************************************************************)
(* The deadline moves only under the mutex, which spinRestore holds from   *)
(* its test to its write.                                                  *)
(***************************************************************************)
LEMMA NextEarly ==
  TypeOK /\ NeverRestoredEarly /\ [Next]_vars => NeverRestoredEarly'
<1> SUFFICES ASSUME TypeOK, NeverRestoredEarly, [Next]_vars
             PROVE  NeverRestoredEarly'
  OBVIOUS
<1> USE DEF TypeOK, NeverRestoredEarly
<1>1. CASE UNCHANGED vars
  BY <1>1 DEF vars
<1>2. CASE OperatorTunes
  BY <1>2 DEF OperatorTunes
<1>3. ASSUME NEW b \in Behaviour,
             Run(b) \/ RunGet(b) \/ RunGetFails(b) \/ RunSetFails(b)
      PROVE  NeverRestoredEarly'
  BY <1>3 DEF Run, RunGet, RunGetFails, RunSetFails
<1>4. ASSUME NEW b \in Behaviour, RunSet(b)
      PROVE  NeverRestoredEarly'
  <2>1. spc[b] # "set"
    BY <1>4 DEF RunSet, Nobody
  <2>. QED
    BY <2>1, <1>4 DEF RunSet, DeadlineSet
<1>5. ASSUME NEW b \in Behaviour, DeadlinePasses(b)
      PROVE  NeverRestoredEarly'
  BY <1>5 DEF DeadlinePasses
<1>6. ASSUME NEW b \in Behaviour, SpinTest(b)
      PROVE  NeverRestoredEarly'
  BY <1>6 DEF SpinTest, MayRestore
<1>7. ASSUME NEW b \in Behaviour, SpinSet(b)
      PROVE  NeverRestoredEarly'
  BY <1>7 DEF SpinSet
<1>. QED
  BY <1>1, <1>2, <1>3, <1>4, <1>5, <1>6, <1>7 DEF Next

(***************************************************************************)
(* An update is left behind if it is in force and its behaviour waits for  *)
(* no deadline to end it.  That happens in three ways only: the reply to   *)
(* it is lost, its restoration fails, or another behaviour has taken it    *)
(* for the original and puts it back.                                      *)
(***************************************************************************)
LeftBehind(b) == server = b /\ ~waiting[b]
ReplyLost(b) == "reply" \in Failures /\ rpc[b] = "set" /\ rpc'[b] = "idle"
Restores(b) == spc[b] = "set" /\ spc'[b] = "sleep"
LeftWithReason ==
  \A b \in Behaviour :
    ~LeftBehind(b) /\ LeftBehind(b)' =>
      \/ ReplyLost(b)
      \/ "restore" \in Failures /\ Restores(b) /\ server = b
      \/ \E c \in Behaviour \ {b} : Restores(c) /\ original[c] = b

SectionInv ==
  /\ OriginalInv
  /\ \A b \in Behaviour : (spc[b] = "set" => stored[b]) /\ (rpc[b] = "set" => current[b] = b)

LEMMA InitSection == Init => SectionInv
BY InitOriginal DEF Init, SectionInv

LEMMA NextSection ==
  ASSUME SectionInv, [Next]_vars
  PROVE  SectionInv'
<1>0. OriginalInv' /\ TypeOK
  BY NextOriginal DEF SectionInv, OriginalInv
<1>. DEFINE Sections == \A c \in Behaviour : /\ spc'[c] = "set" => stored'[c]
                                             /\ rpc'[c] = "set" => current'[c] = c
<1>s. SUFFICES Sections
  BY <1>0 DEF SectionInv
<1>. USE <1>0 DEF SectionInv, TypeOK
<1>1. CASE OperatorTunes \/ UNCHANGED vars
  BY <1>1 DEF OperatorTunes, vars
<1>2. ASSUME NEW b \in Behaviour, Run(b) \/ RunGetFails(b) \/ DeadlinePasses(b)
      PROVE  Sections
  BY <1>2 DEF Run, RunGetFails, RunReturns, DeadlinePasses
<1>3. ASSUME NEW b \in Behaviour, RunGet(b)
      PROVE  Sections
  BY <1>3 DEF RunGet, StoreOriginal
<1>4. ASSUME NEW b \in Behaviour, RunSet(b) \/ RunSetFails(b)
      PROVE  Sections
  BY <1>4 DEF RunSet, RunSetFails, RunReturns, DeadlineSet
<1>5. ASSUME NEW b \in Behaviour, SpinTest(b) \/ SpinSet(b)
      PROVE  Sections
  BY <1>5 DEF SpinTest, MayRestore, SpinSet
<1>. QED
  BY <1>1, <1>2, <1>3, <1>4, <1>5 DEF Next

LEMMA StepLeaves ==
  ASSUME SectionInv, [Next]_vars
  PROVE  LeftWithReason
<1>0. TypeOK /\ OwnUpdateNeverOriginal
  BY DEF SectionInv, OriginalInv
<1>t. "tuned" \notin Behaviour
  BY ConstantsAssumption
<1>. USE <1>0 DEF SectionInv, TypeOK, LeftWithReason, LeftBehind
<1>1. CASE OperatorTunes \/ UNCHANGED vars
  BY <1>1, <1>t DEF OperatorTunes, vars
<1>2. ASSUME NEW b \in Behaviour,
             Run(b) \/ RunGet(b) \/ RunGetFails(b) \/ DeadlinePasses(b) \/ SpinTest(b)
      PROVE  LeftWithReason
  BY <1>2 DEF Run, RunGet, RunGetFails, DeadlinePasses, SpinTest
<1>3. ASSUME NEW b \in Behaviour, RunSet(b)
      PROVE  LeftWithReason
  BY <1>3 DEF RunSet
<1>4. ASSUME NEW b \in Behaviour, RunSetFails(b)
      PROVE  LeftWithReason
  BY <1>4 DEF RunSetFails, RunReturns, ReplyLost
<1>5. ASSUME NEW b \in Behaviour, SpinSet(b)
      PROVE  LeftWithReason
  <2>1. Restores(b)
    BY <1>5 DEF SpinSet, Restores
  <2>2. original[b] # b
    BY <1>5 DEF SpinSet, OwnUpdateNeverOriginal
  <2>. QED
    BY <1>5, <2>1, <2>2 DEF SpinSet
<1>. QED
  BY <1>1, <1>2, <1>3, <1>4, <1>5 DEF Next

(***************************************************************************)
(* MuxSelector.                                                            *)
(***************************************************************************)
Inside == {"read", "eval", "reacquire"}

(* A thread holds the lock exactly while it is between acquire and         *)
(* release; one that waits for a lock it holds itself has raised.          *)
LockIsHeldInside ==
  /\ \A t \in Mux!Triggers \cup {Main} : t \in owner <=> muxPc[t] \in Inside
  /\ \A t, u \in owner : t = u
  /\ \A t \in Mux!Triggers : muxPc[t] = "reacquire" => raised

MuxTypes ==
  /\ DOMAIN muxPc = Mux!Triggers \cup {Main} /\ owner \subseteq Mux!Triggers \cup {Main}
  /\ muxPc[Main] \in {"off", "trigger", "acquire", "read", "select"}
  /\ \A i \in Mux!Triggers : muxPc[i] \in {"idle", "acquire", "eval", "reacquire"}
  /\ raised \in BOOLEAN

MuxInv ==
  /\ MuxTypes /\ LockIsHeldInside /\ MuxFollowsLoop
  /\ muxPc[Main] \in {"off", "trigger"} => lastCall = "none"

LEMMA MuxInit == Mux!Init => MuxInv
BY ServicesAssumption DEF Mux!Init, Mux!Triggers, MuxInv, MuxTypes, LockIsHeldInside, Inside,
   MuxFollowsLoop, Mux!MuxFollowsLoop

LEMMA MuxNext ==
  ASSUME MuxInv, [Mux!Next]_(Mux!muxVars)
  PROVE  MuxInv'
<1>. Main \notin Mux!Triggers
  BY ServicesAssumption DEF Mux!Triggers
<1>. USE DEF MuxInv, MuxTypes, LockIsHeldInside, Inside, MuxFollowsLoop, Mux!MuxFollowsLoop,
             Mux!Goto, Mux!optionVars, Mux!triggerVars, Mux!loopVars
<1>1. CASE Mux!Launch
  BY <1>1 DEF Mux!Launch
<1>2. CASE Mux!AddTrigger
  BY <1>2 DEF Mux!AddTrigger, Mux!NextTrigger
<1>3. CASE Mux!Acquire(Main, "acquire", "read")
  BY <1>3 DEF Mux!Acquire
<1>4. CASE Mux!Read
  BY <1>4 DEF Mux!Read, Mux!AfterRead
<1>5. CASE Mux!Select
  BY <1>5 DEF Mux!Select, Mux!Unchanged
<1>6. ASSUME NEW i \in Mux!Triggers, Mux!Acquire(i, "acquire", "eval") PROVE MuxInv'
  BY <1>6 DEF Mux!Acquire
<1>7. ASSUME NEW i \in Mux!Triggers, Mux!Evaluate(i) PROVE MuxInv'
  <2>1. CASE raised' = TRUE /\ Mux!Goto(i, "reacquire") /\ UNCHANGED <<selects, owner>>
    BY <1>7, <2>1 DEF Mux!Evaluate
  <2>2. CASE owner' = {} /\ Mux!Goto(i, "idle") /\ UNCHANGED raised
    BY <1>7, <2>2 DEF Mux!Evaluate
  <2>. QED  BY <1>7, <2>1, <2>2 DEF Mux!Evaluate
<1>8. ASSUME NEW i \in Mux!Triggers,
             Mux!MessageArrives(i) \/ Mux!Expire(i) \/ Mux!Advertise(i)
      PROVE  MuxInv'
  BY <1>8 DEF Mux!MessageArrives, Mux!Expire, Mux!Advertise
<1>9. CASE UNCHANGED Mux!muxVars
  BY <1>9 DEF Mux!muxVars
<1>. HIDE DEF MuxInv
<1>. QED
  BY <1>1, <1>2, <1>3, <1>4, <1>5, <1>6, <1>7, <1>8, <1>9 DEF Mux!Next, Mux!Loop, Mux!Callback

(***************************************************************************)
(* OdometryMuxSelector.                                                    *)
(***************************************************************************)

(* While no call has failed, both muxes pass on the source of the flag     *)
(* whenever the node waits for messages.                                   *)
MuxesFollowFlag ==
  ~selectFails /\ odomPc \in {"waitOdom", "waitTf"} =>
    odomMux = Odom!Source(flag) /\ tfMux = Odom!Source(flag)

OdomInv ==
  /\ flag \in BOOLEAN /\ selectFails \in BOOLEAN /\ MuxesFollowFlag
  /\ odomPc \in {"off", "services", "exited", "waitOdom", "waitTf", "selectOdom", "selectTf"}
  /\ odomPc \in {"off", "services"} =>
       flag = FALSE /\ odomMux = Odom!Source(FALSE) /\ tfMux = odomMux
  /\ odomPc \in {"selectOdom", "selectTf"} => target = Odom!Source(flag)
  /\ odomPc = "selectTf" => odomMux = target

LEMMA OdomInit == Odom!Init => OdomInv
BY DEF Odom!Init, OdomInv, MuxesFollowFlag, Odom!Source

LEMMA OdomNext ==
  ASSUME OdomInv, [Odom!Next]_(Odom!odomMuxVars)
  PROVE  OdomInv'
<1>. USE DEF OdomInv, MuxesFollowFlag, Odom!Source
<1>1. CASE Odom!Launch \/ Odom!WaitForServices
  BY <1>1 DEF Odom!Launch, Odom!WaitForServices
<1>2. CASE Odom!WaitOdom
  <2>1. CASE odomPc' = "waitTf" /\ UNCHANGED <<flag, target>>
    BY <1>2, <2>1 DEF Odom!WaitOdom
  <2>2. CASE Odom!TimedOut /\ flag
    BY <1>2, <2>2 DEF Odom!WaitOdom, Odom!TimedOut
  <2>3. CASE Odom!TimedOut /\ ~flag
    BY <1>2, <2>3 DEF Odom!WaitOdom, Odom!TimedOut
  <2>. QED  BY <1>2, <2>1, <2>2, <2>3 DEF Odom!WaitOdom
<1>3. CASE Odom!WaitTf
  <2>1. CASE Odom!Heard /\ flag
    BY <1>3, <2>1 DEF Odom!WaitTf, Odom!Heard
  <2>2. CASE Odom!Heard /\ ~flag
    BY <1>3, <2>2 DEF Odom!WaitTf, Odom!Heard
  <2>3. CASE Odom!TimedOut /\ flag
    BY <1>3, <2>3 DEF Odom!WaitTf, Odom!TimedOut
  <2>4. CASE Odom!TimedOut /\ ~flag
    BY <1>3, <2>4 DEF Odom!WaitTf, Odom!TimedOut
  <2>. QED  BY <1>3, <2>1, <2>2, <2>3, <2>4 DEF Odom!WaitTf
<1>6. CASE Odom!SelectOdom
  BY <1>6 DEF Odom!SelectOdom, Odom!SelectFailed
<1>7. CASE Odom!SelectTf
  BY <1>7 DEF Odom!SelectTf, Odom!SelectFailed
<1>4. ASSUME NEW t, Odom!Toggle(t) PROVE OdomInv'
  BY <1>4 DEF Odom!Toggle
<1>5. CASE UNCHANGED Odom!odomMuxVars
  BY <1>5 DEF Odom!odomMuxVars
<1>. QED  BY <1>1, <1>2, <1>3, <1>4, <1>5, <1>6, <1>7 DEF Odom!Next, Odom!Step

(***************************************************************************)
(* CableWarning.                                                           *)
(***************************************************************************)

(* The breaker is off only while a callback sleeps that will switch it on, *)
(* or after a service call has failed.                                     *)
SomebodySwitchesOn ==
  breaker = "off" => enableFailed \/ \E p \in Publishers : cablePc[p] = "sleep"

CableInv ==
  /\ DOMAIN cablePc = Publishers /\ SomebodySwitchesOn
  /\ \/ \A p \in Publishers : cablePc[p] # "off"
     \/ breaker = "on" /\ \A p \in Publishers : cablePc[p] = "off"

LEMMA CableInit == Cable!Init => CableInv
BY DEF Cable!Init, CableInv, SomebodySwitchesOn

LEMMA CableNext ==
  ASSUME CableInv, [Cable!Next]_(Cable!cableVars)
  PROVE  CableInv'
<1>. USE DEF CableInv, SomebodySwitchesOn, Cable!CableGoto, Cable!commandVars,
             Cable!messageVars
<1>1. CASE Cable!Launch
  BY <1>1 DEF Cable!Launch, Cable!Launched
<1>2. CASE Cable!UndockStatusCallback \/ Cable!RobotStateSent \/ Cable!RobotStateCallback
           \/ Cable!BatteryCallback \/ Cable!SoundsPlayed \/ UNCHANGED Cable!cableVars
  BY <1>2 DEF Cable!UndockStatusCallback, Cable!RobotStateSent, Cable!RobotStateCallback,
     Cable!BatteryCallback, Cable!SoundsPlayed, Cable!cableVars
<1>3. ASSUME NEW p \in Publishers, Cable!CommandArrives(p) \/ Cable!ReadBreaker(p) \/ Cable!Decide(p)
      PROVE  CableInv'
  BY <1>3 DEF Cable!CommandArrives, Cable!ReadBreaker, Cable!Decide
<1>4. ASSUME NEW p \in Publishers, Cable!Disable(p) PROVE CableInv'
  BY <1>4 DEF Cable!Disable
<1>5. ASSUME NEW p \in Publishers, Cable!Enable(p) PROVE CableInv'
  BY <1>5 DEF Cable!Enable, Cable!SwitchOn
<1>. QED  BY <1>1, <1>2, <1>3, <1>4, <1>5 DEF Cable!Next, Cable!CmdVelCallback

(***************************************************************************)
(* DiagnosticsSpeaker.                                                     *)
(***************************************************************************)

(* A callback waits only for a thread that is dead or has been sent the    *)
(* exception, and that exception is for a thread that lives.               *)
JoinEnds ==
  \A c \in Callers :
    /\ speakerPc[c] = "join" => dying[c] \/ threadPc[c] = "dead"
    /\ dying[c] => Speaker!Alive(c) /\ speakerPc[c] = "join"

SpeakerInv ==
  /\ DOMAIN speakerPc = Callers /\ DOMAIN threadPc = Callers
  /\ DOMAIN dying = Callers /\ JoinEnds

LEMMA SpeakerInit == Speaker!Init => SpeakerInv
BY DEF Speaker!Init, SpeakerInv, JoinEnds

LEMMA SpeakerNext ==
  ASSUME SpeakerInv, [Speaker!Next]_(Speaker!speakerVars)
  PROVE  SpeakerInv'
<1>. USE DEF SpeakerInv, JoinEnds, Speaker!Alive, Speaker!threadVars, Speaker!SpeakerGoto
<1>1. CASE Speaker!Launch
  BY <1>1 DEF Speaker!Launch
<1>2. CASE Speaker!Change \/ Speaker!TenMinutesPass \/ UNCHANGED Speaker!speakerVars
  BY <1>2 DEF Speaker!Change, Speaker!TenMinutesPass, Speaker!speakerVars
<1>3. ASSUME NEW c \in Callers, Speaker!StopThread(c) \/ Speaker!Join(c)
      PROVE  SpeakerInv'
  BY <1>3 DEF Speaker!StopThread, Speaker!Join
<1>4. ASSUME NEW c \in Callers, Speaker!StartThread(c) PROVE SpeakerInv'
  BY <1>4 DEF Speaker!StartThread, Speaker!Free
<1>5. ASSUME NEW c \in Callers, Speaker!Run(c) PROVE SpeakerInv'
  BY <1>5 DEF Speaker!Run, Speaker!LookAt, Speaker!Fresh, Speaker!NotFresh, Speaker!Mark,
     Speaker!Say, Speaker!Slept, Speaker!Ends, Speaker!ThreadAt
<1>. QED
  BY <1>1, <1>2, <1>3, <1>4, <1>5 DEF Speaker!Next, Speaker!DiagnosticsStatusCallback

(***************************************************************************)
(* NavSpeak.                                                               *)
(***************************************************************************)

(* The last result waits in the queue, or in the callback when no newer    *)
(* one does, or has been said.                                             *)
NoResultIsLost ==
  latest # NoResult =>
    \/ queued = latest
    \/ queued = NoResult /\ held = latest
    \/ queued = NoResult /\ held = NoResult /\ said = latest

NavInv ==
  /\ NoResultIsLost
  /\ navPc \in {"off", "idle"} => held = NoResult
  /\ navPc \in {"wait", "play"} => held # NoResult

LEMMA NavInit == Nav!Init => NavInv
BY DEF Nav!Init, NavInv, NoResultIsLost

LEMMA NavNext ==
  ASSUME NavInv, [Nav!Next]_(Nav!navVars)
  PROVE  NavInv'
<1>. USE DEF NavInv, NoResultIsLost, Nav!NavGoto, Nav!speechVars, Nav!resultVars
<1>1. CASE Nav!Launch \/ Nav!MoveBaseResult \/ Nav!OthersSpeak \/ Nav!SpeechEnds
           \/ Nav!StatusCallback \/ UNCHANGED Nav!navVars
  BY <1>1 DEF Nav!Launch, Nav!MoveBaseResult, Nav!OthersSpeak, Nav!SpeechEnds,
     Nav!StatusCallback, Nav!navVars
<1>2. CASE Nav!TakeResult \/ Nav!WaitForSilence \/ Nav!SayResult
  BY <1>2 DEF Nav!TakeResult, Nav!WaitForSilence, Nav!SayResult
<1>. QED  BY <1>1, <1>2 DEF Nav!Next, Nav!Step
-----------------------------------------------------------------------------
(***************************************************************************)
(* The composition.                                                        *)
(***************************************************************************)

(* The nodes share no state: whatever the whole does is a step of each of  *)
(* them or leaves it alone.                                                *)
LEMMA RecoveryStep == [ServicesNext]_servicesVars => [Next]_vars
BY DEF ServicesNext, servicesVars

LEMMA MuxStep == [ServicesNext]_servicesVars => [Mux!Next]_(Mux!muxVars)
BY DEF ServicesNext, servicesVars, switchVars, muxVars, Mux!muxVars, Mux!optionVars,
       Mux!triggerVars, Mux!loopVars

LEMMA OdomStep == [ServicesNext]_servicesVars => [Odom!Next]_(Odom!odomMuxVars)
BY DEF ServicesNext, servicesVars, switchVars, odomVars, Odom!odomMuxVars

LEMMA CableStep == [ServicesNext]_servicesVars => [Cable!Next]_(Cable!cableVars)
BY DEF ServicesNext, servicesVars, warningVars, cableVars, Cable!cableVars,
       Cable!commandVars, Cable!messageVars

LEMMA SpeakerStep == [ServicesNext]_servicesVars => [Speaker!Next]_(Speaker!speakerVars)
BY DEF ServicesNext, servicesVars, warningVars, speakerVars, Speaker!speakerVars,
       Speaker!threadVars

LEMMA NavStep == [ServicesNext]_servicesVars => [Nav!Next]_(Nav!navVars)
BY DEF ServicesNext, servicesVars, navVars, Nav!navVars, Nav!speechVars, Nav!resultVars

(* No behaviour takes its own update for the original configuration,       *)
(* whatever the other behaviours and the operator write and whichever      *)
(* calls fail, a lost reply included.                                      *)
THEOREM OriginalIsForeign == ServicesSpec => []OwnUpdateNeverOriginal
<1>1. OriginalInv => OwnUpdateNeverOriginal
  BY DEF OriginalInv
<1>. QED
  BY <1>1, InitOriginal, NextOriginal, RecoveryStep, PTL DEF ServicesSpec, ServicesInit

(* spinRestore writes only when the deadline of the latest update is over: *)
(* renewing an update and undoing it never overlap.                        *)
THEOREM PeriodIsKept == ServicesSpec => []NeverRestoredEarly
<1>1. Init => NeverRestoredEarly
  BY DEF Init, NeverRestoredEarly
<1>. QED
  BY <1>1, InitType, NextType, NextEarly, RecoveryStep, PTL DEF ServicesSpec, ServicesInit

(* Whatever fails: an update of the costmap is left in force, with nobody  *)
(* who waits for its deadline, only by a lost reply, by its restoration    *)
(* that fails, or by another behaviour that had taken it for the original. *)
THEOREM UpdatesAreOwed == ServicesSpec => [][LeftWithReason]_vars
<1>1. SectionInv /\ [Next]_vars => SectionInv' /\ [LeftWithReason]_vars
  BY NextSection, StepLeaves
<1>. QED
  BY <1>1, InitSection, RecoveryStep, PTL DEF ServicesSpec, ServicesInit

(* The mux passes on the topic that the loop of mux_selector selected      *)
(* last, for any number of triggers, unless the last call failed.          *)
THEOREM MuxIsAtLoop == ServicesSpec => []MuxFollowsLoop
<1>1. MuxInv => MuxFollowsLoop
  BY DEF MuxInv
<1>. QED  BY <1>1, MuxInit, MuxNext, MuxStep, PTL DEF ServicesSpec, ServicesInit

(* The safety half of LockIsReleased: the lock of mux_selector excludes,   *)
(* and the thread that holds it is at a step it can take, unless a         *)
(* condition has raised.                                                   *)
THEOREM LockExcludes == ServicesSpec => []LockIsHeldInside
<1>1. MuxInv => LockIsHeldInside
  BY DEF MuxInv
<1>. QED  BY <1>1, MuxInit, MuxNext, MuxStep, PTL DEF ServicesSpec, ServicesInit

(* The safety half of SourceFollowsPrimary: the flag and the two muxes of  *)
(* odometry_mux_selector do not fall out of step before a call fails.      *)
THEOREM MuxesAgree == ServicesSpec => []MuxesFollowFlag
<1>1. OdomInv => MuxesFollowFlag
  BY DEF OdomInv
<1>. QED  BY <1>1, OdomInit, OdomNext, OdomStep, PTL DEF ServicesSpec, ServicesInit

(* The safety half of BreakerComesBack: whatever the callbacks of several  *)
(* publishers do to the breaker, one that is off has a callback that will  *)
(* switch it on, or a call has failed (warning.py).                        *)
THEOREM BreakerIsOwed == ServicesSpec => []SomebodySwitchesOn
<1>1. CableInv => SomebodySwitchesOn
  BY DEF CableInv
<1>. QED  BY <1>1, CableInit, CableNext, CableStep, PTL DEF ServicesSpec, ServicesInit

(* A callback of warning.py that joins a thread never waits for one that   *)
(* nobody has told to end.                                                 *)
THEOREM NoEndlessJoin == ServicesSpec => []JoinEnds
<1>1. SpeakerInv => JoinEnds
  BY DEF SpeakerInv
<1>. QED  BY <1>1, SpeakerInit, SpeakerNext, SpeakerStep, PTL DEF ServicesSpec, ServicesInit

(* The safety half of LatestResultIsSaid: between the queue of one and the *)
(* wait for silence nav_speak loses no result but for a newer one.         *)
THEOREM ResultsAreKept == ServicesSpec => []NoResultIsLost
<1>1. NavInv => NoResultIsLost
  BY DEF NavInv
<1>. QED  BY <1>1, NavInit, NavNext, NavStep, PTL DEF ServicesSpec, ServicesInit
=============================================================================
