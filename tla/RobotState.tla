----------------------------- MODULE RobotState -----------------------------
(***************************************************************************)
(* The nodes that know where the robot is, its links to the outside - the  *)
(* bridge to roseus, the mails, the network - and the battery with the     *)
(* node that powers the robot off.  They share no state: each is a module, *)
(* and a behaviour here is one of one of them, the others stay off.        *)
(***************************************************************************)
EXTENDS Poses

CONSTANTS
  NumParticles, NumValid, MaxTime, MaxError, NoOdom,   (* ParticleOdometry        *)
  MaxWrapTime, NoMsg,                                  (* OdometryFeedbackWrapper *)
  MaxSteps, Shift, MaxPending, NoValue,                (* OdometryOffset          *)
  MaxClock, MaxUses, Threshold, NoInput,               (* OdometryIntegrator      *)
  MaxStamp, NoPose,                                    (* TfOdometry              *)
  MaxSpawns, MaxCmds, MaxOut, NoCmd,                   (* RoseusBridge            *)
  MaxRequests, NoMessage, NoLevel,                     (* BatteryWarning          *)
  Files, NoFile, MaxItems,                             (* EmailTopic              *)
  NumNetworks, Blank, Sanshiro, NoNetwork              (* NetworkMonitor          *)

(* There is a particle; None is neither a number nor a message.            *)
ASSUME StateAssumption ==
  /\ NumParticles \in Nat \ {0} /\ Shift \in Pose /\ MaxSpawns \in Nat
  /\ {NoOdom, NoCmd} \cap Int = {} /\ {NoValue, NoPose} \cap Pose = {}
  /\ NoMsg \notin [pose : Pose, stamp : Nat, twist : Pose]

VARIABLES
  ekf, now, particles, weights, estimate, source, measure, measurementUpdated, lastSampling,
  initialized, corrected, pfPc,
  path, slip, wrapOdom, sourceOdom, feedbackOdom, offset, history, prevFeedback, feedbackPc,
  wrapPc,
  place, steps, baseOdom, offsetTransform, underWay, initial, offsetMatrix, anchor, prevOdom, offPc,
  clock, odoms, result, transform, integPc,
  trace, tfStamp, onlyMap, slamStamp, slamOdom, mapOdom, cameraStamp, initialMatrix,
  cameraAnchor, cameraOdom, signals, tfPc,
  bridgePc, gen, running, down, received, cmdQueue, cmd, inputs, printed, reader, consumed,
  outQueue, output,
  conditioned, input, firstMsg, lastReceived, guardPc, requests, power,
  level, emailTopic, chargeLevel, isCharging, prevKnown, isFirst, warnPc,
  emailInfo, files, message, receiver, left, parts, emailPc,
  options, reach, listing, works, link, touchFile, netPc

Particles == INSTANCE ParticleOdometry
Wrapper == INSTANCE OdometryFeedbackWrapper
Offset == INSTANCE OdometryOffset
Integrator == INSTANCE OdometryIntegrator
Tf == INSTANCE TfOdometry
Bridge == INSTANCE RoseusBridge
Battery == INSTANCE BatteryWarning
Email == INSTANCE EmailTopic
Net == INSTANCE NetworkMonitor

pfVars == <<ekf, now, particles, weights, estimate, source, measure, measurementUpdated,
            lastSampling, initialized, corrected, pfPc>>
wrapVars == <<path, slip, wrapOdom, sourceOdom, feedbackOdom, offset, history, prevFeedback,
              feedbackPc, wrapPc>>
offVars == <<place, steps, baseOdom, offsetTransform, underWay, initial, offsetMatrix, anchor,
             prevOdom, offPc>>
integVars == <<clock, odoms, result, transform, integPc>>
tfVars == <<trace, tfStamp, onlyMap, slamStamp, slamOdom, mapOdom, cameraStamp,
            initialMatrix, cameraAnchor, cameraOdom, signals, tfPc>>
bridgeVars == <<bridgePc, gen, running, down, received, cmdQueue, cmd, inputs, printed,
                reader, consumed, outQueue, output>>
batteryVars == <<conditioned, input, firstMsg, lastReceived, guardPc, requests, power, level,
                 emailTopic, chargeLevel, isCharging, prevKnown, isFirst, warnPc>>
emailVars == <<emailInfo, files, message, receiver, left, parts, emailPc>>
netVars == <<options, reach, listing, works, link, touchFile, netPc>>
poseVars == <<pfVars, wrapVars, offVars>>
rateVars == <<integVars, tfVars>>
bodyVars == <<batteryVars, emailVars, netVars>>
vars == <<poseVars, rateVars, bridgeVars, bodyVars>>

Init ==
  /\ Particles!Init /\ Wrapper!Init /\ Offset!Init /\ Integrator!Init
  /\ Tf!Init /\ Bridge!Init /\ Battery!Init /\ Email!Init /\ Net!Init

Off == [particles |-> pfPc = "off", wrapper |-> wrapPc = "off",
        offset |-> offPc = "off",
        integrator |-> integPc = "off", tf |-> tfPc = "off", bridge |-> bridgePc = "off",
        battery |-> guardPc = "off", email |-> emailPc = "off",
        net |-> netPc = "off"]
OthersOff(c) == \A o \in DOMAIN Off \ {c} : Off[o]

Next ==
  \/ /\ OthersOff("particles") /\ Particles!Next
     /\ UNCHANGED <<wrapVars, offVars, rateVars, bridgeVars, bodyVars>>
  \/ /\ OthersOff("wrapper") /\ Wrapper!Next
     /\ UNCHANGED <<pfVars, offVars, rateVars, bridgeVars, bodyVars>>
  \/ /\ OthersOff("offset") /\ Offset!Next
     /\ UNCHANGED <<pfVars, wrapVars, rateVars, bridgeVars, bodyVars>>
  \/ /\ OthersOff("integrator") /\ Integrator!Next
     /\ UNCHANGED <<poseVars, tfVars, bridgeVars, bodyVars>>
  \/ OthersOff("tf") /\ Tf!Next /\ UNCHANGED <<poseVars, integVars, bridgeVars, bodyVars>>
  \/ OthersOff("bridge") /\ Bridge!Next /\ UNCHANGED <<poseVars, rateVars, bodyVars>>
  \/ /\ OthersOff("battery") /\ Battery!Next
     /\ UNCHANGED <<poseVars, rateVars, bridgeVars, emailVars, netVars>>
  \/ /\ OthersOff("email") /\ Email!Next
     /\ UNCHANGED <<poseVars, rateVars, bridgeVars, batteryVars, netVars>>
  \/ /\ OthersOff("net") /\ Net!Next
     /\ UNCHANGED <<poseVars, rateVars, bridgeVars, batteryVars, emailVars>>

Spec == Init /\ [][Next]_vars /\ Battery!Fairness /\ Net!Fairness

-----------------------------------------------------------------------------
(* Motion is applied exactly once between two corrections, however often   *)
(* the loop uses one message (ParticleOdometry.py, EKFGPFOdometry.py).     *)
MotionAppliedOnce == Particles!MotionAppliedOnce

(* What the nodes for odometry publish is where the robot was at the stamp *)
(* they publish it for, as far as they can know it (the other nodes of     *)
(* jsk_robot_startup and TfOdometry).                                      *)
OdometriesAreExact ==
  /\ Wrapper!FeedbackIsCarriedForward /\ Wrapper!OffsetIsCurrent
  /\ Offset!OutputIsInInitFrame
  /\ Integrator!FreshOdometryIsCurrent
  /\ Tf!TfOdometryIsExact

(* Commands reach roseus once at most, and both they and its output keep   *)
(* their order (roseus_bridge.py).                                         *)
OrderIsKept == Bridge!OrderIsKept

(* A mail that is sent is whole (email_topic.py).                          *)
MailIsWhole == Email!MailIsWhole

(* A battery that stays low powers the robot off, and a charger that stays *)
(* connected denies it in the end (battery_warning.py, shutdown.py).       *)
StaysLowPowersOff == Battery!StaysLowPowersOff
GuardHolds == Battery!GuardHolds

=============================================================================
