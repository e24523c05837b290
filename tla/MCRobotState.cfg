\* Small instances of the nine components: two particles, a robot that moves
\* in two or three units of time, three networks, one with a blank in its name.
CONSTANTS
  NumParticles = 2
  NumValid = 1
  MaxTime = 2
  MaxError = 1
  NoOdom = NoOdom
  MaxWrapTime = 3
  NoMsg = NoMsg
  MaxSteps = 3
  Shift <- MCShift
  MaxPending = 2
  NoValue = NoValue
  MaxClock = 3
  MaxUses = 2
  Threshold = 1
  NoInput = NoInput
  MaxStamp = 3
  NoPose = NoPose
  MaxSpawns = 2
  MaxCmds = 2
  MaxOut = 1
  NoCmd = NoCmd
  MaxRequests = 1
  NoMessage = NoMessage
  NoLevel = NoLevel
  Files = {f1}
  NoFile = NoFile
  MaxItems = 2
  NumNetworks = 3
  Blank = {3}
  Sanshiro = 2
  NoNetwork = NoNetwork
SPECIFICATION Spec
INVARIANTS
  OdometriesAreExact
  OrderIsKept
  MailIsWhole
PROPERTIES
  MotionAppliedOnce
  StaysLowPowersOff
  GuardHolds
  
CHECK_DEADLOCK FALSE
