\* Only mail is used, and nobody reconfigures.
CONSTANTS
  Caller = {c1, c2}
  Timer = Timer
  Absent = Absent
  None = None
  Configs = {{"mail"}}
  MaxQueued = 1
  MaxMsgs = 3
SPECIFICATION FairSpec
PROPERTIES
  CrashIsReported
CHECK_DEADLOCK FALSE
