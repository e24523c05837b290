\* Two callers, the default options and send_every_transition.
CONSTANTS
  Caller = {c1, c2}
  Timer = Timer
  Absent = Absent
  None = None
  Configs = {{"mail", "twitter", "chat"}, {"twitter", "chat", "every"}}
  MaxQueued = 1
  MaxMsgs = 2
SPECIFICATION FairSpec
INVARIANTS
  SubjectCoversList
  ListIsOneRun
PROPERTIES
  LivingTimerReports
CHECK_DEADLOCK FALSE
