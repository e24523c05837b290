\* A message arrives before msg_store_ exists.
CONSTANTS
  MaxMsgs = 2
  Capacity = 1
SPECIFICATION Spec
INVARIANT
  EarlyMessagesAreBuffered
CHECK_DEADLOCK FALSE
