\* The parent shuts down a worker that has subscribed.
CONSTANTS
  Publisher = {p1}
  MaxMsgs = 1
  Capacity = 2
  DatabaseFails = FALSE
  Shutdown = shutdown
  Nothing = nothing
SPECIFICATION FairSpec
PROPERTY
  ParentNeverStuck
CHECK_DEADLOCK FALSE
