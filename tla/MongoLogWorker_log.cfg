\* Two publishers compete for a queue of two slots; the database may fail.
CONSTANTS
  Publisher = {p1, p2}
  MaxMsgs = 4
  Capacity = 2
  DatabaseFails = TRUE
  Shutdown = shutdown
  Nothing = nothing
SPECIFICATION FairSpec
INVARIANTS
  StoredInOrder
  SleeperIsWoken
PROPERTIES
  WorkerStops
CHECK_DEADLOCK FALSE
