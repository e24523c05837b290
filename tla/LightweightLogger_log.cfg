\* wait_for_insert is either: insertions on the fly are published to the message
\* store, if anyone subscribes there, or both threads call its service.
CONSTANTS
  MaxMsgs = 4
  Capacity = 2
SPECIFICATION FairSpec
INVARIANTS
  AccountedOnce
  BufferedAreYoungest
PROPERTIES
  ImplementsRelaxedLog
  BufferDrains
CHECK_DEADLOCK FALSE
