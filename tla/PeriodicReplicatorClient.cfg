\* Two clients of the service and the timer; the network is monitored.
CONSTANTS
  Client = {"c1", "c2"}
  MonitorNetwork = TRUE
SPECIFICATION FairSpec
INVARIANTS
  FlagTellsTruth
PROPERTIES
  NoMoveForgotten
  DisconnectionReleasesAll
CHECK_DEADLOCK FALSE
