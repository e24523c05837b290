\* Small instances: two recovery behaviours whose calls may all fail, two
\* triggers, two publishers of commands, two nodes with diagnostics.
CONSTANTS
  Behaviour = {"b1", "b2"}
  MaxRuns = 4
  Failures = {"get", "update", "restore", "reply"}
  NumTriggers = 2
  NoTopic = NoTopic
  Main = Main
  Primary = Primary
  Secondary = Secondary
  Publishers = {p1, p2}
  driver = driver
  other = other
  s1 = s1
  s2 = s2
  s3 = s3
  m1 = m1
  m2 = m2
  Callers = {driver, other}
  Reports <- MCReports
  Message <- MCMessage
  Silenced = {s2}
  Stopped = {s1}
  Results = {r1, r2}
  Named = {r1}
  NoResult = NoResult
SPECIFICATION ServicesSpec
INVARIANTS
  OwnUpdateNeverOriginal
  NeverRestoredEarly
  MuxFollowsLoop
PROPERTIES
  PeriodsEnd
  LockIsReleased
  SourceFollowsPrimary
  BreakerComesBack
  PersistentErrorIsSpoken
  LatestResultIsSaid
CHECK_DEADLOCK FALSE
