\* Small instances of the six loggers.  The writer looks for two requested topics,
\* one of them excluded, and collects a third one whose collection is that of the other.
CONSTANTS
  Poses = {0, 1, 2}
  Thre = 1
  NoPose = NoPose
  Threads = {c1, c2}
  Task = {k1}
  NoTask = NoTask
  LogTopic = {t1, t2}
  Type = {goal, feedback}
  NoType = NoType
  Base = Base
  External <- OneManager
  Default = Default
  Conns <- Chain
  Black = {}
  EscapeTopic <- Names
  GraphStays = TRUE
  StopsAlone = FALSE
  PlainNode = PlainNode
  ManagerNode = ManagerNode
  Topic = {"a", "b", "c"}
  Requested = {"a", "b"}
  Excluded = {"b"}
  AllTopics = TRUE
  Collection <- Converted
  OneCollection = FALSE
SPECIFICATION LifelogSpec
INVARIANTS
  TagIsCurrent
  OneLoggerPerTopic
  NoTopicForgotten
PROPERTIES
  TrajectoryEndsAtRobot
  SubscribersFollow
  LoggersFollowGraph
  RequestedAreLogged
CHECK_DEADLOCK FALSE
