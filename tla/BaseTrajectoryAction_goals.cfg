\* Two goals of up to two points, started in the past, at once or in the future;
\* the clock outlasts every trajectory.
CONSTANTS
  MaxGoals = 2
  Epoch = 100
  MaxTime = 6
  LastGoalTime = 1
  MaxPast = 1
  MaxFuture = 2
  MaxPoints = 2
  Times = {1, 2}
  Positions = {0}
  GoalTimeConstraint = 1
SPECIFICATION FairSpec
INVARIANTS
  LiveGoalIsCurrent
PROPERTIES
  ConcludesAfterEnd
  SupersededNeverCommands
  GoalsTerminate
CHECK_DEADLOCK FALSE
