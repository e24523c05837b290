\* A client cancels the current goal.
CONSTANTS
  MaxGoals = 1
  Epoch = 100
  MaxTime = 2
  LastGoalTime = 1
  MaxPast = 0
  MaxFuture = 0
  MaxPoints = 1
  Times = {1, 2}
  Positions = {0}
  GoalTimeConstraint = 0
SPECIFICATION Spec
INVARIANTS
  CancelIsHandled
CHECK_DEADLOCK FALSE
