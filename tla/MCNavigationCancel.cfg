SPECIFICATION Spec
CONSTANTS
  Goal <- MCGoal
  Impatient <- MCImpatient
  None = None
INVARIANTS
  CancelStopsTheRobot
CHECK_DEADLOCK FALSE
