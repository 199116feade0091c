SPECIFICATION FairSpec
CONSTANTS
  Goal <- MCGoal
  Impatient <- MCImpatient
  None = None
INVARIANTS
  TypeOK
  CodeMeansStopped
  IdleIsClean
PROPERTIES
  ImplementsActionService
  EveryGoalEnds
CHECK_DEADLOCK FALSE
