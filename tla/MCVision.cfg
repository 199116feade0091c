SPECIFICATION FairSpec
CONSTANTS
  Goal <- MCTwo
  Candidate <- MCCandidate
  Threads = 2
  Waits = TRUE
  Impatient <- MCImpatient
  Trigger = TRUE
  None = None
INVARIANTS
  TypeOK
  ActiveIsRunning
  AloneIsServed
PROPERTIES
  ImplementsActionService
  EveryGoalEnds
CHECK_DEADLOCK FALSE
