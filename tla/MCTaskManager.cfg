SPECIFICATION FairSpec
CONSTANTS
  Job <- MCJob
  Book <- MCBook
  Shelf <- MCShelf
  Message <- MCMessage
  JobIdOf <- MCJobIdOf
  Plannable <- MCPlannable
  TasksOf <- MCTasksOf
  ReportedCode <- MCReportedCode
  MaxRestarts = 1
  None = None
INVARIANTS
  TypeOK
  GoalMatchesState
  AtMostOneGoal
  CompletedAreVerified
  NeverPlacedTwice
  MemoryIsFresh
  AlwaysAwaits
PROPERTIES
  TransitionsAllowed
  FailureIsFinal
  Progress
  ImplementsTrayService
