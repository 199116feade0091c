SPECIFICATION FairSystem
CONSTANTS
  Job <- MCJob
  Book <- MCBook
  Shelf <- MCShelf
  Message <- MCMessage
  JobIdOf <- MCJobIdOf
  Plannable <- MCMessage
  TasksOf <- MCTasksOf
  ReportedCode <- MCReportedCode
  MaxRestarts = 1
  Slot <- MCSlot
  Motion <- MCMotion
  Window = 1
  Frame = "arm_base_link"
  Assigned <- MCAssigned
  Fickle <- MCFickle
  KilledIn = {"NAV_TO_SHELF"}
  None = None
INVARIANTS
  CompletedBooksStand
  NoDriveDuringOwnPlacement
PROPERTIES
  Progress
CHECK_DEADLOCK FALSE
