\* One task, two clients and the scheduler: every race on one row.
SPECIFICATION FairSpec
CONSTANTS
  Task = {t1}
  Worker = {w1, w2}
  Column = {todo, doing, waiting, done}
  FirstCol = todo
  StartedCol = doing
  PausedCol = waiting
  FinishedCol = done
  Item = {i1}
  Text = {x}
  DepChoice <- NoDeps
  AutoChoice = {TRUE}
  Requests = {"CreateTask", "MoveTask", "StartPauseScan", "SetChecklistItem", "DeleteTask", "PurgeTask", "RestoreTask"}
  ArchiveAfter = 1
  PurgeAfter = 1
  MaxVersion = 4
  None = None
INVARIANTS ClockOnlyInFinished
PROPERTIES PurgedStaysPurged FinishedIsArchived DeletedIsPurged
