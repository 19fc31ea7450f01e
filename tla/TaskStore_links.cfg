\* Two tasks that may depend on each other, two clients and the scheduler.
SPECIFICATION Spec
CONSTANTS
  Task = {t1, t2}
  Worker = {w1, w2}
  Column = {todo, doing, done}
  FirstCol = todo
  StartedCol = doing
  PausedCol = doing
  FinishedCol = done
  Item = {}
  Text = {x}
  DepChoice <- AtMostOneDep
  AutoChoice = {FALSE}
  Requests = {"CreateTask", "UpdateTask", "MoveTaskOverride", "FinishScan", "DeleteTask", "PurgeTask"}
  ArchiveAfter = 0
  PurgeAfter = 0
  MaxVersion = 3
  None = None
SYMMETRY WorkerSymmetry
INVARIANTS DepsAcyclic DepsExist
PROPERTY ScanRespectsDeps
