\* One printer, slips that run out of time, a restart; one task with its slips.
SPECIFICATION MCSpec
CONSTANTS
  Job = {1}
  Conn = {1}
  Priority <- Alike
  Handler = {h}
  Scheduler = scheduler
  MaxAttempts = 2
  MaxAge = 2
  Stale = 1
  MaxRestarts = 1
  Backlog = 2
  Doomed = {1}
  None = None
  Person = {1, 2}
  Creator = 1
  Member = {1, 2, 3}
  Prefs <- MCPrefs
  Drafts <- MCDrafts
  Worker = {1, 2}
  MaxTime = 3
  Grace = 1
  MaxEdits = 1
  MaxMoves = 2
  MaxCrashes = 1
  Unset = Unset
INVARIANT HandedOnce
PROPERTIES KeepsPromise JobsSettle StartSlipComes
CHECK_DEADLOCK FALSE
