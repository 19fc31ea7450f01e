\* A client goes away between its hello and the welcome.
SPECIFICATION FairSpec
CONSTANTS
  Job = {1}
  Conn = {1, 2}
  Priority <- Alike
  Handler = {h}
  Scheduler = scheduler
  MaxAttempts = 2
  MaxAge = None
  Stale = 1
  MaxRestarts = 0
  Backlog = 2
  Doomed = {}
  None = None
PROPERTY ReachesAPrinter
