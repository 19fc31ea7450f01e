\* Two printers, every client is welcomed.
SPECIFICATION WelcomedSpec
CONSTANTS
  Job = {1}
  Conn = {1, 2}
  Priority <- SecondIsBetter
  Handler = {h}
  Scheduler = scheduler
  MaxAttempts = 2
  MaxAge = None
  Stale = 1
  MaxRestarts = 0
  Backlog = 1
  Doomed = {}
  None = None
PROPERTY ReachesAPrinter
