\* Two people on a run of three tasks; one client on a chain of three.
SPECIFICATION MCSpec
CONSTANTS
  MaxTask = 4
  Most <- MCMost
  Step = {"wash", "hang"}
  Answer = {"yes", "no"}
  Go = {1, 2}
  Programs <- MCPrograms
  Landing = {"open"}
  Watched = FALSE
  Worker = {u1, u2}
  Second = u2
  None = None
  Instance = {1, 2, 3}
  Client = {w}
  Rule = {"weekly", "once"}
  FixedDate = {"once"}
  Names = {TRUE}
  MaxSaved = 3
  ClientOps = {"UpdateTask", "MoveTask", "DeleteTask", "RestoreTask", "StopRepeat", "PurgeTask"}
  Absent = Absent
INVARIANTS RootEndsRun
PROPERTIES NotBefore NotNever OverIsOver HandedOnToOne ChainSurvives DueIsFollowed
CHECK_DEADLOCK FALSE
