\* Two managers and a member: columns, roles and tasks; and the forms.
SPECIFICATION MCSpec
CONSTANTS
  c1 = c1
  c2 = c2
  c3 = c3
  n1 = n1
  n2 = n2
  n3 = n3
  Column = {c1, c2, c3}
  Name = {n1, n2, n3}
  Role = {"started", "finished"}
  Task = {t1}
  Manager = {m1, m2}
  Member = {u1}
  None = None
  Begin <- MCBegin
  People <- MCPeople
  Carried = TRUE
  MaxTouches = 3
  Given <- MCGiven
  StepKeys = {"1", "2", "3"}
  Membership <- MCMembership
  MaxSteps = 3
  MaxStepTouches = 5
  MaxAsked = 2
  Edits = 2
  MaxChanges = 2
  MaxWaiting = 2
  KeptPrefs <- MCKeptPrefs
  KeptProfiles <- MCKeptProfiles
  Colors = {"default", "mine", "other"}
  Cards = {"start", "due"}
  Filters = {"mine", "theirs"}
  Words = {"", "thanks", "soon"}
  Media <- MCMedia
  MaxEdits = 3
  MaxAsking = 2
  MaxSaving = 2
SYMMETRY Alike
INVARIANTS
  RolesExist EveryTaskPlaced UntouchedSurvives ReferencesHold UpdateNamesTouched
  ProfileAsMeant
PROPERTIES UntouchedStepSurvives
CHECK_DEADLOCK FALSE
