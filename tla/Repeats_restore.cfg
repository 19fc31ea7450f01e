\* An instance the chain has left is archived and restored.
SPECIFICATION ChainSpec
CONSTANTS
  Instance = {t1, t2, t3}
  Client = {w1}
  Rule = {r}
  FixedDate = {}
  Names = {FALSE}
  ClientOps = {"MoveTask", "RestoreTask"}
  MaxSaved = 5
  Absent = Absent
INVARIANT OneCarrier
