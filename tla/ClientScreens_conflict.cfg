SPECIFICATION ScreensSpec
CONSTANTS
  Doc = {d1}
  Openable = {"TaskForm"}
  Scannable = {}
  MaxPresses = 6
  MaxForeign = 1
  Absent = Absent
PROPERTY ConflictKeepsForm
CHECK_DEADLOCK FALSE
