SPECIFICATION MCSpec
CONSTANTS
  t1 = t1
  t2 = t2
  b1 = b1
  b2 = b2
  Task = {t1, t2}
  Board = {b1, b2}
  BoardOf <- MCBoardOf
  Width = 2
  Commands = {"ToggleAssign", "MoveRight", "MoveUp", "MoveTo", "Show", "Search", "ShowBoard"}
  UndoDepth = 1
  MaxScans = 4
  MaxEdits = 1
  Card = {1, 2}
  Columns = 2
  Start <- MCStart
  Questions = {2}
  Due <- MCDue
  Receivable = 2
  MaxChanges = 2
  MaxKeys = 2
  Positions <- MCPositions
  Doc = {d1, d2}
  Openable = {"TaskForm", "Settings", "Templates", "Programs", "Members",
              "NewBoardForm", "Menu", "Runs", "Repeats"}
  Scannable = {"Armed", "StartProgramNow", "NewFromTemplateAsk", "ShowBoard"}
  MaxPresses = 5
  MaxForeign = 1
  PlaceSet = {b1, b2}
  Mine = {1}
  Busy = {2}
  MaxId = 3
  MaxStrokes = 4
  MaxOthers = 1
  PrefixChoice <- MCPrefixes
  FrameTimeouts = {0, 2}
  Timeout = 1
  SystemCodes <- MCCodes
  PieceLen = 6
  Typable <- MCTypable
  MaxTyped = 3
  MaxCodes = 1
  OnPaper <- MCOnPaper
  KeysAsked = {"a"}
  TextsAsked <- MCText
  Amounts <- MCThree
  Counts <- MCThree
  MaxPrints = 1
  None = None
  Nothing = Nothing
  Absent = Absent
INVARIANTS CopyCatchesUp KeepsWhatWasTyped PanelCatchesUp CodeArrives TypedIsHandedBack
PROPERTIES UndoOnlyItsOwn OnceOrCancelled
CHECK_DEADLOCK FALSE
