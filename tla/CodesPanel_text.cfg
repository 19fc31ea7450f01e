SPECIFICATION CodesSpec
CONSTANTS
  KeysAsked = {"a"}
  TextsAsked <- OneText
  Amounts <- One
  Counts <- One
  MaxPrints = 1
  None = None
INVARIANT TextIsLast
