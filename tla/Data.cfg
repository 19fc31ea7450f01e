\* Every graph on three nodes and every proposed list; templates of two
\* boards; two servers; repetitions over half a year; who sees a board.
SPECIFICATION DataSpec
CONSTANTS
  Node = {n1, n2, n3}
  Searching = Searching
  MaxTemplate = 4
  TemplateName = {"a", "b"}
  Lead = {None, 1}
  MaxDeps = 2
  Groups <- MCGroups
  MaxImports = 2
  Person = {1, 2, 3}
  Owner = 1
  Admin = {3}
  Requests <- MCRequests
  MaxTurns = 2
  MaxAsked = 2
  Nil = Nil
  None = None
INVARIANTS
  SearchDecides TemplatesStayDag StampedRight ArrivesWhole RemapFindsPeople NextIsNext LosesSight
CHECK_DEADLOCK FALSE
