SPECIFICATION Spec
CONSTANTS
  p1 = p1
  p2 = p2
  x = x
  y = y
  e1 = e1
  e2 = e2
  e3 = e3
  Names = {x, y}
  Limits = {1, 2}
  Emails = {e1, e2}
  AlertCount = 3
  Procs = {p1, p2}
  NoName = NoName
  NoEmail = NoEmail
  NoBudget = NoBudget
  NoCache = NoCache
  Commands = {"ls", "create", "update", "delete"}
  MaxCommands = 3
  MaxFails = 1
  MaxKills = 1
CHECK_DEADLOCK FALSE
SYMMETRY Symmetry
INVARIANT TypeOK CacheTrue ChangeDelivered
PROPERTY RenameKeepsBudget
