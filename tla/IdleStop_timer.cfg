SPECIFICATION Spec
CONSTANTS
  p1 = p1
  p2 = p2
  Procs = {p1, p2}
  Limits = {1, 3}
  MaxAge = 5
  NoFile = NoFile
  Empty = Empty
  MaxCommands = 4
  MaxFaults = 2
CHECK_DEADLOCK FALSE
INVARIANT TypeOK RowTellsHost
PROPERTY NeverEarly StopsInTime
