SPECIFICATION Spec
CONSTANTS
  i1 = i1
  i2 = i2
  r1 = r1
  r2 = r2
  p1 = p1
  p2 = p2
  Ids = {i1, i2}
  Names = {a, b}
  Spaced = {b}
  Procs = {p1}
  Regions = {r1}
  RegionOf <- OneRegion
  Types = {t1}
  LaunchTypes = {t1}
  Pubs = {x1}
  NoId = NoId
  NoName = NoName
  NoType = NoType
  NoAddr = NoAddr
  NoRow = NoRow
  NoInst = NoInst
  Commands = {"create", "delete"}
  ConsoleOps = {}
  MaxCommands = 2
  MaxFaults = 0
CHECK_DEADLOCK FALSE
PROPERTY DeleteLeavesNoRow
