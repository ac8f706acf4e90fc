SPECIFICATION FairSpec
CONSTANTS
  i1 = i1
  i2 = i2
  r1 = r1
  r2 = r2
  p1 = p1
  p2 = p2
  Ids = {i1, i2}
  Names = {a}
  Spaced = {}
  Procs = {p1, p2}
  Regions = {r1, r2}
  RegionOf <- TwoRegions
  Types = {small, large}
  LaunchTypes = {small}
  Pubs = {x1}
  NoId = NoId
  NoName = NoName
  NoType = NoType
  NoAddr = NoAddr
  NoRow = NoRow
  NoInst = NoInst
  Commands = {"create", "delete", "stop", "start", "reboot", "resize", "ls"}
  ConsoleOps = {"start"}
  MaxCommands = 3
  MaxFaults = 1
CHECK_DEADLOCK FALSE
INVARIANT Accounted
PROPERTY LsConverges DeletedStaysDeleted DeleteLeavesNoRow
