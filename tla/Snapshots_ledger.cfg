SPECIFICATION FairSpec
CONSTANTS
  i1 = i1
  i2 = i2
  r1 = r1
  r2 = r2
  b1 = b1
  b2 = b2
  p1 = p1
  p2 = p2
  Ids = {i1, i2}
  x = x
  y = y
  Names = {x}
  Disks = {1, 2}
  BoxIds = {b1, b2}
  Regions = {r1, r2}
  RegionOf <- TwoRegions
  BoxRegion <- BoxesApart
  Procs = {p1, p2}
  NoId = NoId
  NoName = NoName
  NoBox = NoBox
  NoRow = NoRow
  Commands = {"create", "ls", "show", "delete", "import"}
  ConsoleOps = {"register", "deregister", "deleteBox"}
  MaxCommands = 3
  MaxFaults = 1
CHECK_DEADLOCK FALSE
INVARIANT TypeOK
PROPERTY LedgerSpec LsConverges StateNeverRegresses
