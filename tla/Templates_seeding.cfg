SPECIFICATION Spec
CONSTANTS
  p1 = p1
  p2 = p2
  git = git
  mine = mine
  linux = linux
  debian = debian
  Procs = {p1, p2}
  Versions = {1, 2}
  BuiltinCount = 3
  Offered <- OfferedIn
  NameOf <- NamesOf
  OsOf <- OsesOf
  Names = {git, mine}
  Oses = {linux, debian}
  NoRow = NoRow
  NoName = NoName
  NoOs = NoOs
  NoProc = NoProc
  MaxCommands = 4
  MaxFaults = 1
CHECK_DEADLOCK FALSE
SYMMETRY Symmetry
INVARIANT TypeOK OfferedOnce TextCurrent NeverLockedOut
