SPECIFICATION Spec
CONSTANTS
  p1 = p1
  p2 = p2
  bin = bin
  opt = opt
  sbin = sbin
  k1 = k1
  k2 = k2
  zshrc = zshrc
  profile = profile
  Procs = {p1, p2}
  Dirs = {bin, opt, sbin}
  SystemDirs = {sbin}
  Files = {zshrc, profile}
  InitialFiles <- FilesAtFirst
  Keys = {k1, k2}
  Boxes = {box}
  Images = {image}
  Blank = Blank
  NoDir = NoDir
  NoFile = NoFile
  NoDb = NoDb
  NoConfig = NoConfig
  MaxCommands = 5
  MaxKills = 1
CHECK_DEADLOCK FALSE
SYMMETRY Symmetry
INVARIANT TypeOK OwnLinesKept RecordsKept CredentialsAsPromised
PROPERTY BinaryLast
