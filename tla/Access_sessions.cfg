SPECIFICATION FairSpec
CONSTANTS
  p1 = p1
  p2 = p2
  b1 = b1
  b2 = b2
  a1 = a1
  a2 = a2
  Boxes = {b1, b2}
  Addrs = {a1, a2}
  Procs = {p1, p2}
  Pem = Pem
  NoKey = NoKey
  Blank = Blank
  NoBox = NoBox
  NoAddr = NoAddr
  NoImage = NoImage
  Halves = {{"private"}, {"private", "public"}}
  MaxKeys = 2
  MaxCommands = 3
  MaxEvents = 2
CHECK_DEADLOCK FALSE
INVARIANT TypeOK KeyFits LaunchedOpen SessionReady SessionOnBox
PROPERTY WaitEnds
