CONSTANTS
  h1 = h1
  p1 = p1
  p2 = p2
  Proc = {h1}
  Pub = {p1, p2}
  Host <- MCHost
  QueueSize = 2
  MaxFd = 5
  Inherited = {}
  Free = Free
  Foreign = Foreign
  Blank = Blank
  Privileged = FALSE
  MayCrash = TRUE
  Threaded = TRUE
  MaxBoots = 2
  Name <- MCName
  NoName = NoName
  Sub = {}
  MaxQueue = 4
  Cleanings = 1
SPECIFICATION Spec
SYMMETRY BothThreads
INVARIANTS FilesDesignatePublishers OnlyZeroLeaks
CHECK_DEADLOCK FALSE
