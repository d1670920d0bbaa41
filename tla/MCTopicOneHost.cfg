CONSTANTS
  h1 = h1
  p1 = p1
  p2 = p2
  Proc = {h1}
  Pub = {p1, p2}
  Host <- OneHost
  QueueSize = 0
  MaxFd = 5
  Inherited = {}
  Free = Free
  Foreign = Foreign
  Blank = Blank
  Privileged = FALSE
  MayCrash = FALSE
  Threaded = TRUE
  MaxBoots = 1
  Name <- MCName
  NoName = NoName
  Sub = {s1}
  MaxQueue = 8
  Cleanings = 0
  NoBuffer = NoBuffer
  MayTrace <- AnyProcess
SPECIFICATION FairTopicSpec
INVARIANTS RegistrationPending
PROPERTIES EventuallyAttached DestroyedIsDropped
CHECK_DEADLOCK FALSE
