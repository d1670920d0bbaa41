CONSTANTS
  h1 = h1
  p1 = p1
  p2 = p2
  Proc = {h1}
  Pub = {p1, p2}
  Host <- OneHost
  QueueSize = 1
  MaxFd = 5
  Inherited = {}
  Free = Free
  Foreign = Foreign
  Blank = Blank
  Privileged = FALSE
  MayCrash = TRUE
  Threaded = FALSE
  MaxBoots = 2
  Name <- MCName
  NoName = NoName
  Sub = {s1}
  MaxQueue = 4
  Cleanings = 0
  NoBuffer = NoBuffer
  MayTrace <- AnyProcess
SPECIFICATION TopicSpec
PROPERTIES RegistrationAnnounced
CHECK_DEADLOCK FALSE
