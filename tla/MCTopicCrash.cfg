CONSTANTS
  h1 = h1
  p1 = p1
  p2 = p2
  Proc = {h1}
  Pub = {p1, p2}
  Host <- OneHost
  QueueSize = 1
  MaxFd = 4
  Inherited = {}
  Free = Free
  Foreign = Foreign
  Blank = Blank
  Privileged = FALSE
  MayCrash = TRUE
  Threaded = FALSE
  MaxBoots = 3
  Name <- MCName
  NoName = NoName
  Sub = {s1}
  MaxQueue = 1
  Cleanings = 1
  NoBuffer = NoBuffer
  MayTrace <- OthersBetween
SPECIFICATION TopicSpec
INVARIANTS AttachmentSound RegistrationPending
PROPERTIES ConnectFailsOnlyIfWarned ImplementsDiscovery
CHECK_DEADLOCK FALSE
