SPECIFICATION Spec
CONSTANTS
  h1 = h1
  h2 = h2
  p1 = p1
  p2 = p2
  Proc = {h1, h2}
  Pub = {p1, p2}
  Spelling <- MCSpelling
  Host <- MCHost
  Separator <- MCSeparator
  QueueSize = 2
  MaxFd = 3
  ScanFds = 2
  Free = Free
  MaxBoots = 2
INVARIANTS ExitLeavesNothing FilesDesignateBuffers
PROPERTIES OnlyOwnerRemoves SignalEndsProcess
CHECK_DEADLOCK FALSE
