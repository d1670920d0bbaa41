CONSTANTS
  Notifier = {n1, n2, n3}
  Waiter = {w1, w2}
SPECIFICATION FairSpec
INVARIANTS CountsRaised ReadNeverBlocks
PROPERTIES NotifyReturns WokenOnlyWhileRaised
CHECK_DEADLOCK FALSE
