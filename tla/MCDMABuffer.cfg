CONSTANTS
  Object = {"dma", "dma2"}
  Programs <- MCPrograms
  Remote <- MCRemote
  MaxFd = 5
  PAGE_SIZE = 4096
  NameLen = 32
  Numeral <- MCNumeral
  LocalCapacity = 15
SPECIFICATION Spec
INVARIANTS MembersDescribeBuffer NothingLost NeverZero NameKept
CHECK_DEADLOCK FALSE
