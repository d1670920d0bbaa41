CONSTANTS
  Letter = {a, d1, d2}
  Digit = {d1, d2}
  Slash = Slash
  Service = Service
  MaxLength = 6
  Names <- MCNames
  Numbers <- MCNumbers
SPECIFICATION Spec
INVARIANTS ReturnsSimple ReturnsCanonical OutOfBoundsOnlyWithoutLetter OnlyInfoFilesConnect
CHECK_DEADLOCK FALSE
