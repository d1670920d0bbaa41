CONSTANTS
  Crtcs = {c1, c2}
  Off = Off
  Wirings <- MCWirings
SPECIFICATION DumbSpec
INVARIANTS ScreensRestored OthersUntouched NothingLeft
CHECK_DEADLOCK FALSE
