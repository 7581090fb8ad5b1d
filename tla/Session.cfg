SPECIFICATION SessionSpec
CONSTANTS
  Engines = {"e1", "e2"}
  Tokens <- SomeTokens
  Unset = "unset"
  Carried <- HeaderValues
  Unreadable = "unreadable"
  Unsendable = "unsendable"
  MaxClicks = 2
  MaxRestarts = 1
INVARIANTS RefusedForAReason OneLoop
CHECK_DEADLOCK FALSE
