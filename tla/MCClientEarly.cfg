SPECIFICATION LiveSpec
CONSTANTS
  Attempts = {a1, a2, a3}
  Loops = {l1, l2}
  Checks = {h1, h2}
  None = None
  EarlyTimers = TRUE
PROPERTY HalfOpenIsDetected
