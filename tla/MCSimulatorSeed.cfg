CONSTANTS
  Main = Main
  Resets = {R1}
  SeedSize = 1
  QueueSize = 1
  TickLimit = 0
SPECIFICATION Spec
INVARIANT SeededOnce
CHECK_DEADLOCK FALSE
