CONSTANTS
  Main = Main
  Resets = {R1, R2}
  SeedSize = 1
  QueueSize = 1
  TickLimit = 2
SPECIFICATION FairSpec
INVARIANTS NoPushToAnOlderWorld ResetsSeedOnce OnlyTheCurrentWorldPushes StoppedMeansQuiet
PROPERTIES ResetsEnd ShutdownEnds
CHECK_DEADLOCK FALSE
