CONSTANTS
  SessionUpdateInterval = 2
  MaxCompletedSessions = 1
  ChargerIDs <- MCChargerIDs
  Prices <- MCPrices
  EnergySteps <- MCEnergySteps
  Reasons <- MCReasons
  Horizon = 3
  SessionLimit = 3
  EnergyLimit = 2
  MaxPageLimit = 1
  AskedLimit = 2
  Second = 2
SPECIFICATION WalkSpec
INVARIANT LastCompletedAreKept
CHECK_DEADLOCK FALSE
