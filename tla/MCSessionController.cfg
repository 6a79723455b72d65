CONSTANTS
  SessionUpdateInterval = 2
  MaxCompletedSessions = 1
  ChargerIDs <- MCChargerIDs
  Prices <- MCPrices
  EnergySteps <- MCEnergySteps
  Reasons <- MCReasons
  Horizon = 2
  SessionLimit = 3
  EnergyLimit = 1
  MaxPageLimit = 1
  AskedLimit = 2
  Second = 2
SPECIFICATION WalkSpec
INVARIANTS TypeOK CDRsAreTheBills ThrottleIsExact ListenersAreNearlyCurrent
PROPERTIES CompletionIsAnnounced HistoryIsSettled PulledIsCurrent
VIEW MCView
CHECK_DEADLOCK FALSE
