CONSTANTS
  QueueSize = 2
  NoPush = NoPush
  PublishLimit = 4
  SessionUpdateInterval = 1
  MaxCompletedSessions = 1
  ChargerIDs <- MCChargerIDs
  Prices <- MCPrices
  EnergySteps <- MCEnergySteps
  Reasons <- MCReasons
  Horizon = 1
  SessionLimit = 2
  EnergyLimit = 1
  MaxStoredSessions = 1
  MaxStoredCDRs = 2
SPECIFICATION FairRecordSpec
INVARIANTS EveryPushIsAccountedFor ProcessedOnceAndInOrder RecordIsNearlyTrue BilledAsShown
PROPERTIES EveryPushIsSettled
CHECK_DEADLOCK FALSE
