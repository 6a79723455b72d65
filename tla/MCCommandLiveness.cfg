CONSTANTS
  SessionUpdateInterval = 2
  MaxCompletedSessions = 1
  MaxChargers = 1
  ExplicitIDs <- NoIDs
  Equipment <- MCEquipment
  BehaviorLists <- Mixed
  Vehicles <- MCVehicles
  Rolls <- TwoRolls
  NoVehicle = NoVehicle
  Horizon = 3
  ChargerLimit = 1
  SessionLimit = 2
  LastStart = 3
  CommandLatency = 1
  StartTimeout = 2
  MaxFinishedCommands = 1
  CommandLimit = 2
  LastCommand = 1
SPECIFICATION FairCommandSpec
PROPERTIES CommandsAreAnswered
CHECK_DEADLOCK FALSE
