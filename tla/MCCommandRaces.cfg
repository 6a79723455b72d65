CONSTANTS
  SessionUpdateInterval = 2
  MaxCompletedSessions = 1
  MaxChargers = 1
  ExplicitIDs <- NoIDs
  Equipment <- MCEquipment
  BehaviorLists <- Reliable
  Vehicles <- MCVehicles
  Rolls <- OneRoll
  NoVehicle = NoVehicle
  Horizon = 3
  ChargerLimit = 1
  SessionLimit = 2
  LastStart = 3
  CommandLatency = 1
  StartTimeout = 2
  MaxFinishedCommands = 2
  CommandLimit = 3
  LastCommand = 1
SPECIFICATION CommandSpec
INVARIANTS AnswersAreTrue NothingOverdue
PROPERTIES KeepsPromise
CHECK_DEADLOCK FALSE
