CONSTANTS
  SessionUpdateInterval = 2
  MaxCompletedSessions = 1
  MaxChargers = 1
  ExplicitIDs <- NoIDs
  Equipment <- MCEquipment
  BehaviorLists <- MCBehaviors
  Vehicles <- MCVehicles
  Rolls <- MCRolls
  NoVehicle = NoVehicle
  Horizon = 0
  ChargerLimit = 1
  SessionLimit = 2
  LastStart = 2
  MaxSpeed = 2
  InitialSpeed = 1
  Speeds <- MCSpeeds
  Pauses = {1}
  Adjustments <- MCAdjustments
  Stripped = Stripped
  WallHorizon = 5
  BusyHorizon = 2
  ChangeLimit = 2
  NoLevel = NoLevel
SPECIFICATION ViewSpec
INVARIANTS AnswerHangsTogether LevelWasReal NothingIsFromTheFuture TimeKeepsItsSpeed
VIEW MCView
CHECK_DEADLOCK FALSE
