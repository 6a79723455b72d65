CONSTANTS
  SessionUpdateInterval = 2
  MaxCompletedSessions = 1
  MaxChargers = 2
  ExplicitIDs <- ClashingIDs
  Equipment <- MCEquipment
  BehaviorLists <- Reliable
  Vehicles <- MCVehicles
  Rolls <- MCRolls
  NoVehicle = NoVehicle
  Horizon = 2
  ChargerLimit = 1
  SessionLimit = 2
  LastStart = 2
SPECIFICATION Spec
INVARIANT SessionsMatchChargers
CHECK_DEADLOCK FALSE
