CONSTANTS
  SessionUpdateInterval = 2
  MaxCompletedSessions = 1
  MaxChargers = 2
  ExplicitIDs <- OtherIDs
  Equipment <- MCEquipment
  BehaviorLists <- Unreliable
  Vehicles <- MCVehicles
  Rolls <- MCRolls
  NoVehicle = NoVehicle
  Horizon = 4
  ChargerLimit = 1
  SessionLimit = 2
  LastStart = 2
SPECIFICATION Spec
INVARIANTS TypeOK ChargerShape SessionsMatchChargers TickListIsCurrent EveryMomentMeteredOnce
PROPERTIES BatteryHasRoom BillCoversWholeSession LevelNeverDrops TicksMakeProgress
CHECK_DEADLOCK FALSE
