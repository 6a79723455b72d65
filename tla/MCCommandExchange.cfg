CONSTANTS
  QueueSize = 1
  NoPush = NoPush
  CommandResults = {"ACCEPTED", "FAILED"}
  NoAnswer = NoAnswer
  MaxStoredCommands = 1
  Refusals = {"REFUSED_BY_CPO"}
  PressLimit = 2
SPECIFICATION FairSpec
INVARIANTS ResultsFindTheirCommand StoreIsTruthful
PROPERTIES OutcomesStay EveryCommandHasAnOutcome
CHECK_DEADLOCK FALSE
