CONSTANTS
  SiteIDs = {S1, S2}
  ChargerIDs = {C1, C2}
  States = {"AVAILABLE", "FAULTED"}
  Pullers = {"p"}
  ChangeLimit = 4
  QueueSize = 1
  NoPush = NoPush
SPECIFICATION Spec
INVARIANT SettledIsRight
SYMMETRY Symmetry
CHECK_DEADLOCK FALSE
