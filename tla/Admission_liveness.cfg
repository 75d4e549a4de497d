SPECIFICATION FairSpec
CONSTANTS
  MaxSlot = 1
  Recoverers = {r1, r2}
  Collectors = {}
  Jobs = {}
  Forbid = TRUE
  Mortal = {"recovery"}
  Deletable = {}
  MaxFaults = 1
PROPERTY OpenOperationResolves
CHECK_DEADLOCK FALSE
