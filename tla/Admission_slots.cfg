SPECIFICATION Spec
CONSTANTS
  MaxSlot = 2
  Recoverers = {r1}
  Collectors = {}
  Jobs = {}
  Forbid = TRUE
  Mortal = {}
  Deletable = {}
  MaxFaults = 0
CONSTRAINT LastOperationOpens
PROPERTY OperationsDoNotOverlap
CHECK_DEADLOCK FALSE
