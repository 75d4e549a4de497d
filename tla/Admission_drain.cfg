SPECIFICATION Spec
CONSTANTS
  MaxSlot = 1
  Recoverers = {r1}
  Collectors = {g1}
  Jobs = {j1}
  Forbid = TRUE
  Mortal = {}
  Deletable = {"gc"}
  MaxFaults = 1
CONSTRAINT GcOrCi
INVARIANTS CleanupExclusive GcHoldsSlot
CHECK_DEADLOCK FALSE
