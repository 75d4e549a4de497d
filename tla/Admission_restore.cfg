SPECIFICATION Spec
CONSTANTS
  MaxSlot = 1
  Recoverers = {r1, r2}
  Collectors = {}
  Jobs = {}
  Forbid = TRUE
  Mortal = {"coord", "worker", "recovery"}
  Deletable = {"coord", "worker", "recovery"}
  MaxFaults = 2
SYMMETRY RecovererSymmetry
INVARIANTS
  TypeOK
  LateWriteRecorded
  RestoreAfterRetirement
  DoneMeansRestored
  OutcomeHonest
PROPERTIES ClaimLatchKept AlertNeverRestored
CHECK_DEADLOCK FALSE
