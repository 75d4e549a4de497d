SPECIFICATION Spec
CONSTANTS
  Trees = {1, 2, 3, 4}
  Workspaces = {1}
  Uv = 4
  Protected = {3}
  Linked = {1, 2}
  Days <- ShortDays
  Now = 2
  Uses = {6, 8}
  High = 7
  Low = 5
  Reserve = 5
  Entries = 2
  MaxEvents = 2
INVARIANTS AdmittedAtProof RefusalHasCause
PROPERTIES OnlyProvenRemoved HeldTreesKept AgeBeforeCapacity
CHECK_DEADLOCK FALSE
