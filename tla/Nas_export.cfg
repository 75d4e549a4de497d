SPECIFICATION Spec
CONSTANTS
  Exporters = {e1, e2}
  MaxTime = 4
  KeepExports = 2
  KeepDb = 1
  Blobs = {b1, b2}
  Held = {b1}
  MaxFaults = 1
  None = None
INVARIANTS TypeOK ExportsRestorable HalfRemovedByPruneOnly
PROPERTIES RemovalAfterGoodPoint SuccessTrims ExportsRetained ArchivesRetained
SYMMETRY ExporterSymmetry
CHECK_DEADLOCK FALSE
