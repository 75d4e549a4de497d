SPECIFICATION Spec
CONSTANTS
  Volumes = {v1}
  Buckets = {b1, b2}
  Evidence <- MCEvidence
  External = {b2}
  FailOnFindings = TRUE
  MaxChanges = 2
INVARIANTS VolumeVerdicts BucketVerdicts QuietMeansClean
CHECK_DEADLOCK FALSE
