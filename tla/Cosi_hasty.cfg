SPECIFICATION Spec
CONSTANTS
  u1 = u1  u2 = u2  n1 = n1
  Accesses = {u1}
  Secrets = {n1}
  SecretOf <- SameName
  ExistingBucket = FALSE
  NeedsConf = TRUE
  DeletePolicy = TRUE
  Hasty = TRUE
  ClaimProtected = FALSE
  ClaimDeletable = TRUE
  EmptyOnNotFound = TRUE
  FaultKinds = {"call", "restart", "identity"}
  MaxFaults = 1
INVARIANTS GrantPinsBucket ReadyClaimHasBucket
PROPERTIES ReleasedBucketDeleted
CHECK_DEADLOCK FALSE
