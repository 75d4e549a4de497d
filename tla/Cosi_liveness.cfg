SPECIFICATION FairSpec
CONSTANTS
  u1 = u1  u2 = u2  n1 = n1
  Accesses = {u1}
  Secrets = {n1}
  SecretOf <- SameName
  ExistingBucket = FALSE
  NeedsConf = FALSE
  DeletePolicy = TRUE
  Hasty = FALSE
  ClaimProtected = TRUE
  ClaimDeletable = TRUE
  EmptyOnNotFound = TRUE
  FaultKinds = {"call", "restart"}
  MaxFaults = 1
PROPERTIES AccessGranted BucketDeletionCompletes
CHECK_DEADLOCK FALSE
