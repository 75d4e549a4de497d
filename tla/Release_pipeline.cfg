SPECIFICATION Spec
CONSTANTS
  None = None
  Malformed = Malformed
  FirstVersion <- MCFirst
  Labels <- MCLabels
  Components <- MCComponents
  SafeName <- MCSafeName
  CngImages <- MCImages
  Grafana <- MCGrafana
  Generated <- MCGenerated
  Versions <- MCVersions
  Tags <- MCTags
  Targets <- MCTargets
  MaxLiterals = 3
  MaxMerges = 1
  MaxRuns = 3
  MaxChanges = 2
INVARIANTS MigrationsAhead Renderable AggregatesWhole SuccessIsCurrent ReleaseCarried
PROPERTY JobRenamed
CONSTRAINT Apart
ACTION_CONSTRAINT Quiet
CHECK_DEADLOCK FALSE
