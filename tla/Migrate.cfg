\* Three stores, one of other dimensions, a write, a doctor; any store may fail.
\* Without symmetry, because every Migrate is to end.
SPECIFICATION FairSpec
CONSTANTS
  s1 = s1  s2 = s2  s3 = s3
  w1 = w1  w2 = w2
  Nobody = Nobody
  Stores = {s1, s2, s3}
  Writers = {w1}
  ConfigDims <- Dims
  Starts <- AllStarts
  Failing = {s1, s2, s3}
CHECK_DEADLOCK FALSE
INVARIANTS
  TypeOK
  CatalogConsistent
  OkMeansUsable
  FailureHasReason
  ReadyMeansMigrated
PROPERTIES
  AllOrNothing
  DeadlockOnlyFromBase
  MigrateEnds
