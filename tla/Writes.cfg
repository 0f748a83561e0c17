\* Three calls on one document, any of which may fail.
SPECIFICATION Spec
CONSTANTS
  c1 = c1  c2 = c2  c3 = c3  c4 = c4
  k1 = k1  k2 = k2  wiki = wiki
  content1 = content1  content2 = content2
  meta1 = meta1  meta2 = meta2
  NoDocument = NoDocument  Nobody = Nobody
  Calls = {c1, c2, c3}
  Keys = {k1}
  Collections = {wiki}
  CollectionOf <- OneCollection
  LockKeys = {k1}
  LockKeyOf <- OwnLock
  Contents = {content1, content2}
  Metas = {meta1, meta2}
  MaxRecipe = 1
  ChunkCount <- ChunkCounts
  FirstID = 3
  Seeds <- OneKeySeeds
  MaxConns = 3
  Requests <- OneKeyRequests
  Failing = {c1, c2, c3}
  CoarseClock = FALSE
SYMMETRY Symmetry
INVARIANTS
  TypeOK
  ChunksMatchDocument
  LockedSnapshotCurrent
  WritersExclude
  ConflictMeansOvertaken
  NothingLeaked
PROPERTIES
  SuccessMeansStored
  RecipeNeverRegresses
  NoIdleTouch
