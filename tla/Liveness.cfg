\* Every call ends: two connections for three calls, one of which may fail.
SPECIFICATION FairSpec
CONSTANTS
  c1 = c1  c2 = c2  c3 = c3  c4 = c4
  k1 = k1  k2 = k2  wiki = wiki
  content1 = content1  content2 = content2
  meta1 = meta1  meta2 = meta2
  NoDocument = NoDocument  Nobody = Nobody
  Calls = {c1, c2, c3}
  Keys = {k1, k2}
  Collections = {wiki}
  CollectionOf <- OneCollection
  LockKeys = {k1, k2}
  LockKeyOf <- OwnLock
  Contents = {content1, content2}
  Metas = {meta1, meta2}
  MaxRecipe = 0
  ChunkCount <- ChunkCounts
  FirstID = 3
  Seeds <- TwoKeySeeds
  MaxConns = 2
  Requests <- TwoKeyRequests
  Failing = {c1}
  CoarseClock = FALSE
PROPERTIES
  EveryCallEnds
