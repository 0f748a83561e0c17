\* Two transactions may begin in one tick of NOW().
SPECIFICATION Spec
CONSTANTS
  c1 = c1  c2 = c2  c3 = c3  c4 = c4
  k1 = k1  k2 = k2  wiki = wiki
  content1 = content1  content2 = content2
  meta1 = meta1  meta2 = meta2
  NoDocument = NoDocument  Nobody = Nobody
  Calls = {c1, c2, c3, c4}
  Keys = {k1}
  Collections = {wiki}
  CollectionOf <- OneCollection
  LockKeys = {k1}
  LockKeyOf <- OwnLock
  Contents = {content1, content2}
  Metas = {meta1, meta2}
  MaxRecipe = 1
  ChunkCount <- ChunkCounts
  FirstID = 3
  Seeds <- ReturningSeeds
  MaxConns = 4
  Requests <- ReturningRequests
  Failing = {}
  CoarseClock = TRUE
SYMMETRY Symmetry
PROPERTIES
  RecipeNeverRegresses
