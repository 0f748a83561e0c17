\* Three searches for three queries, and room for two.
SPECIFICATION FairSpec
CONSTANTS
  g1 = g1  g2 = g2  g3 = g3  g4 = g4
  q1 = q1  q2 = q2  q3 = q3
  Nobody = Nobody  NoKey = NoKey  Junk = Junk  Wrong = Wrong
  Searches = {g1, g2, g3}
  Keys = {q1, q2, q3}
  Capacity = 2
INVARIANTS
  TypeOK
  MapMatchesList
  RecentlyUsedKept
  CachedVectorsRight
PROPERTIES
  ReturnedVectorRight
  SearchEnds
