\* Two documents of one collection and one of another, two commits beside the
\* searches.
SPECIFICATION Spec
CONSTANTS
  wiki = wiki  mail = mail
  t1 = t1  t2 = t2  t3 = t3
  meta1 = meta1  meta2 = meta2
  Nothing = Nothing  Blank = Blank
  Documents = {1, 2, 3}
  Collections = {wiki, mail}
  CollectionOf <- InCollections
  Texts = {t1, t2, t3}
  Contents <- Contents2
  Metas = {meta1, meta2}
  Queries <- Queries2
  RawConfigs <- Configs
  Requests <- Searches
  Seeds <- Filled
  FirstID = 5
  EfSearch = 2
  MaxWrites = 2
  DefaultCollection = wiki
  DefaultSearchLimit = 2
  DefaultCandidateLimit = 3
  DefaultRRFConstant = 60
INVARIANTS
  BetterComesFirst
  HitsCurrent
  FindsAllCounted
  DefaultsAccepted
