\* Three files to ingest, two of them with one document id, and one to leave
\* alone; two changes.
SPECIFICATION Spec
CONSTANTS
  t1 = t1  t2 = t2  t3 = t3
  broken = broken
  readme = readme  notes = notes  log = log
  Absent = Absent  Wrong = Wrong
  Files = {1, 2, 3, 4}
  Ingestable = {1, 2, 3}
  Texts = {t1, t2, t3}
  Contents <- SomeContents
  TooLarge <- Large
  Defects = {broken}
  DocumentOf <- Documents
  MaxEdits = 2
INVARIANTS
  VectorsPaired
  CleanExitComplete
PROPERTIES
  RerunsAreIdle
