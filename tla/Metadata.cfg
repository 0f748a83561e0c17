\* Integers that a float64 has.
SPECIFICATION Spec
CONSTANTS
  memo = memo  old = old  new = new
  Ids = {memo}
  Titles = {old, new}
  Contents = {old, new}
  Tags = {1, 2, 3}
  MaxTags = 2
  Blank = Blank  Absent = Absent
  Exact = 4
  Numbers = {0, 3, 4, 6}
INVARIANTS
  ChangeStored
PROPERTIES
  UnchangedNotRewritten
