\* Integers above 2^53, some of which a float64 does not have.
SPECIFICATION Spec
CONSTANTS
  memo = memo  old = old  new = new
  Ids = {memo}
  Titles = {old, new}
  Contents = {old, new}
  Tags = {1, 2, 3}
  MaxTags = 2
  Blank = Blank  Absent = Absent
  Exact = 4
  Numbers = {4, 5}
INVARIANTS
  ChangeStored
