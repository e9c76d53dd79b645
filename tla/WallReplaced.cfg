\* One owner, no death: the user saves a file between the confirmation and the removal.
SPECIFICATION Spec
CONSTANTS
  Request = {r1}
  Ident = {i1, i2, i3}
  Bytes = {empty, text, broken}
  Empty = empty
  Unmergeable = {broken}
  Absent = Absent
  User = User
  Torn = Torn
  MaxCrash = 0
  MaxTouch = 1
SYMMETRY Symmetry
PROPERTIES ReplacementsAreLeft
