\* One owner, one death, and the user away.
SPECIFICATION Spec
CONSTANTS
  Request = {r1}
  Ident = {i1, i2, i3}
  Bytes = {empty, text, broken}
  Empty = empty
  Unmergeable = {broken}
  Absent = Absent
  User = User
  Torn = Torn
  MaxCrash = 1
  MaxTouch = 0
SYMMETRY Symmetry
INVARIANTS EveryFaultIsResumable
