\* Two owners and three identities: two deaths anywhere, and one act of the user.
SPECIFICATION FairSpec
CONSTANTS
  Request = {r1, r2}
  Ident = {i1, i2, i3}
  Bytes = {empty, text, broken}
  Empty = empty
  Unmergeable = {broken}
  Absent = Absent
  User = User
  Torn = Torn
  MaxCrash = 2
  MaxTouch = 1
INVARIANTS UserFilesSurvive TornIsNeverAdopted ReleaseIsClean CrashesAreRecovered
PROPERTIES WallsSettle
