\* One death, between the closed lease and the mode.
SPECIFICATION FairSpec
CONSTANTS
  Proc = {p1, p2}
  Run = {r1}
  Production = production
  Operator = operator
  Nobody = nobody
  None = 0
  Epoch = {1, 2, 3, 4, 5}
  Releasable = {r1}
  CrashAt = {"release"}
  MaxCrash = 1
  MaxTouch = 0
PROPERTIES DeadRunsAreRecoverable
