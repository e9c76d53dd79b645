\* Two processes on one run identity: two deaths anywhere, two acts of the operator.
SPECIFICATION FairSpec
CONSTANTS
  Proc = {p1, p2}
  Run = {r1}
  Production = production
  Operator = operator
  Nobody = nobody
  None = 0
  Epoch = {1, 2, 3, 4, 5}
  Releasable = {r1}
  CrashAt <- Anywhere
  MaxCrash = 2
  MaxTouch = 2
INVARIANTS OpenLeaseHoldsMode NoLiveRunIsSwept ClosingIsSettled
PROPERTIES ClosesSettled StrangersSurvive AbandonedRunsEnd
