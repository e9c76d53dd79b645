\* One operation through attempts, retries, re-registration and abandonment.
SPECIFICATION FairSpec
CONSTANTS
  p1 = p1
  p2 = p2
  s1 = s1
  s2 = s2
  o1 = o1
  Proc = {p1, p2}
  Sid = {s1}
  Op = {o1}
  ClosingEpoch = {1}
  Outcome = {"retryable", "released"}
  MaxVer = 5
  MaxFence = 2
  MaxBroker = 3
  MaxFaults = 1
INVARIANTS
  AttemptsHaveTheirOwnFence
  OutcomesAnswerTheLatestCall
PROPERTIES
  AbandonedSessionsAreSwept
