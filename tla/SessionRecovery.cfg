\* Two invocations over two sessions: crashes, lost answers, recovery.
SPECIFICATION Spec
CONSTANTS
  p1 = p1
  p2 = p2
  s1 = s1
  s2 = s2
  o1 = o1
  Proc = {p1, p2}
  Sid = {s1, s2}
  Op = {o1}
  ClosingEpoch = {1}
  Outcome = {"retryable", "settled"}
  MaxVer = 3
  MaxFence = 2
  MaxBroker = 3
  MaxFaults = 1
SYMMETRY Symmetry
INVARIANTS
  OneOpenSession
  UnknownKeepsItsSessionOpen
  AdmissionOutdatesEveryGate
PROPERTIES
  ClosedSessionsAreFrozen
