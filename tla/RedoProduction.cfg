\* Production's records under crashes and failed writes.
SPECIFICATION Spec
CONSTANTS
  p1 = p1
  p2 = p2
  Proc = {p1, p2}
  Payload = {"x"}
  Kinds <- ProductionKinds
  MaxSeq = 3
  MaxEpoch = 3
  MaxFaults = 2
SYMMETRY Symmetry
INVARIANTS
  RedoNeverConflicts
  ModeAbsentMeansReleased
  TerminalClosureIsWhole
PROPERTIES
  BeginsOnIssuedRecords
  TransactionsAreAtomic
