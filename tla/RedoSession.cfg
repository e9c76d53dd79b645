\* Session traffic: stale permits, two-record transactions, two kinds of fault.
SPECIFICATION FairSpec
CONSTANTS
  p1 = p1
  p2 = p2
  Proc = {p1, p2}
  Payload = {"x", "y"}
  Kinds <- SessionKinds
  MaxSeq = 2
  MaxEpoch = 0
  MaxFaults = 2
PROPERTIES
  TransactionsAreAtomic
  DescriptorsAreFinished
