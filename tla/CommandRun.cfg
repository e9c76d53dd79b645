\* One call: every cut of every short output, a broken mirror, two cancellations.
SPECIFICATION FairSpec
CONSTANTS
  Stream = {"stdout", "stderr"}
  Output <- Outputs
  Capacity = 2
  Chunk = 3
  MaxCancel = 2
INVARIANTS CaptureIsWhole NoChildIsLeft SinksOutliveDrains
PROPERTIES CallsEnd
