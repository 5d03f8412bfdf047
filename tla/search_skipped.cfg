\* A failed write of which the offset is committed by the next event.
SPECIFICATION Spec
CONSTANTS
  Batch = 1
  MaxMessages = 2
  MaxFaults = 2
  MaxBackfills = 1
INVARIANT CommittedIsApplied
CHECK_DEADLOCK FALSE
