\* Two messages, three restarts or failures, a backfill in batches of one.
SPECIFICATION Spec
CONSTANTS
  Batch = 1
  MaxMessages = 2
  MaxFaults = 3
  MaxBackfills = 1
 
INVARIANT BackfillCovers
 
CHECK_DEADLOCK FALSE
