\* One send retried, a system message and concurrent recalls of two operators.
SPECIFICATION FairSpec
CONSTANTS
  g1 = g1  g2 = g2  u1 = u1  u2 = u2  c1 = c1
  call1 = call1  call2 = call2  call3 = call3  rec1 = rec1  rec2 = rec2
  System = System  None = None
  Table <- OneTable
  Group = {g1}
  Send <- OneSend
  Caller = {call1, call2}
  Recaller = {rec1, rec2}
  MaxSystem = 1
  MaxCallFaults = 1
  MaxRedisFaults = 1
INVARIANT MaxSequenceTracksLog
INVARIANT StoredIffQueued
 
INVARIANT AckAgreement
 
PROPERTY ImplementsMessageLog
PROPERTY EventuallyAcked
\* Everything sent and recalled, every budget used: nothing has to happen.
CHECK_DEADLOCK FALSE
