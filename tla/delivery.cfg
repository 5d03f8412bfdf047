\* Two members in pages of one, two connections on up to two nodes.
SPECIFICATION Spec
CONSTANTS
  c1 = c1  c2 = c2  s1 = s1  s2 = s2
  User = {1, 2}
  Conn = {c1, c2}
  Server = {s1, s2}
  Places <- MCPlaces
  Audiences = {{1}}
  Mode = {"kafka", "direct"}
  BatchMembers = 1
  Attempts = 2
  MaxEvents = 2
  MaxFaults = 2
INVARIANT TypeOK
INVARIANT CommittedWasTried
INVARIANT InPartitionOrder
INVARIANT HandledReaches
INVARIANT OneCopyPerAttempt
PROPERTY EveryEventTried
CHECK_DEADLOCK FALSE
