\* Two relays, with failing produces, crashes, lost marks and slow relays.
SPECIFICATION FairSpec
CONSTANTS
  g1 = g1  g2 = g2  relay1 = relay1  relay2 = relay2
  Group = {g1, g2}
  Relay = {relay1, relay2}
  Limit = 2
  MaxRows = 2
  MaxFail = 2
  MaxCrash = 2
  MaxSlow = 1
INVARIANT SentImpliesProduced
INVARIANT DuplicatesAreFaults
INVARIANT ExclusiveClaim
INVARIANT GapIsInHand
PROPERTY EveryEventSettles
\* Everything sent, nothing left to queue: the relays only tick.
CHECK_DEADLOCK FALSE
