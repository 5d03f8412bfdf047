\* Two relays without faults produce one group out of order.
SPECIFICATION Spec
CONSTANTS
  g1 = g1  g2 = g2  relay1 = relay1  relay2 = relay2
  Group = {g1}
  Relay = {relay1, relay2}
  Limit = 2
  MaxRows = 2
  MaxFail = 0
  MaxCrash = 0
  MaxSlow = 0
INVARIANT GroupOrder
CHECK_DEADLOCK FALSE
