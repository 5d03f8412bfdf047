\* One own message among three, two pages on their way.
SPECIFICATION Spec
CONSTANTS
  k1 = k1  nobody = nobody
  Key = {k1}
  Nobody = nobody
  PageSize = 1
  MaxMessages = 3
  MaxRecalls = 1
  MaxTurns = 1
  MaxPulls = 2
INVARIANT TypeOK
 
PROPERTY SendSettles
CHECK_DEADLOCK FALSE
