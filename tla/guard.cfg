\* Two sends racing two operators, with failing Redis and MySQL.
SPECIFICATION FairSpec
CONSTANTS
  call1 = call1  call2 = call2  op1 = op1  op2 = op2
  None = None
  Caller = {call1, call2}
  Operator = {op1, op2}
  MaxOps = 2
  MaxFaults = 1
INVARIANT GoneNeverSends
INVARIANT MuteHolds
PROPERTY EventuallyFresh
\* Every budget used: nothing has to happen any more.
CHECK_DEADLOCK FALSE
