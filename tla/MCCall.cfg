CONSTANTS
  MaxIn = 2
  MaxOut = 2

SPECIFICATION FairSpec

INVARIANT NoFalseAlarm
PROPERTY ImplementsRpc
PROPERTY CallSettles

CHECK_DEADLOCK FALSE
