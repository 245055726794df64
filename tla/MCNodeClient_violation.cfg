CONSTANTS
  MaxChunks = 2
  MaxData = 2

SPECIFICATION FairSpec

PROPERTY EarlyCloseNotifiesBody

CHECK_DEADLOCK FALSE
