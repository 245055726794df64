CONSTANTS
  w1 = w1
  w2 = w2
  w3 = w3
  r1 = r1
  r2 = r2
  r3 = r3
  r4 = r4
  r5 = r5
  Write <- MCWrite
  Read <- MCRead
  Done = Done
  None = None

SPECIFICATION FairWritableSpec

INVARIANT ReaderOrQueue
INVARIANT InOrder
INVARIANT SentTellsTheTruth
INVARIANT NoOrphanRead
PROPERTY ImplementsChannel
PROPERTY WriteSettles
PROPERTY ReaderComesToAnEnd

CHECK_DEADLOCK FALSE
