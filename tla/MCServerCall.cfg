CONSTANTS
  MaxIn = 2
  MaxOut = 2

SPECIFICATION FairSpec

INVARIANT StatusTellsTheTruth
INVARIANT OneInput
INVARIANT AllIsWritten
PROPERTY CallIsAnswered

CHECK_DEADLOCK FALSE
