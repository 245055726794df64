CONSTANTS
  MaxChunks = 2
  MaxData = 2

SPECIFICATION FairSpec

INVARIANT DoneMeansComplete
PROPERTY FailureEndsUpload
PROPERTY FailureIsSeen
PROPERTY ResponseSettles

CHECK_DEADLOCK FALSE
