CONSTANTS
  MaxMessages = 3
  MaxLength = 2

SPECIFICATION FairSpec

PROPERTY ReadsTheFrames
PROPERTY ReadingEnds

CHECK_DEADLOCK FALSE
