CONSTANTS
  SndBuf = 2
  MaxBytes = 2
  Chunks = {1, 2, 3}
  MaxIn = 1
SPECIFICATION FairSpec
CHECK_DEADLOCK FALSE
PROPERTY TimeoutCloses
