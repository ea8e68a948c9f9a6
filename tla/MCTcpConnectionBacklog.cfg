CONSTANTS
  SndBuf = 2
  MaxBytes = 5
  Chunks = {1, 2, 3}
  MaxIn = 1
SPECIFICATION Spec
CHECK_DEADLOCK FALSE
INVARIANT StreamIntact
