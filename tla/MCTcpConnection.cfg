CONSTANTS
  SndBuf = 2
  MaxBytes = 5
  Chunks = {1, 2, 3}
  MaxIn = 1
SPECIFICATION FairSpec
CHECK_DEADLOCK FALSE
INVARIANTS TypeOK BacklogIsWatched NothingLost ClosedOnce IntactUnlessBehind ClosedIsUnregistered
PROPERTY BacklogDrains
