CONSTANTS
  Thread = {t1, t2}
  Cells = 2
  MaxLine = 2
  Nobody = Nobody
SPECIFICATION FairSpec
INVARIANTS LinesAccounted StopLosesOnlyBlind
PROPERTIES QueueIsFifo StopReturns
CHECK_DEADLOCK FALSE
