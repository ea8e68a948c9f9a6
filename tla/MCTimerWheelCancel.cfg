CONSTANTS
  SlotNum = 3
  SlotMs = 2
  Ids = {i1}
  Delays = {3}
  MaxTime = 8
SPECIFICATION Spec
INVARIANT CancelIsFinal
