CONSTANTS
  SlotNum = 2
  SlotMs = 2
  Ids = {i1, i2}
  Delays = {0, 3, 5}
  MaxTime = 6
SPECIFICATION Spec
SYMMETRY Symmetry
INVARIANTS TypeOK OneSlotPerTimer ExpiryIsAhead NeverLate
PROPERTY PromptNeverEarly
