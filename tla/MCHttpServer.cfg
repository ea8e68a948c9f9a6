CONSTANTS
  Prepend = 1
  Block = 4
  Extra = 6
  Blank = Blank
  Initial = 4
  MaxReq = 4
  Request <- MCRequest
SPECIFICATION Spec
INVARIANTS TypeOK HoldsStream AnswersInOrder NothingWaits
CHECK_DEADLOCK FALSE
