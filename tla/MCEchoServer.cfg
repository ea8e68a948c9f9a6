SPECIFICATION Spec
CONSTANTS
  NumLoops = 2
  MaxConn = 2
  Fd = {1, 2}
  NoFd = 0
  NoConn = 0
  Base = 0
  Worker = {w1}
  Poster <- MCPoster
  Work <- MCWork
  NoWork = NoWork
  MaxMsg = 1
INVARIANTS TypeOK TableIsTrue StopDrains
PROPERTIES PostedIsEchoed DescriptorsReturn
CHECK_DEADLOCK FALSE
