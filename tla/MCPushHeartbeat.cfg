SPECIFICATION Spec
CONSTANTS
  Tcp = {t1}
  Web = {b1}
  NoConn = NoConn
  Id = {1, 2}
  Timeout = 1
  MaxLag = 1
  MaxUpdate = 4
  PerTick = 2
  MaxSay = 4
  Lists <- MCLists
PROPERTIES OnlySilentAreCut
CHECK_DEADLOCK FALSE
