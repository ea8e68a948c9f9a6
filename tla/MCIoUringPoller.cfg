CONSTANTS
  Addr = {a1, a2}
  GenMod = 3
  MaxGen = 3
  MaxId = 2
  MaxReq = 2
SPECIFICATION FairSpec
INVARIANTS TypeOK RegisteredIsPolled DispatchedIsAlive
PROPERTIES EventsDelivered WatchersReclaimed
