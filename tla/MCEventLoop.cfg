CONSTANTS
  Loop = loop
  Remote = {r1, r2}
  Tasks = {t1, t2}
  Timers = {x1}
SPECIFICATION FairSpec
INVARIANTS TypeOK NoLostWakeup QuitIsNoticed
PROPERTIES Refinement QueuedTasksRun QuitEndsLoop ArmedTimersFire
