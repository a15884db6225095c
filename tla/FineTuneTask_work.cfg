SPECIFICATION FairSpec
CONSTANTS
  t1 = t1
  NoTask = NoTask
  NoURL = NoURL
  Tasks = {t1}
  URLs = {}
  MaxIncarnations = 1
  MaxDisturbances = 1
  Fragile = {}
CHECK_DEADLOCK FALSE
INVARIANTS Guarded CleanupMissesOnlyLateWork
PROPERTIES LifecycleSpec FinishedWorkGoes WebUIComesUp
