SPECIFICATION FairSpec
CONSTANTS
  t1 = t1
  t2 = t2
  NoTask = NoTask
  NoURL = NoURL
  Tasks = {t1}
  URLs = {u1}
  MaxIncarnations = 2
  MaxDisturbances = 1
  Routed = {}
  WithTTL = {}
  Scalable = {}
  Fragile = {t1}
  ScaledFromZero = {}
CHECK_DEADLOCK FALSE
INVARIANTS Guarded
PROPERTIES LifecycleSpec DeletionCompletes StartsUp RunningHasDeployment
