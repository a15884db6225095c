SPECIFICATION Spec
CONSTANTS
  t1 = t1
  t2 = t2
  NoTask = NoTask
  NoURL = NoURL
  Tasks = {t1}
  URLs = {u1}
  MaxIncarnations = 1
  MaxDisturbances = 1
  Routed = {t1}
  WithTTL = {t1}
  Scalable = {}
  Fragile = {t1}
  ScaledFromZero = {}
CHECK_DEADLOCK FALSE
INVARIANTS NoLostWakeup CleanupMissesOnlyLateChildren
PROPERTIES OutcomeHasACause
