SPECIFICATION Spec
CONSTANTS
  t1 = t1
  t2 = t2
  NoTask = NoTask
  NoURL = NoURL
  Tasks = {t1, t2}
  URLs = {u1}
  MaxIncarnations = 1
  MaxDisturbances = 0
  Routed = {}
  WithTTL = {}
  Framework <- TwoFrameworks
  Scalable = {}
  Fragile = {t1}
CHECK_DEADLOCK FALSE
PROPERTIES FailureHasACause
CONSTRAINT Busy
