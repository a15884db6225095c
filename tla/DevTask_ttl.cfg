SPECIFICATION Spec
CONSTANTS
  t1 = t1
  t2 = t2
  NoTask = NoTask
  NoURL = NoURL
  Tasks = {t1}
  URLs = {u1}
  MaxIncarnations = 2
  MaxDisturbances = 0
  Routed = {}
  WithTTL = {t1}
  Framework <- OneFramework
  Scalable = {t1}
  Fragile = {}
CHECK_DEADLOCK FALSE
PROPERTIES TTLSparesUnfinished
