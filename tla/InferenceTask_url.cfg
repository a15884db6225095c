SPECIFICATION FairSpec
CONSTANTS
  t1 = t1
  t2 = t2
  NoTask = NoTask
  NoURL = NoURL
  Tasks = {t1}
  URLs = {u1, u2}
  MaxIncarnations = 1
  MaxDisturbances = 1
  Routed = {t1}
  WithTTL = {}
  Scalable = {}
  Fragile = {}
  ScaledFromZero = {}
CHECK_DEADLOCK FALSE
PROPERTIES URLFollowsGateway
