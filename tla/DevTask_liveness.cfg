SPECIFICATION FairSpec
CONSTANTS
  t1 = t1
  t2 = t2
  NoTask = NoTask
  NoURL = NoURL
  Tasks = {t1}
  URLs = {u1}
  MaxIncarnations = 1
  MaxDisturbances = 1
  Routed = {}
  WithTTL = {t1}
  Framework <- OneFramework
  Scalable = {t1}
  Fragile = {t1}
CHECK_DEADLOCK FALSE
PROPERTIES DeletionCompletes StartsUp RunningHasDeployment CompletedTaskExpires
