SPECIFICATION FairSpec
CONSTANTS
  t1 = t1
  NoTask = NoTask
  NoURL = NoURL
  Tasks = {t1}
  URLs = {}
  MaxIncarnations = 2
  MaxDisturbances = 1
  Fragile = {t1}
CHECK_DEADLOCK FALSE
INVARIANTS Guarded NoLostWakeup CleanupMissesOnlyLateJobs
PROPERTIES LifecycleSpec EvaluationsEnd FinishedJobsGo OutcomeFollowsJob
