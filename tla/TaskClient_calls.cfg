SPECIFICATION FairSpec
CONSTANTS
  Task = t1
  Waits <- FewWaits
  Latency = 1
  MaxIncarnations = 2
CHECK_DEADLOCK FALSE
INVARIANTS TimesOutOnlyUnseen AnswersAreNoOlder DeletedIsGone
PROPERTIES NoLostEdit WaitsEnd
