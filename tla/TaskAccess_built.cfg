SPECIFICATION FairAccessSpec
CONSTANTS
  Unset = Unset
  NoHost = NoHost
  NoURL = NoURL
  EnvPort <- TGIPort
  Routings <- SomeRoutings
  EditedPorts = {9100}
  Clusters <- SomeClusters
  MaxCalls = 3
  MaxChanges = 2
CHECK_DEADLOCK FALSE
INVARIANTS URLIsServed SettingsReachWorkload
PROPERTIES EditTakesEffect
