SPECIFICATION Spec
CONSTANTS
  Paths = {"a", "b", "c", "e"}
  Root = "root"
  NoPath = "none"
  Parent <- MCParent
  EventName <- DotName
  Ignored = {"c", "e"}
  EventFilter = {"create", "write", "remove", "rename"}
  ReadConfigured = TRUE
  LogConfigured = TRUE
  LogFile = "none"
  Sizes = {0, 1}
  KernelCap = 3
  EventsCap = 1
  ErrorsCap = 1
  WatchLimit = 2
  UserPhases = {"scan", "watch", "run"}
  MaxChanges = 4
INVARIANTS TypeOK SizesAgree WatchesAgree WatchTables IgnoredUntouched
