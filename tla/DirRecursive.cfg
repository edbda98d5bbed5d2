SPECIFICATION Spec
CONSTANTS
  Paths = {"a", "b"}
  Root = "root"
  NoPath = "none"
  Parent <- MCParent
  EventName <- OneName
  Ignored = {}
  EventFilter = {"create", "write", "remove", "rename"}
  ReadConfigured = TRUE
  LogConfigured = TRUE
  LogFile = "none"
  Sizes = {0, 1}
  KernelCap = 3
  EventsCap = 1
  ErrorsCap = 1
  WatchLimit = 3
  UserPhases = {"run"}
  MaxChanges = 3
INVARIANT RecursiveCoverage
