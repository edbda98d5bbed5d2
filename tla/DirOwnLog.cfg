SPECIFICATION FairSpec
CONSTANTS
  Paths = {"a", "b", "c", "d"}
  Root = "root"
  NoPath = "none"
  Parent <- MCParent
  EventName <- OneName
  Ignored = {"c"}
  EventFilter = {"create", "write", "remove", "rename"}
  ReadConfigured = TRUE
  LogConfigured = TRUE
  LogFile = "b"
  Sizes = {0, 1}
  KernelCap = 3
  EventsCap = 1
  ErrorsCap = 1
  WatchLimit = 3
  UserPhases = {"scan", "watch", "run"}
  MaxChanges = 1
PROPERTY EventuallyQuiet
