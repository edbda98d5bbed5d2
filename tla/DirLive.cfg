SPECIFICATION FairSpec
CONSTANTS
  Paths = {"a", "c", "log"}
  Root = "root"
  NoPath = "none"
  Parent <- MCParent
  EventName <- OneName
  Ignored = {"log"}
  EventFilter = {"write", "rename"}
  ReadConfigured = TRUE
  LogConfigured = TRUE
  LogFile = "log"
  Sizes = {0, 1}
  KernelCap = 2
  EventsCap = 1
  ErrorsCap = 1
  WatchLimit = 2
  UserPhases = {"run"}
  MaxChanges = 2
INVARIANT SizesAgree
PROPERTIES EventuallyQuiet OverflowReported SignalStops
