SPECIFICATION Spec
CONSTANTS
  Cwd <- MCCwd
  Nil = Nil
  Missing = Missing
  Broken = Broken
  Error = Error
  HalfWord = 10000
  Millisecond = 10
  Ops = {"CREATE", "RENAME", "OPEN", "TCP_CONNECT"}
  Keys = {"f", "g"}
  NoFile = NoFile
  MaxRecords = 4
  Files <- MCFiles
  FlagSets <- MCFlagSets
  EventDirs <- MCEventDirs
INVARIANTS TypeOK NormalizedOnce TickersPositive PidOverrides EventsHonoured IgnoreExact OwnLogsIgnored MostRecentLast FileCurrent
