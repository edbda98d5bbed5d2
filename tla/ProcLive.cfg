SPECIFICATION FairSpec
CONSTANTS
  Pids = {"p"}
  NFd = 2
  Names = {"f"}
  NoName = "none"
  SubCap = 1
  AggCap = 1
  ErrCap = 1
  Renames = FALSE
  MaxChanges = 2
INVARIANT StreamFaithful
PROPERTIES EventuallySeen ExitEnds CloseStops
