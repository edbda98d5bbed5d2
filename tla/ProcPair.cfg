SPECIFICATION Spec
CONSTANTS
  Pids = {p, q}
  NFd = 1
  Names = {f, g}
  NoName = NoName
  SubCap = 1
  AggCap = 1
  ErrCap = 1
  Renames = TRUE
  MaxChanges = 1
SYMMETRY Symmetric
INVARIANTS TypeOK StreamFaithful StreamAlternates NoSendOnClosed
PROPERTY StreamSpec
