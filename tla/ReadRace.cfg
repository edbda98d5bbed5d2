SPECIFICATION Spec
CONSTANTS
  Dirs = {"d", "e"}
  Root = "root"
  Inodes = {i1, i2, i3}
  RootInode = root
  NoInode = none
  NoPath = ""
  Ignored = {}
  KernelCap = 3
  NotesCap = 3
  EventsCap = 1
  Renames = TRUE
  MaxChanges = 1
SYMMETRY Symmetric
INVARIANTS ReadsCovered
