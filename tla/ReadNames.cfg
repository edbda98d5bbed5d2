SPECIFICATION Spec
CONSTANTS
  Dirs = {"d", "e"}
  Root = "root"
  Inodes = {i1, i2, i3}
  RootInode = root
  NoInode = none
  NoPath = ""
  Ignored = {"e"}
  KernelCap = 3
  NotesCap = 2
  EventsCap = 1
  Renames = TRUE
  MaxChanges = 4
SYMMETRY Symmetric
INVARIANTS TypeOK NamesHad StableCovered
