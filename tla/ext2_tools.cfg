SPECIFICATION Spec
CONSTANTS
  a = a
  b = b
  c = c
  Name = {a, b, c}
  Inode = {2, 12, 13}
  Block = {20, 21, 22, 23, 24, 25}
  Words = 13
  Long = {c}
  Hidden = {c}
  Direct = 2
  Pointers = 3
  MaxRuns = 6
  PathRuns = 3
  CorruptBy = 3
SYMMETRY Alike
INVARIANTS TypeOK CountersMatch BlocksOwnedOnce LinksCount RecordsTile RestoreUndoesRemove PathsAgree CheckerRepairs
PROPERTIES ImplementsFileTree
