SPECIFICATION HSpec
CONSTANTS
  a = a
  b = b
  c = c
  d = d
  Page = {a, b, c, d}
  dir_of <- DirOf
  memsize = 3
  swapsize = 2
  MaxRefs = 6
  Unused = Unused
INVARIANTS TypeOK PageTableAgrees SlotsOwned CleanIsSaved CountersAgree LruInOrder FifoInOrder
PROPERTIES ImplementsFlatMemory
