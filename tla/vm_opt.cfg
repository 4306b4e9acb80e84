SPECIFICATION HSpec
CONSTANTS
  a = a
  b = b
  c = c
  d = d
  Page = {a, b, c, d}
  dir_of <- DirOf
  memsize = 3
  swapsize = 4
  MaxRefs = 8
  Unused = Unused
PROPERTIES OptIsMin
