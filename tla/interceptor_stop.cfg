SPECIFICATION Spec
CONSTANTS
  root = root
  user = user
  other = other
  Pid = {root, user}
  Root = {root}
  Mortal = {}
  Owner <- OwnerOf
  Syscall = {1}
  NR_syscalls = 2
  All = All
  Free = Free
PROPERTIES LogsOnlyWatched
