SPECIFICATION ModuleSpec
CONSTANTS
  loader = loader
  root = root
  user = user
  Loader = loader
  MaxLoads = 1
  Pid = {loader, root}
  Root = {loader, root}
  Mortal = {}
  Owner <- OwnerOf
  Syscall = {1, 2}
  NR_syscalls = 2
  All = All
  Free = Free
INVARIANTS UnloadCleansUp
CHECK_DEADLOCK FALSE
