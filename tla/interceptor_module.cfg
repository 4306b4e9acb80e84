SPECIFICATION FairModuleSpec
CONSTANTS
  loader = loader
  root = root
  user = user
  Loader = loader
  MaxLoads = 1
  Pid = {loader, root, user}
  Root = {loader, root}
  Mortal = {root}
  Owner <- OwnerOf
  Syscall = {1}
  NR_syscalls = 2
  All = All
  Free = Free
INVARIANTS TypeOK ModuleTypeOK StatusKept UnloadRestores
PROPERTIES EntriesProtected UnloadEnds
CHECK_DEADLOCK FALSE
