SPECIFICATION FairSpec
CONSTANTS
  root = root
  user = user
  other = other
  Pid = {root, other}
  Root = {root, other}
  Mortal = {other}
  Owner <- OwnerOf
  Syscall = {1}
  NR_syscalls = 2
  All = All
  Free = Free
INVARIANTS TablesAgree MissedOnlyDuringIntercept OriginalKept CountsAgree
PROPERTIES WriteProtected ImplementsMonitorSpec CallsReturn
