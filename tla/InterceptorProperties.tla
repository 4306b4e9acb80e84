----------------------- MODULE InterceptorProperties -----------------------
(***************************************************************************)
(* What the system call interceptor of Assignment1 must guarantee.         *)
(***************************************************************************)
EXTENDS Interceptor

(* The processes whose calls of s are to be logged: all but the listed     *)
(* ones while "all pids" are monitored, else the listed ones.              *)
Watched(s) == IF monitored[s] = 2 THEN Pid \ my_list[s] ELSE my_list[s]

(* No process has begun to exit: del_pid changes the lists without a lock, *)
(* and what it may leave behind (a wrong count, a flag reset too late)     *)
(* stays.                                                                  *)
ExitSteps == {"del", "dec", "test", "reset", "dead"}

NoneExits == \A p \in Pid : pc[p] \notin ExitSteps
-----------------------------------------------------------------------------
(* Every variable keeps its type.                                          *)
TypeOK ==
  /\ sys_call_table \in [Syscall -> Handler]
  /\ f \in [Syscall -> Handler]
  /\ intercepted \in [Syscall -> BOOLEAN]
  /\ monitored \in [Syscall -> 0 .. 2]
  /\ listcount \in [Syscall -> Int]
  /\ my_list \in [Syscall -> SUBSET Pid]
  /\ my_table_lock \in Pid \cup {Free}
  /\ sys_call_table_lock \in Pid \cup {Free}
  /\ writable \in BOOLEAN
  /\ alive \subseteq Pid
  /\ pc \in [Pid -> Pc]
  /\ req \in [Pid -> Request \cup Call \cup {NoRequest}]
  /\ s_del \in [Pid -> SUBSET Syscall]
  /\ count \in [Pid -> Int]

(* The module's table and the kernel's agree whenever the kernel's is not  *)
(* being changed, although my_table_lock is given up before the change.    *)
TablesAgree ==
  sys_call_table_lock = Free =>
    \A s \in Syscall : intercepted[s] <=> sys_call_table[s] = "interceptor"

(* The saved handler is never the interceptor itself: a logged call always *)
(* reaches the original system call, and interceptor() does not recurse    *)
(* although it reads f after the unlock.                                   *)
OriginalKept ==
  \A s \in Syscall : f[s] = "original"

(* sys_call_table is written only while its page is writable, and the page *)
(* is writable only under sys_call_table_lock.                             *)
WriteProtected ==
  [][/\ sys_call_table' # sys_call_table => writable \/ writable'
     /\ writable' => sys_call_table_lock' # Free]_vars

(* listcount counts the list, and the flag tells an empty list from a      *)
(* non-empty one, whenever no request is being carried out.                *)
CountsAgree ==
  NoneExits /\ my_table_lock = Free =>
    \A s \in Syscall :
      /\ listcount[s] = Cardinality(my_list[s])
      /\ monitored[s] = 0 => my_list[s] = {}
      /\ monitored[s] = 1 => my_list[s] # {}

(* Calls of an intercepted system call miss interceptor(), whoever is      *)
(* monitored, only in one window: the one INTERCEPT request in progress    *)
(* has set the status and given my_table_lock up, so that others may START *)
(* already, but has not written the kernel's table (interceptor.c:475-480). *)
MissedOnlyDuringIntercept ==
  \A s \in Syscall : intercepted[s] /\ sys_call_table[s] = "original" =>
    \E p \in Pid : /\ pc[p] \in {"publish", "write"} /\ req[p].syscall = s
                   /\ sys_call_table_lock = p

(* A process that waits for a lock, or holds one, gets out of the kernel:  *)
(* the two locks are always taken in the same order and always released.   *)
CallsReturn ==
  \A p \in Pid : pc[p] \in {"lock", "intercept", "release", "monitor", "interceptor"}
                   ~> pc[p] = "idle"

(* Until a process exits, my_syscall implements atomic requests on sets of *)
(* processes.                                                              *)
Abstract == INSTANCE MonitorSpec WITH
              hooked <- {s \in Syscall : intercepted[s]},
              watched <- [s \in Syscall |-> Watched(s)]

ImplementsMonitorSpec ==
  /\ Abstract!Init
  /\ [][NoneExits /\ NoneExits' => Abstract!Next]_(Abstract!vars)
-----------------------------------------------------------------------------
(* interceptor.c:305: "REQUEST_STOP_MONITORING to stop monitoring for      *)
(* 'pid'": what is logged is a call of a watched process.                  *)
LogsOnlyWatched ==
  [][\A p \in Pid : pc[p] = "interceptor" /\ pc'[p] = "logged"
                      => p \in Watched(req[p].syscall)]_vars

(* interceptor.c:234-236: exit_group is intercepted "so that we can remove *)
(* the exiting process's pid from *all* syscall lists": no dead process is *)
(* listed.                                                                 *)
DeadNotListed ==
  \A p \in Pid : pc[p] = "dead" => \A s \in Syscall : p \notin my_list[s]
=============================================================================
