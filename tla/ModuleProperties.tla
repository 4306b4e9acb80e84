-------------------------- MODULE ModuleProperties --------------------------
(***************************************************************************)
(* What loading and unloading the interceptor of Assignment1 must keep.    *)
(***************************************************************************)
EXTENDS InterceptorModule, InterceptorProperties

(* Every variable of the loader keeps its type; what it saves is always    *)
(* the kernel's own entries.                                               *)
ModuleTypeOK ==
  /\ mpc \in Mpc
  /\ entry \in [custom : {Originals.custom, Hooks.custom}, exit : {Originals.exit, Hooks.exit}]
  /\ saved = Originals
  /\ ready \in {{}, InTable}
  /\ left # {} => mpc \in {"scan", "releasing"}
  /\ loads \in 0 .. MaxLoads
  /\ strays \subseteq Syscall

(* interceptor.c:66: the status of a system call is true of the kernel's   *)
(* table, through loads, unloads and every race with them, for all calls   *)
(* but those intercepted before the table is initialised (then init_function *)
(* clears the status) or behind the loop of exit_function.                 *)
StatusKept ==
  mpc # "out" /\ sys_call_table_lock = Free =>
    \A s \in Syscall \ strays : intercepted[s] <=> sys_call_table[s] = "interceptor"

(* Once exit_function has returned, the kernel's table is the one from     *)
(* before: its own two entries, and every call that was not intercepted    *)
(* behind its back, although it gives my_table_lock up for each release.   *)
UnloadRestores ==
  mpc \in {"returned", "out"} =>
    /\ entry = Originals
    /\ \A s \in InTable \ strays : sys_call_table[s] = "original"

(* The two entries of the kernel's table are written only while its page   *)
(* is writable and by the holder of its lock.                              *)
EntriesProtected ==
  [][entry' # entry => writable /\ sys_call_table_lock = Loader]_allVars

(* rmmod ends, whatever the others request meanwhile, unless one of them   *)
(* was killed by an oops with a lock in its hands.                         *)
UnloadEnds ==
  mpc = "scan" ~>
    \/ mpc = "returned"
    \/ \E p \in Pid : pc[p] = "oops" /\ p \in {my_table_lock, sys_call_table_lock}
-----------------------------------------------------------------------------
(* interceptor.c:622: "Make sure to deintercept all syscalls, and cleanup  *)
(* all pid lists": what exit_function leaves, races aside.                 *)
UnloadCleansUp ==
  mpc = "returned" =>
    \A s \in Syscall \ strays : sys_call_table[s] = "original" /\ my_list[s] = {}
=============================================================================
