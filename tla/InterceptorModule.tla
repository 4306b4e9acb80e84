-------------------------- MODULE InterceptorModule --------------------------
(***************************************************************************)
(* Assignment1: the interceptor from insmod to rmmod and back.             *)
(*                                                                         *)
(* init_function and exit_function run in a process of their own, Loader,  *)
(* around everything that Interceptor describes: they swap the entries of  *)
(* MY_CUSTOM_SYSCALL and exit_group, initialise the module's table, and    *)
(* release what is still intercepted by calling my_syscall themselves.     *)
(* Nothing keeps other processes out meanwhile: a call may arrive before   *)
(* the table is initialised, and may still be inside when the kernel takes *)
(* the module's memory back.                                               *)
(***************************************************************************)
EXTENDS Interceptor

CONSTANTS Loader,    \* the process that runs insmod and rmmod, and nothing else
          MaxLoads   \* bound: how many times the module is loaded

ASSUME LoaderAssumption == Loader \in Root \ Mortal /\ MaxLoads \in Nat

VARIABLES mpc,       \* of init_function and exit_function
          entry,     \* sys_call_table at MY_CUSTOM_SYSCALL and __NR_exit_group
          saved,     \* orig_custom_syscall and orig_exit_group
          ready,     \* system calls whose list head is initialised, not zeroed
          left,      \* those the loop of exit_function has not reached
          loads,     \* how often the module was loaded
          strays     \* history: intercepted too early or too late, see Stray

loaderVars == <<mpc, entry, saved, ready, left, loads>>
moduleVars == <<loaderVars, strays>>
allVars == <<vars, moduleVars>>
-----------------------------------------------------------------------------
Mpc == {"out", "hijack", "hijack exit", "seal", "init", "in",
        "scan", "releasing", "restore", "restore custom", "restore exit",
        "reseal", "returned"}

Originals == [custom |-> "ni_syscall", exit |-> "exit_group"]
Hooks == [custom |-> "my_syscall", exit |-> "my_exit_group"]

(* The loops of init_function and exit_function stop before NR_syscalls,   *)
(* which my_syscall accepts                                                *)
InTable == {s \in Syscall : s < NR_syscalls}

ModuleInit ==
  /\ Init
  /\ mpc = "out"
  /\ entry = Originals
  /\ saved = Originals
  /\ ready = {}
  /\ left = {}
  /\ loads = 0
  /\ strays = {}

LoaderAt(from, to) == mpc = from /\ mpc' = to

TakeCallTable ==
  /\ sys_call_table_lock = Free
  /\ sys_call_table_lock' = Loader
  /\ writable' = TRUE

(* set_addr_ro, then spin_unlock                                           *)
SealCallTable ==
  /\ writable' = FALSE
  /\ sys_call_table_lock' = Free

Inside(p) == pc[p] \notin {"idle", "dead", "oops"}
-----------------------------------------------------------------------------
(* init_function                                                           *)

(* With a zeroed table.  Bound: not over a module of which anything is     *)
(* still in use.                                                           *)
BeginLoad ==
  /\ LoaderAt("out", "hijack")
  /\ loads < MaxLoads /\ loads' = loads + 1
  /\ \A s \in Syscall : sys_call_table[s] = "original"
  /\ \A p \in Pid : ~Inside(p)
  /\ TakeCallTable
  /\ saved' = entry
  /\ strays' = {}
  /\ UNCHANGED <<monitorVars, sys_call_table, f, intercepted, my_table_lock,
                 alive, pc, req, delVars, entry, ready, left>>

(* defect of HijackCustom: the original is saved after the write *)
HijackCustomFirst ==
  /\ LoaderAt("hijack", "hijack exit")
  /\ entry' = [entry EXCEPT !.custom = Hooks.custom]
  /\ saved' = [saved EXCEPT !.custom = Hooks.custom]
  /\ UNCHANGED <<vars, ready, left, loads, strays>>

HijackCustom ==
  /\ LoaderAt("hijack", "hijack exit")
  /\ entry' = [entry EXCEPT !.custom = Hooks.custom]
  /\ UNCHANGED <<vars, saved, ready, left, loads, strays>>

HijackExit ==
  /\ LoaderAt("hijack exit", "seal")
  /\ entry' = [entry EXCEPT !.exit = Hooks.exit]
  /\ UNCHANGED <<vars, saved, ready, left, loads, strays>>

Seal ==
  /\ LoaderAt("seal", "init")
  /\ SealCallTable
  /\ UNCHANGED <<monitorVars, sys_call_table, f, intercepted, my_table_lock,
                 alive, pc, req, delVars, entry, saved, ready, left, loads, strays>>

(* The loop under my_table_lock, over whatever the calls since HijackCustom *)
(* have written                                                             *)
InitTable ==
  /\ LoaderAt("init", "in")
  /\ my_table_lock = Free
  /\ intercepted' = [s \in Syscall |-> s \notin InTable /\ intercepted[s]]
  /\ monitored' = [s \in Syscall |-> IF s \in InTable THEN 0 ELSE monitored[s]]
  /\ listcount' = [s \in Syscall |-> IF s \in InTable THEN 0 ELSE listcount[s]]
  /\ my_list' = [s \in Syscall |-> IF s \in InTable THEN {} ELSE my_list[s]]
  /\ ready' = InTable
  /\ UNCHANGED <<sys_call_table, f, lockVars, writable, alive, pc, req, delVars,
                 entry, saved, left, loads, strays>>
-----------------------------------------------------------------------------
(* exit_function                                                           *)

BeginUnload ==
  /\ LoaderAt("in", "scan")
  /\ left' = InTable
  /\ UNCHANGED <<vars, entry, saved, ready, loads, strays>>

StillIntercepted == {s \in left : intercepted[s]}

(* Under my_table_lock to the next intercepted call; there the lock is     *)
(* given up, and my_syscall(REQUEST_SYSCALL_RELEASE, y, y) starts          *)
ScanAndRelease ==
  LET y == CHOOSE s \in StillIntercepted : \A t \in StillIntercepted : s <= t IN
  /\ LoaderAt("scan", "releasing")
  /\ my_table_lock = Free
  /\ StillIntercepted # {}
  /\ left' = {s \in left : s > y}
  /\ pc' = [pc EXCEPT ![Loader] = "perm"]
  /\ req' = [req EXCEPT ![Loader] = [cmd |-> "RELEASE", syscall |-> y, pid |-> All]]
  /\ UNCHANGED <<monitorVars, hookVars, lockVars, alive, delVars,
                 entry, saved, ready, loads, strays>>

(* defect of Released: y starts from 0 again *)
RescanAll ==
  /\ LoaderAt("releasing", "scan")
  /\ pc[Loader] = "idle"
  /\ left' = InTable
  /\ UNCHANGED <<vars, entry, saved, ready, loads, strays>>

Released ==
  /\ LoaderAt("releasing", "scan")
  /\ pc[Loader] = "idle"
  /\ UNCHANGED <<vars, entry, saved, ready, left, loads, strays>>

(* defect of ScanEnds: the loop stops after its first release *)
ScanEndsEarly ==
  /\ LoaderAt("scan", "restore")
  /\ my_table_lock = Free
  /\ left' = {}
  /\ UNCHANGED <<vars, entry, saved, ready, loads, strays>>

ScanEnds ==
  /\ LoaderAt("scan", "restore")
  /\ my_table_lock = Free
  /\ StillIntercepted = {}
  /\ left' = {}
  /\ UNCHANGED <<vars, entry, saved, ready, loads, strays>>

(* defect of BeginRestore: the page is left read-only *)
BeginRestoreSealed ==
  /\ LoaderAt("restore", "restore custom")
  /\ sys_call_table_lock = Free
  /\ sys_call_table_lock' = Loader
  /\ UNCHANGED <<monitorVars, hookVars, my_table_lock,
                 alive, pc, req, delVars, entry, saved, ready, left, loads, strays>>

BeginRestore ==
  /\ LoaderAt("restore", "restore custom")
  /\ TakeCallTable
  /\ UNCHANGED <<monitorVars, sys_call_table, f, intercepted, my_table_lock,
                 alive, pc, req, delVars, entry, saved, ready, left, loads, strays>>

RestoreCustom ==
  /\ LoaderAt("restore custom", "restore exit")
  /\ entry' = [entry EXCEPT !.custom = saved.custom]
  /\ UNCHANGED <<vars, saved, ready, left, loads, strays>>

RestoreExit ==
  /\ LoaderAt("restore exit", "reseal")
  /\ entry' = [entry EXCEPT !.exit = saved.exit]
  /\ UNCHANGED <<vars, saved, ready, left, loads, strays>>

Reseal ==
  /\ LoaderAt("reseal", "returned")
  /\ SealCallTable
  /\ UNCHANGED <<monitorVars, sys_call_table, f, intercepted, my_table_lock,
                 alive, pc, req, delVars, entry, saved, ready, left, loads, strays>>

(* The kernel takes the module's memory back: locks, table, heads.  What   *)
(* the lists still hold is never freed.                                    *)
FreeModule ==
  /\ LoaderAt("returned", "out")
  /\ f' = [s \in Syscall |-> "original"]
  /\ intercepted' = [s \in Syscall |-> FALSE]
  /\ monitored' = [s \in Syscall |-> 0]
  /\ listcount' = [s \in Syscall |-> 0]
  /\ my_list' = [s \in Syscall |-> {}]
  /\ my_table_lock' = Free
  /\ sys_call_table_lock' = Free
  /\ ready' = {}
  /\ UNCHANGED <<sys_call_table, writable, alive, pc, req, delVars,
                 entry, saved, left, loads, strays>>

Load == BeginLoad \/ HijackCustom \/ HijackExit \/ Seal \/ InitTable

Unload == \/ ScanAndRelease \/ Released \/ ScanEnds \/ BeginRestore
          \/ RestoreCustom \/ RestoreExit \/ Reseal \/ FreeModule
-----------------------------------------------------------------------------
(* Everybody else                                                          *)

(* The head of s is still zero, and the next step follows its pointers     *)
FollowsNull(p) ==
  \/ /\ pc[p] = "lock" /\ my_table_lock = Free
     /\ req[p].syscall \notin ready /\ intercepted[req[p].syscall]
     /\ req[p].cmd = "START" \/ (req[p].cmd = "STOP" /\ req[p].pid # All)
  \/ /\ pc[p] = "interceptor" /\ my_table_lock = Free
     /\ req[p].syscall \notin ready
  \/ /\ pc[p] = "del" /\ s_del[p] # {}
     /\ Current(p) \notin ready

Killed(p) == /\ alive' = alive \ {p}
             /\ pc' = [pc EXCEPT ![p] = "oops"]
             /\ req' = [req EXCEPT ![p] = NoRequest]
             /\ s_del' = [s_del EXCEPT ![p] = {}]

(* The oops kills the process; the spinlock it holds stays taken           *)
NullOops(p) ==
  /\ mpc # "out"
  /\ FollowsNull(p)
  /\ Killed(p)
  /\ my_table_lock' = IF pc[p] = "del" THEN my_table_lock ELSE p
  /\ UNCHANGED <<monitorVars, hookVars, sys_call_table_lock, count, moduleVars>>

(* The code of the next step is gone                                       *)
GoneOops(p) ==
  /\ mpc = "out"
  /\ \/ Inside(p)
     \/ pc[p] = "idle" /\ p # Loader /\ \E s \in InTable : sys_call_table[s] = "interceptor"
  /\ Killed(p)
  /\ UNCHANGED <<monitorVars, hookVars, lockVars, count, moduleVars>>

(* exit_group as the kernel has it                                         *)
ExitUnhooked(p) ==
  /\ pc[p] = "idle" /\ p \in Mortal
  /\ entry.exit = Originals.exit
  /\ alive' = alive \ {p}
  /\ Goto(p, "dead")
  /\ UNCHANGED <<monitorVars, hookVars, lockVars, req, delVars, moduleVars>>

Enters(p) ==
  /\ pc[p] = "idle" /\ p # Loader
  /\ \/ entry.custom = Hooks.custom /\ \E r \in Request : Invoke(p, r)
     \/ \E s \in Syscall : Syscalls(p, s)
     \/ entry.exit = Hooks.exit /\ ExitGroup(p)

(* Carried out where no loop of the loader comes any more: before the      *)
(* table is initialised, or behind the loop of exit_function               *)
Stray(p) == mpc # "in" /\ pc[p] = "intercept" /\ req[p].syscall \notin left

Goes(p) ==
  /\ ~FollowsNull(p)
  /\ pc[p] # "idle"
  /\ Running(p) \/ Exiting(p)
  /\ strays' = IF Stray(p) THEN strays \cup {req[p].syscall} ELSE strays

ModuleNext ==
  \/ Load \/ BeginUnload \/ Unload
  \/ \E p \in Pid :
       \/ mpc # "out" /\ Enters(p) /\ UNCHANGED moduleVars
       \/ mpc # "out" /\ Goes(p) /\ UNCHANGED loaderVars
       \/ ExitUnhooked(p) \/ NullOops(p) \/ GoneOops(p)

ModuleSpec == ModuleInit /\ [][ModuleNext]_allVars

(* Whoever holds a spinlock goes on (preemption is off), and the loader is *)
(* not starved: the spinlocks are FIFO ticket locks.  Nothing is asked of  *)
(* the others, nor that insmod or rmmod is ever run.                       *)
HolderGoes(lock) ==
  \E p \in Pid : p = lock /\ mpc # "out" /\ Goes(p) /\ UNCHANGED loaderVars

LoaderGoes ==
  \/ mpc # "out" /\ (Load \/ Unload)
  \/ Goes(Loader) /\ UNCHANGED loaderVars

ModuleFairness ==
  /\ WF_allVars(HolderGoes(my_table_lock))
  /\ WF_allVars(HolderGoes(sys_call_table_lock))
  /\ SF_allVars(LoaderGoes)

FairModuleSpec == ModuleSpec /\ ModuleFairness
=============================================================================
