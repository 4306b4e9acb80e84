---------------------------- MODULE Interceptor ----------------------------
(***************************************************************************)
(* Assignment1: the loaded system call interceptor (interceptor.c).        *)
(*                                                                         *)
(* Processes issue the control call my_syscall, ordinary system calls,     *)
(* which go through sys_call_table, and exit_group.  my_syscall works      *)
(* under my_table_lock and hands over to sys_call_table_lock; the hook of  *)
(* exit_group changes the same pid lists under no lock at all, so its      *)
(* steps are separate actions.  A list is a set here: every insertion      *)
(* follows a test that the pid is not in it.  Linking and unlinking an     *)
(* element are atomic; what two of them do to the pointers of one list     *)
(* when they overlap is left out.                                          *)
(***************************************************************************)
EXTENDS Integers, FiniteSets

CONSTANTS Pid,        \* processes
          Root,       \* those with uid 0
          Owner,      \* uid of each process
          Mortal,     \* those that may call exit_group
          Syscall,    \* system calls other than MY_CUSTOM_SYSCALL (0), exit_group
          NR_syscalls, \* size of sys_call_table; my_syscall takes it for a call
          All,        \* pid 0: "all pids"
          Free        \* owner of an unlocked spinlock

ASSUME PidAssumption == /\ IsFiniteSet(Pid)
                        /\ Root \subseteq Pid /\ Mortal \subseteq Pid
                        /\ All \notin Pid /\ Free \notin Pid
ASSUME SyscallAssumption == /\ IsFiniteSet(Syscall) /\ Syscall \subseteq Nat \ {0}
                           /\ NR_syscalls \in Nat /\ \A s \in Syscall : s <= NR_syscalls

VARIABLES sys_call_table,                                \* the kernel's table
          f, intercepted, monitored, listcount, my_list, \* table[], by field
          my_table_lock, sys_call_table_lock,
          writable,                                      \* page of sys_call_table
          alive,                                         \* what find_vpid finds
          pc, req,                                       \* of each process
          s_del, count                                   \* locals of del_pid

monitorVars == <<monitored, listcount, my_list>>
hookVars == <<sys_call_table, f, intercepted, writable>>
lockVars == <<my_table_lock, sys_call_table_lock>>
delVars == <<s_del, count>>
vars == <<monitorVars, hookVars, lockVars, alive, pc, req, delVars>>
-----------------------------------------------------------------------------
Handler == {"original", "interceptor"}
Cmd == {"INTERCEPT", "RELEASE", "START", "STOP"}
Request == [cmd : Cmd, syscall : Syscall, pid : Pid \cup {All}]
NoRequest == [cmd |-> "none"]
Call == [cmd : {"call"}, syscall : Syscall]

Pc == {"idle", "perm", "lock", "intercept", "publish", "write", "release", "protect",
       "monitor", "interceptor", "logged", "silent",
       "del", "dec", "test", "reset", "dead", "oops"}

Init ==
  /\ sys_call_table = [s \in Syscall |-> "original"]
  /\ f = [s \in Syscall |-> "original"]  \* never called before it is set
  /\ intercepted = [s \in Syscall |-> FALSE]
  /\ monitored = [s \in Syscall |-> 0]
  /\ listcount = [s \in Syscall |-> 0]
  /\ my_list = [s \in Syscall |-> {}]
  /\ my_table_lock = Free
  /\ sys_call_table_lock = Free
  /\ writable = FALSE
  /\ alive = Pid
  /\ pc = [p \in Pid |-> "idle"]
  /\ req = [p \in Pid |-> NoRequest]
  /\ s_del = [p \in Pid |-> {}]
  /\ count = [p \in Pid |-> 0]

Goto(p, label) == pc' = [pc EXCEPT ![p] = label]
Return(p) == /\ Goto(p, "idle")
             /\ req' = [req EXCEPT ![p] = NoRequest]
-----------------------------------------------------------------------------
(* my_syscall: the checks made before any lock is taken                    *)

IsMonitorCmd(r) == r.cmd \in {"START", "STOP"}

ValidArgs(r) == IsMonitorCmd(r) => r.pid = All \/ r.pid \in alive

Invoke(p, r) ==
  /\ pc[p] = "idle"
  /\ IF ValidArgs(r)
       THEN Goto(p, "perm") /\ req' = [req EXCEPT ![p] = r]
       ELSE UNCHANGED <<pc, req>>
  /\ UNCHANGED <<monitorVars, hookVars, lockVars, alive, delVars>>

(* check_pids_same_owner dereferences both task pointers; the one of a pid *)
(* that has died since the first check is NULL                             *)
Permitted(p, r) ==
  \/ p \in Root
  \/ IsMonitorCmd(r) /\ r.pid # All /\ Owner[p] = Owner[r.pid]

NullTask(p, r) ==
  p \notin Root /\ IsMonitorCmd(r) /\ r.pid # All /\ r.pid \notin alive

Oops(p) ==
  /\ alive' = alive \ {p}
  /\ Goto(p, "oops")
  /\ req' = [req EXCEPT ![p] = NoRequest]

CheckPermission(p) ==
  /\ pc[p] = "perm"
  /\ IF NullTask(p, req[p]) THEN Oops(p)
     ELSE /\ IF Permitted(p, req[p]) THEN Goto(p, "lock") /\ UNCHANGED req ELSE Return(p)
          /\ UNCHANGED alive
  /\ UNCHANGED <<monitorVars, hookVars, lockVars, delVars>>
-----------------------------------------------------------------------------
(* my_syscall: under my_table_lock                                         *)

Listed(s, pid) == pid \in my_list[s]

(* defect of NotIntercepted: the test is missing *)
AnyContext(r) == FALSE

(* -EINVAL: out of context *)
NotIntercepted(r) == r.cmd # "INTERCEPT" /\ ~intercepted[r.syscall]

StopInvalid(r) ==
  /\ r.cmd = "STOP"
  /\ \/ r.pid = All /\ monitored[r.syscall] = 0
     \/ ~Listed(r.syscall, r.pid) /\ monitored[r.syscall] # 2
     \/ Listed(r.syscall, r.pid) /\ monitored[r.syscall] = 2

(* -EBUSY, or -EINVAL for a listed pid while all are monitored *)
StartRefused(r) ==
  /\ r.cmd = "START"
  /\ \/ r.pid = All /\ monitored[r.syscall] = 2 /\ listcount[r.syscall] = 0
     \/ Listed(r.syscall, r.pid) \/ monitored[r.syscall] = 2

(* defect of AlreadyIntercepted: no -EBUSY *)
InterceptAgain(r) == FALSE

AlreadyIntercepted(r) == r.cmd = "INTERCEPT" /\ intercepted[r.syscall]

Refused(r) ==
  AlreadyIntercepted(r) \/ NotIntercepted(r) \/ StopInvalid(r) \/ StartRefused(r)

Target(r) == CASE r.cmd = "INTERCEPT" -> "intercept"
               [] r.cmd = "RELEASE" -> "release"
               [] OTHER -> "monitor"

(* spin_lock, the context checks, and spin_unlock when one of them fails   *)
LockAndCheck(p) ==
  /\ pc[p] = "lock"
  /\ my_table_lock = Free
  /\ IF Refused(req[p])
       THEN Return(p) /\ UNCHANGED my_table_lock
       ELSE /\ my_table_lock' = p
            /\ Goto(p, Target(req[p]))
            /\ UNCHANGED req
  /\ UNCHANGED <<monitorVars, hookVars, sys_call_table_lock, alive, delVars>>

(* REQUEST_SYSCALL_INTERCEPT: from one lock to the other, then the table   *)
InterceptSave(p) ==
  LET s == req[p].syscall IN
  /\ pc[p] = "intercept"
  /\ sys_call_table_lock = Free
  /\ sys_call_table_lock' = p
  /\ f' = [f EXCEPT ![s] = sys_call_table[s]]
  /\ intercepted' = [intercepted EXCEPT ![s] = TRUE]
  /\ my_table_lock' = Free
  /\ Goto(p, "publish")
  /\ UNCHANGED <<monitorVars, sys_call_table, writable, alive, req, delVars>>

(* defect of SetWritable: set_addr_rw is forgotten *)
SkipWritable(p) ==
  /\ pc[p] = "publish"
  /\ Goto(p, "write")
  /\ UNCHANGED <<monitorVars, hookVars, lockVars, alive, req, delVars>>

SetWritable(p) ==
  /\ pc[p] = "publish"
  /\ writable' = TRUE
  /\ Goto(p, "write")
  /\ UNCHANGED <<monitorVars, sys_call_table, f, intercepted, lockVars, alive, req, delVars>>

Publish(p) ==
  /\ pc[p] = "write"
  /\ sys_call_table' = [sys_call_table EXCEPT ![req[p].syscall] = "interceptor"]
  /\ Goto(p, "protect")
  /\ UNCHANGED <<monitorVars, f, intercepted, writable, lockVars, alive, req, delVars>>

(* set_addr_ro and spin_unlock, the end of both commands                   *)
Protect(p) ==
  /\ pc[p] = "protect"
  /\ writable' = FALSE
  /\ sys_call_table_lock' = Free
  /\ Return(p)
  /\ UNCHANGED <<monitorVars, sys_call_table, f, intercepted, my_table_lock, alive, delVars>>

(* defect of Release: done under my_table_lock only *)
ReleaseOneLock(p) ==
  LET s == req[p].syscall IN
  /\ pc[p] = "release"
  /\ intercepted' = [intercepted EXCEPT ![s] = FALSE]
  /\ sys_call_table' = [sys_call_table EXCEPT ![s] = f[s]]
  /\ my_table_lock' = Free
  /\ Return(p)
  /\ UNCHANGED <<monitorVars, f, writable, sys_call_table_lock, alive, delVars>>

(* defect of Release: the status is not reset *)
ReleaseKeepsStatus(p) ==
  LET s == req[p].syscall IN
  /\ pc[p] = "release"
  /\ sys_call_table_lock = Free
  /\ sys_call_table_lock' = p
  /\ writable' = TRUE
  /\ sys_call_table' = [sys_call_table EXCEPT ![s] = f[s]]
  /\ my_table_lock' = Free
  /\ Goto(p, "protect")
  /\ UNCHANGED <<monitorVars, f, intercepted, alive, req, delVars>>

(* REQUEST_SYSCALL_RELEASE: monitored and the list stay as they are        *)
Release(p) ==
  LET s == req[p].syscall IN
  /\ pc[p] = "release"
  /\ sys_call_table_lock = Free
  /\ sys_call_table_lock' = p
  /\ writable' = TRUE
  /\ intercepted' = [intercepted EXCEPT ![s] = FALSE]
  /\ sys_call_table' = [sys_call_table EXCEPT ![s] = f[s]]
  /\ my_table_lock' = Free
  /\ Goto(p, "protect")
  /\ UNCHANGED <<monitorVars, f, alive, req, delVars>>
-----------------------------------------------------------------------------
(* my_syscall: REQUEST_START_MONITORING and REQUEST_STOP_MONITORING        *)

(* defect of DestroyList: the count survives *)
DestroyElements(s, flag) ==
  /\ my_list' = [my_list EXCEPT ![s] = {}]
  /\ monitored' = [monitored EXCEPT ![s] = flag]
  /\ UNCHANGED listcount

DestroyList(s, flag) ==
  /\ my_list' = [my_list EXCEPT ![s] = {}]
  /\ listcount' = [listcount EXCEPT ![s] = 0]
  /\ monitored' = [monitored EXCEPT ![s] = flag]

AddPid(s, pid, flag) ==
  /\ my_list' = [my_list EXCEPT ![s] = @ \cup {pid}]
  /\ listcount' = [listcount EXCEPT ![s] = @ + 1]
  /\ monitored' = [monitored EXCEPT ![s] = flag]

(* del_pid_sysc; -EINVAL when the pid is gone since the check *)
DelPid(s, pid) ==
  IF Listed(s, pid)
    THEN /\ my_list' = [my_list EXCEPT ![s] = @ \ {pid}]
         /\ listcount' = [listcount EXCEPT ![s] = @ - 1]
         /\ monitored' = IF listcount[s] = 1 /\ monitored[s] = 1
                           THEN [monitored EXCEPT ![s] = 0] ELSE monitored
    ELSE UNCHANGED monitorVars

(* defect of Start: pid 0 is listed like any other *)
StartAnyPid(s, pid) == monitored[s] # 2 /\ AddPid(s, pid, 1)

Start(s, pid) ==
  \/ pid = All /\ DestroyList(s, 2)
  \/ pid # All /\ monitored[s] # 2 /\ AddPid(s, pid, 1)
  \/ pid # All /\ monitored[s] = 2 /\ DelPid(s, pid)

Stop(s, pid) ==
  \/ pid = All /\ DestroyList(s, 0)
  \/ pid # All /\ monitored[s] = 2 /\ AddPid(s, pid, 2)
  \/ pid # All /\ monitored[s] # 2 /\ DelPid(s, pid)

Adds(r) == r.pid # All /\ (r.cmd = "START") = (monitored[r.syscall] # 2)

Monitor(p) ==
  LET r == req[p] IN
  /\ pc[p] = "monitor"
  /\ r.cmd = "START" => Start(r.syscall, r.pid)
  /\ r.cmd = "STOP" => Stop(r.syscall, r.pid)
  /\ my_table_lock' = Free
  /\ Return(p)
  /\ UNCHANGED <<hookVars, sys_call_table_lock, alive, delVars>>

(* kmalloc fails: -ENOMEM *)
NoMemory(p) ==
  /\ pc[p] = "monitor"
  /\ Adds(req[p])
  /\ my_table_lock' = Free
  /\ Return(p)
  /\ UNCHANGED <<monitorVars, hookVars, sys_call_table_lock, alive, delVars>>
-----------------------------------------------------------------------------
(* An ordinary system call, dispatched through the kernel's table          *)
Syscalls(p, s) ==
  /\ pc[p] = "idle" /\ s < NR_syscalls
  /\ IF sys_call_table[s] = "interceptor"
       THEN /\ Goto(p, "interceptor")
            /\ req' = [req EXCEPT ![p] = [cmd |-> "call", syscall |-> s]]
       ELSE UNCHANGED <<pc, req>>
  /\ UNCHANGED <<monitorVars, hookVars, lockVars, alive, delVars>>

Logs(s, p) == monitored[s] = 2 \/ Listed(s, p)

(* The critical section of interceptor()                                   *)
InterceptorLogs(p) ==
  /\ pc[p] = "interceptor"
  /\ my_table_lock = Free
  /\ Goto(p, IF Logs(req[p].syscall, p) THEN "logged" ELSE "silent")
  /\ UNCHANGED <<monitorVars, hookVars, lockVars, alive, req, delVars>>

(* table[].f is read and called after the unlock                           *)
CallsOriginal(p) ==
  /\ pc[p] \in {"logged", "silent"}
  /\ IF f[req[p].syscall] = "original" THEN Return(p)
     ELSE Goto(p, "interceptor") /\ UNCHANGED req
  /\ UNCHANGED <<monitorVars, hookVars, lockVars, alive, delVars>>
-----------------------------------------------------------------------------
(* exit_group: del_pid on every list without a lock, then the real exit.   *)
(* s_del holds the lists del_pid has not visited yet.                      *)
ExitGroup(p) ==
  /\ pc[p] = "idle" /\ p \in Mortal
  /\ Goto(p, "del")
  /\ s_del' = [s_del EXCEPT ![p] = {s \in Syscall : s < NR_syscalls}]
  /\ UNCHANGED <<monitorVars, hookVars, lockVars, alive, req, count>>

Current(p) == CHOOSE s \in s_del[p] : \A t \in s_del[p] : s <= t
NextList(p) == /\ Goto(p, "del")
               /\ s_del' = [s_del EXCEPT ![p] = @ \ {Current(p)}]

(* list_del, and the read half of listcount-- *)
DelUnlink(p) ==
  LET s == Current(p) IN
  /\ pc[p] = "del" /\ s_del[p] # {}
  /\ IF Listed(s, p)
       THEN /\ my_list' = [my_list EXCEPT ![s] = @ \ {p}]
            /\ count' = [count EXCEPT ![p] = listcount[s]]
            /\ Goto(p, "dec")
            /\ UNCHANGED s_del
       ELSE NextList(p) /\ UNCHANGED <<my_list, count>>
  /\ UNCHANGED <<monitored, listcount, hookVars, lockVars, alive, req>>

(* the write half *)
DelCount(p) ==
  /\ pc[p] = "dec"
  /\ listcount' = [listcount EXCEPT ![Current(p)] = count[p] - 1]
  /\ count' = [count EXCEPT ![p] = 0]
  /\ Goto(p, "test")
  /\ UNCHANGED <<monitored, my_list, hookVars, lockVars, alive, req, s_del>>

DelTest(p) ==
  /\ pc[p] = "test"
  /\ IF listcount[Current(p)] = 0 /\ monitored[Current(p)] = 1
       THEN Goto(p, "reset") /\ UNCHANGED s_del
       ELSE NextList(p)
  /\ UNCHANGED <<monitorVars, hookVars, lockVars, alive, req, count>>

DelReset(p) ==
  /\ pc[p] = "reset"
  /\ monitored' = [monitored EXCEPT ![Current(p)] = 0]
  /\ NextList(p)
  /\ UNCHANGED <<listcount, my_list, hookVars, lockVars, alive, req, count>>

(* the original exit_group *)
Dies(p) ==
  /\ pc[p] = "del" /\ s_del[p] = {}
  /\ alive' = alive \ {p}
  /\ Goto(p, "dead")
  /\ UNCHANGED <<monitorVars, hookVars, lockVars, req, delVars>>
-----------------------------------------------------------------------------
MySyscall(p) ==
  \/ CheckPermission(p) \/ LockAndCheck(p)
  \/ InterceptSave(p) \/ SetWritable(p) \/ Publish(p) \/ Protect(p) \/ Release(p)
  \/ Monitor(p) \/ NoMemory(p)

Running(p) == MySyscall(p) \/ InterceptorLogs(p) \/ CallsOriginal(p)

Exiting(p) == ExitGroup(p) \/ DelUnlink(p) \/ DelCount(p) \/ DelTest(p) \/ DelReset(p) \/ Dies(p)

Next ==
  \E p \in Pid :
    \/ \E r \in Request : Invoke(p, r)
    \/ \E s \in Syscall : Syscalls(p, s)
    \/ Running(p) \/ Exiting(p)

Spec == Init /\ [][Next]_vars

(* A process inside the kernel goes on; the spinlocks of this kernel are   *)
(* FIFO ticket locks, so a process that spins gets its turn.  No process   *)
(* has to issue a call.                                                    *)
Fairness ==
  \A p \in Pid :
    /\ WF_vars(Running(p))
    /\ SF_vars(LockAndCheck(p))
    /\ SF_vars(InterceptSave(p) \/ Release(p))
    /\ SF_vars(InterceptorLogs(p))

FairSpec == Spec /\ Fairness
=============================================================================
